---------------------------- MODULE AwsPlatform ----------------------------
(* The collectors of providers/aws/config.ts, backup.ts, data.ts and          *)
(* crypto.ts.                                                                 *)
EXTENDS Findings

------------------------------ (* config.ts *) ------------------------------
(* KSI-CNA-EIS, configuration enforcement. *)
CnaEis ==
  [recorder |-> Whole, packs |-> Page, failingPacks |-> Each("packs"),
   configRules |-> Page, remediations |-> Each("configRules"), stacks |-> Page,
   drifted |-> Part("stacks")]

RecorderHealthy(v) == Finding(Held(v, "recorder"), TRUE)
PacksCompliant(v) ==
  LET compliant == Held(v, "packs") /\ None(v, "failingPacks")
  IN  Finding(compliant /\ v.ok.failingPacks, ~compliant)
AutoRemediation(v) == Finding(Held(v, "remediations"), TRUE)
NoStackDrift(v) == Finding(v.ok.stacks /\ None(v, "drifted"), Held(v, "drifted"))

(* KSI-CNA-IBP. *)
CnaIbp ==
  [standards |-> Page, bothStandards |-> Part("standards"), critical |-> Skim]

StandardsEnabled(v) == Finding(Held(v, "bothStandards"), TRUE)
NoCriticalFindings(v) == Finding(v.ok.critical /\ None(v, "critical"), Held(v, "critical"))

(* KSI-SVC-ACM. *)
SvcAcm == [stacks |-> Page, drifted |-> Part("stacks"), configRules |-> Page]

IacInUse(v) == Finding(Held(v, "stacks") \/ Held(v, "configRules"), TRUE)
StacksWithoutDrift(v) ==
  LET still == None(v, "stacks") \/ None(v, "drifted")
  IN  Finding(v.ok.stacks /\ still, ~still)

(* KSI-SVC-EIS: at least three findings in ten resolved. *)
SvcEis == [lifecycle |-> Skim, resolved |-> Part("lifecycle")]

FindingsImproving(v) ==
  LET improving == None(v, "lifecycle") \/ 10 * v.n.resolved >= 3 * v.n.lifecycle
  IN  Finding(v.ok.lifecycle /\ improving, ~improving)

------------------------------ (* backup.ts *) ------------------------------
(* KSI-CNA-OFA.  The clusters are read after the instances in one try. *)
CnaOfa ==
  [groups |-> Page, singleAzGroups |-> Part("groups"),
   balancers |-> Page, singleAzBalancers |-> Part("balancers"),
   rds |-> Skim, singleAzRds |-> Part("rds")]

GroupsMultiAz(v) ==
  Finding(v.ok.groups /\ None(v, "singleAzGroups"), Held(v, "singleAzGroups"))
BalancersMultiAz(v) ==
  Finding(v.ok.balancers /\ None(v, "singleAzBalancers"), Held(v, "singleAzBalancers"))
RdsMultiAz(v) == Finding(v.ok.rds /\ None(v, "singleAzRds"), Held(v, "singleAzRds"))
TablesListed(v) == Finding(TRUE, FALSE)

(* KSI-RPL-ABO. *)
RplAbo ==
  [plans |-> Page, jobs |-> Page, failedJobs |-> Part("jobs"),
   rds |-> Page, shortRetention |-> Part("rds"),
   tables |-> Page, noPitr |-> Each("tables")]

BackupsSucceed(v) ==
  LET good == Held(v, "plans") /\ None(v, "failedJobs")
  IN  Finding(good /\ v.ok.jobs, ~good)
RdsRetention(v) ==
  Finding(v.ok.rds /\ None(v, "shortRetention"), Held(v, "shortRetention"))
TablesHavePitr(v) == Finding(v.ok.tables /\ v.ok.noPitr /\ None(v, "noPitr"), Held(v, "noPitr"))

(* KSI-RPL-TRC. *)
RplTrc == [restores |-> Page, completed |-> Part("restores")]

RestoreTested(v) == Finding(Held(v, "completed"), TRUE)

------------------------------- (* data.ts *) -------------------------------
(* KSI-SVC-RUD: a lifecycle that cannot be read counts as missing. *)
SvcRud == [buckets |-> Whole, expiring |-> Each("buckets")]

BucketsExpire(v) ==
  LET kept == v.n.buckets > v.n.expiring IN Finding(v.ok.buckets /\ ~kept, kept)
KeyDeletion(v) == Finding(TRUE, FALSE)

(* KSI-SVC-VCM. *)
SvcVcm ==
  [nodes |-> Skim, looseNodes |-> Part("nodes"),
   functions |-> Skim, openUrls |-> Each("functions")]

MeshMtlsStrict(v) == Finding(v.ok.nodes /\ None(v, "looseNodes"), TRUE)
FunctionUrlsUseIam(v) == Finding(v.ok.functions /\ None(v, "openUrls"), Held(v, "openUrls"))

(* KSI-SVC-VRI: at least eight functions in ten are signed. *)
SvcVri ==
  [profiles |-> Page, functions |-> Skim, signed |-> Each("functions"),
   baselines |-> Page, instances |-> Page, noImdsv2 |-> Part("instances")]

SigningProfiles(v) == Finding(Held(v, "profiles"), TRUE)
CodeSigned(v) ==
  LET enough == None(v, "functions") \/ 10 * v.n.signed >= 8 * v.n.functions
  IN  Finding(v.ok.functions /\ enough, ~enough)
PatchBaselines(v) == Finding(Held(v, "baselines"), TRUE)
InstancesImdsv2(v) ==
  Finding(v.ok.instances /\ None(v, "noImdsv2"), Held(v, "noImdsv2"))

------------------------------ (* crypto.ts *) ------------------------------
(* KSI-AFR-UCM.  A listener or key whose details cannot be read is left out.  *)
(* impact: the run's level, 0 low, 1 moderate, 2 high.                        *)
UcmKeys == [keys |-> Skim, externalKeys |-> Each("keys")]
UcmTransport ==
  [certs |-> Skim, weakCerts |-> Each("certs"), sslPolicies |-> Page,
   fipsPolicy |-> Part("sslPolicies"), balancers |-> Skim,
   plainListeners |-> Each("balancers"), distributions |-> Skim]
Ucm ==
  [impact |-> Given, keys |-> UcmKeys.keys, externalKeys |-> UcmKeys.externalKeys,
   certs |-> UcmTransport.certs, weakCerts |-> UcmTransport.weakCerts,
   sslPolicies |-> UcmTransport.sslPolicies, fipsPolicy |-> UcmTransport.fipsPolicy,
   balancers |-> UcmTransport.balancers,
   plainListeners |-> UcmTransport.plainListeners,
   distributions |-> UcmTransport.distributions]

CryptoInventoryBuilt(v) ==
  Finding(\E q \in {"keys", "certs", "balancers", "distributions"} : Held(v, q), TRUE)

Complete(v) == v.ok.keys /\ v.ok.balancers /\ v.ok.sslPolicies
NonFips(v, always) ==
  (always \/ Held(v, "fipsPolicy")) /\ Held(v, "plainListeners")

AgencyCryptoDefaults(v) ==
  Finding(/\ Complete(v) /\ None(v, "externalKeys")
          /\ ~NonFips(v, FALSE) /\ None(v, "weakCerts"), TRUE)
ValidatedModules(v) ==
  Finding(\/ v.n.impact = 0
          \/ /\ Complete(v) /\ None(v, "externalKeys")
             /\ ~NonFips(v, v.n.impact = 2)
             /\ v.n.impact = 2 => None(v, "weakCerts"), TRUE)

(* The findings of this file: what each of them reads, and its verdict.       *)
Reads ==
  [RecorderHealthy |-> Of(CnaEis, {"recorder"}),
   PacksCompliant |-> Of(CnaEis, {"packs", "failingPacks"}),
   AutoRemediation |-> Of(CnaEis, {"configRules", "remediations"}),
   NoStackDrift |-> Of(CnaEis, {"stacks", "drifted"}),
   StandardsEnabled |-> Of(CnaIbp, {"standards", "bothStandards"}),
   NoCriticalFindings |-> Of(CnaIbp, {"critical"}),
   IacInUse |-> Of(SvcAcm, {"stacks", "configRules"}),
   StacksWithoutDrift |-> Of(SvcAcm, {"stacks", "drifted"}),
   FindingsImproving |-> SvcEis,
   GroupsMultiAz |-> Of(CnaOfa, {"groups", "singleAzGroups"}),
   BalancersMultiAz |-> Of(CnaOfa, {"balancers", "singleAzBalancers"}),
   RdsMultiAz |-> Of(CnaOfa, {"rds", "singleAzRds"}),
   TablesListed |-> Of(CnaOfa, {}),
   BackupsSucceed |-> Of(RplAbo, {"plans", "jobs", "failedJobs"}),
   RdsRetention |-> Of(RplAbo, {"rds", "shortRetention"}),
   TablesHavePitr |-> Of(RplAbo, {"tables", "noPitr"}),
   RestoreTested |-> RplTrc,
   BucketsExpire |-> SvcRud,
   KeyDeletion |-> Of(SvcRud, {}),
   MeshMtlsStrict |-> Of(SvcVcm, {"nodes", "looseNodes"}),
   FunctionUrlsUseIam |-> Of(SvcVcm, {"functions", "openUrls"}),
   SigningProfiles |-> Of(SvcVri, {"profiles"}),
   CodeSigned |-> Of(SvcVri, {"functions", "signed"}),
   PatchBaselines |-> Of(SvcVri, {"baselines"}),
   InstancesImdsv2 |-> Of(SvcVri, {"instances", "noImdsv2"}),
   CryptoInventoryBuilt |-> Of(Ucm, {"keys", "certs", "balancers",
      "distributions"}),
   AgencyCryptoDefaults |-> Of(Ucm, {"keys", "externalKeys", "certs",
      "weakCerts", "sslPolicies", "fipsPolicy", "balancers", "plainListeners"}),
   ValidatedModules |-> Of(Ucm, {"impact", "keys", "externalKeys", "certs",
      "weakCerts", "sslPolicies", "fipsPolicy", "balancers", "plainListeners"})]

Verdict(r, v) ==
  CASE r = "RecorderHealthy" -> RecorderHealthy(v)
    [] r = "PacksCompliant" -> PacksCompliant(v)
    [] r = "AutoRemediation" -> AutoRemediation(v)
    [] r = "NoStackDrift" -> NoStackDrift(v)
    [] r = "StandardsEnabled" -> StandardsEnabled(v)
    [] r = "NoCriticalFindings" -> NoCriticalFindings(v)
    [] r = "IacInUse" -> IacInUse(v)
    [] r = "StacksWithoutDrift" -> StacksWithoutDrift(v)
    [] r = "FindingsImproving" -> FindingsImproving(v)
    [] r = "GroupsMultiAz" -> GroupsMultiAz(v)
    [] r = "BalancersMultiAz" -> BalancersMultiAz(v)
    [] r = "RdsMultiAz" -> RdsMultiAz(v)
    [] r = "TablesListed" -> TablesListed(v)
    [] r = "BackupsSucceed" -> BackupsSucceed(v)
    [] r = "RdsRetention" -> RdsRetention(v)
    [] r = "TablesHavePitr" -> TablesHavePitr(v)
    [] r = "RestoreTested" -> RestoreTested(v)
    [] r = "BucketsExpire" -> BucketsExpire(v)
    [] r = "KeyDeletion" -> KeyDeletion(v)
    [] r = "MeshMtlsStrict" -> MeshMtlsStrict(v)
    [] r = "FunctionUrlsUseIam" -> FunctionUrlsUseIam(v)
    [] r = "SigningProfiles" -> SigningProfiles(v)
    [] r = "CodeSigned" -> CodeSigned(v)
    [] r = "PatchBaselines" -> PatchBaselines(v)
    [] r = "InstancesImdsv2" -> InstancesImdsv2(v)
    [] r = "CryptoInventoryBuilt" -> CryptoInventoryBuilt(v)
    [] r = "AgencyCryptoDefaults" -> AgencyCryptoDefaults(v)
    [] r = "ValidatedModules" -> ValidatedModules(v)
=============================================================================
