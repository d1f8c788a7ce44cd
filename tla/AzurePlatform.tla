--------------------------- MODULE AzurePlatform ---------------------------
(* The collectors of cloud-evidence/providers/azure/config.ts, backup.ts,     *)
(* data.ts, crypto.ts and secrets.ts.  Every read is runKql: it gives up      *)
(* after 50 pages, the pages read before an error are kept, and no verdict    *)
(* looks at the error.                                                        *)
EXTENDS Findings

------------------------------- (* config.ts *) -------------------------------
(* KSI-CNA-EIS and KSI-CNA-IBP. *)
CnaEis == [assignments |-> Skim, states |-> Skim]
PoliciesAssigned(v) == Finding(Held(v, "assignments"), TRUE)
PoliciesEvaluated(v) == Finding(Held(v, "states"), TRUE)

CnaIbp == [benchmark |-> Skim, initiatives |-> Skim, regulatory |-> Part("initiatives")]
BenchmarkAssigned(v) == Finding(Held(v, "benchmark"), TRUE)
RegulatoryAssigned(v) == Finding(Held(v, "regulatory"), TRUE)

(* KSI-CNA-DFP. *)
CnaDfp == [customRoles |-> Skim]
CustomRolesPresent(v) == Finding(Held(v, "customRoles"), TRUE)

(* KSI-SVC-ACM: at least 80 percent of the policy states are compliant.       *)
SvcAcm ==
  [deployments |-> Skim, recent |-> Part("deployments"), states |-> Skim,
   compliant |-> Part("states")]
DeploymentsRecorded(v) == Finding(Held(v, "recent"), TRUE)
PoliciesComplied(v) ==
  Finding(None(v, "states") \/ 10 * v.n.compliant >= 8 * v.n.states, TRUE)

(* KSI-SVC-EIS.  points and most: the secure score and its maximum, summed.   *)
SvcEis == [scores |-> Skim, most |-> Part("scores"), points |-> Part("most")]
ScorePresent(v) == Finding(Held(v, "scores") /\ Held(v, "most"), TRUE)
ScoreAcceptable(v) ==
  Finding(None(v, "most") \/ 2 * v.n.points >= v.n.most, Held(v, "scores"))

------------------------------- (* backup.ts *) -------------------------------
(* KSI-CNA-OFA.  zonesFrom2: the zones in use beyond the first.               *)
CnaOfa ==
  [vms |-> Skim, unzoned |-> Part("vms"), zonesFrom2 |-> Part("vms"),
   accounts |-> Skim, oneSite |-> Part("accounts")]
VmsSpread(v) ==
  Finding(None(v, "vms") \/ (None(v, "unzoned") /\ Held(v, "zonesFrom2")), TRUE)
AccountsReplicated(v) ==
  Finding(None(v, "accounts") \/ None(v, "oneSite"), Held(v, "oneSite"))

(* KSI-RPL-ABO. *)
RplAbo ==
  [vaults |-> Skim, items |-> Skim, jobs |-> Skim, completed |-> Part("jobs"),
   failed |-> Part("jobs")]
VaultPresent(v) == Finding(Held(v, "vaults"), TRUE)
ItemsProtected(v) == Finding(None(v, "vaults") \/ Held(v, "items"), TRUE)
BackupsClean(v) ==
  Finding(\/ None(v, "vaults") \/ None(v, "items")
          \/ Held(v, "completed") /\ None(v, "failed"), TRUE)

(* KSI-RPL-TRC, KSI-RPL-ARP and KSI-RPL-RRO. *)
RplTrc == [jobs |-> Skim, restored |-> Part("jobs")]
RestoreTested(v) == Finding(Held(v, "restored"), TRUE)

RplArp == [vaults |-> Skim, geo |-> Part("vaults")]
AlternateSite(v) == Finding(Held(v, "geo"), TRUE)

RplRro == [policies |-> Skim, scheduled |-> Part("policies")]
PolicySchedules(v) == Finding(Held(v, "scheduled"), TRUE)

-------------------------------- (* data.ts *) --------------------------------
(* KSI-SVC-RUD. *)
SvcRud ==
  [accounts |-> Skim, softDeleteOff |-> Part("accounts"), tooLong |-> Part("accounts"),
   lifecycles |-> Skim]
FiniteSoftDelete(v) ==
  Finding(None(v, "accounts") \/ (None(v, "softDeleteOff") /\ None(v, "tooLong")),
          Held(v, "softDeleteOff") \/ Held(v, "tooLong"))
LifecyclePresent(v) == Finding(None(v, "accounts") \/ Held(v, "lifecycles"), TRUE)

(* KSI-SVC-VCM. *)
SvcVcm ==
  [gateways |-> Skim, mutual |-> Part("gateways"), managed |-> Skim,
   withCert |-> Part("managed"), clusters |-> Skim, mesh |-> Part("clusters")]
ServicesAuthenticate(v) ==
  Finding(Held(v, "mutual") \/ Held(v, "withCert") \/ Held(v, "mesh"), TRUE)

(* KSI-SVC-VRI.  unprotected: neither versioned nor under a policy; without   *)
(* the policies every unversioned account is.                                 *)
SvcVri ==
  [accounts |-> Skim, unversioned |-> Part("accounts"),
   immutable |-> Each("unversioned")]
StorageIntegrity(v) ==
  LET unprotected == v.n.unversioned > v.n.immutable
  IN  Finding(None(v, "accounts") \/ ~unprotected, unprotected)

------------------------------- (* crypto.ts *) -------------------------------
(* KSI-AFR-UCM: one sign of validated cryptography anywhere is enough.        *)
Ucm ==
  [keys |-> Skim, enabledKeys |-> Part("keys"), gateways |-> Skim,
   modernTls |-> Part("gateways"), accounts |-> Skim, infraEncrypted |-> Part("accounts")]
ValidatedModules(v) ==
  Finding(Held(v, "enabledKeys") \/ Held(v, "modernTls") \/ Held(v, "infraEncrypted"),
          TRUE)

------------------------------- (* secrets.ts *) -------------------------------
(* KSI-SVC-ASM. *)
SvcAsm ==
  [vaults |-> Skim, softDeleteOff |-> Part("vaults"), uncovered |-> Part("vaults")]
KeyVaultPresent(v) == Finding(Held(v, "vaults"), TRUE)
KeyVaultSoftDelete(v) ==
  Finding(None(v, "vaults") \/ None(v, "softDeleteOff"), Held(v, "softDeleteOff"))
KeyVaultGuarded(v) ==
  Finding(None(v, "vaults") \/ None(v, "uncovered"), Held(v, "uncovered"))

(* The findings of this file: what each of them reads, and its verdict.       *)
Reads ==
  [PoliciesAssigned |-> Of(CnaEis, {"assignments"}),
   PoliciesEvaluated |-> Of(CnaEis, {"states"}),
   BenchmarkAssigned |-> Of(CnaIbp, {"benchmark"}),
   RegulatoryAssigned |-> Of(CnaIbp, {"initiatives", "regulatory"}),
   CustomRolesPresent |-> CnaDfp,
   DeploymentsRecorded |-> Of(SvcAcm, {"deployments", "recent"}),
   PoliciesComplied |-> Of(SvcAcm, {"states", "compliant"}),
   ScorePresent |-> Of(SvcEis, {"scores", "most"}),
   ScoreAcceptable |-> SvcEis,
   VmsSpread |-> Of(CnaOfa, {"vms", "unzoned", "zonesFrom2"}),
   AccountsReplicated |-> Of(CnaOfa, {"accounts", "oneSite"}),
   VaultPresent |-> Of(RplAbo, {"vaults"}),
   ItemsProtected |-> Of(RplAbo, {"vaults", "items"}),
   BackupsClean |-> RplAbo,
   RestoreTested |-> RplTrc,
   AlternateSite |-> RplArp,
   PolicySchedules |-> RplRro,
   FiniteSoftDelete |-> Of(SvcRud, {"accounts", "softDeleteOff", "tooLong"}),
   LifecyclePresent |-> Of(SvcRud, {"accounts", "lifecycles"}),
   ServicesAuthenticate |-> SvcVcm,
   StorageIntegrity |-> SvcVri,
   ValidatedModules |-> Ucm,
   KeyVaultPresent |-> Of(SvcAsm, {"vaults"}),
   KeyVaultSoftDelete |-> Of(SvcAsm, {"vaults", "softDeleteOff"}),
   KeyVaultGuarded |-> Of(SvcAsm, {"vaults", "uncovered"})]

Verdict(r, v) ==
  CASE r = "PoliciesAssigned" -> PoliciesAssigned(v)
    [] r = "PoliciesEvaluated" -> PoliciesEvaluated(v)
    [] r = "BenchmarkAssigned" -> BenchmarkAssigned(v)
    [] r = "RegulatoryAssigned" -> RegulatoryAssigned(v)
    [] r = "CustomRolesPresent" -> CustomRolesPresent(v)
    [] r = "DeploymentsRecorded" -> DeploymentsRecorded(v)
    [] r = "PoliciesComplied" -> PoliciesComplied(v)
    [] r = "ScorePresent" -> ScorePresent(v)
    [] r = "ScoreAcceptable" -> ScoreAcceptable(v)
    [] r = "VmsSpread" -> VmsSpread(v)
    [] r = "AccountsReplicated" -> AccountsReplicated(v)
    [] r = "VaultPresent" -> VaultPresent(v)
    [] r = "ItemsProtected" -> ItemsProtected(v)
    [] r = "BackupsClean" -> BackupsClean(v)
    [] r = "RestoreTested" -> RestoreTested(v)
    [] r = "AlternateSite" -> AlternateSite(v)
    [] r = "PolicySchedules" -> PolicySchedules(v)
    [] r = "FiniteSoftDelete" -> FiniteSoftDelete(v)
    [] r = "LifecyclePresent" -> LifecyclePresent(v)
    [] r = "ServicesAuthenticate" -> ServicesAuthenticate(v)
    [] r = "StorageIntegrity" -> StorageIntegrity(v)
    [] r = "ValidatedModules" -> ValidatedModules(v)
    [] r = "KeyVaultPresent" -> KeyVaultPresent(v)
    [] r = "KeyVaultSoftDelete" -> KeyVaultSoftDelete(v)
    [] r = "KeyVaultGuarded" -> KeyVaultGuarded(v)
=============================================================================
