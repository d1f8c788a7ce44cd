-------------------------- MODULE AzureOperations --------------------------
(* The collectors of cloud-evidence/providers/azure/supplychain.ts,           *)
(* inventory.ts, ksi-hybrids.ts and vdr-scan.ts, and the audit of             *)
(* reference-arch.ts.                                                         *)
EXTENDS Findings

----------------------------- (* supplychain.ts *) -----------------------------
(* KSI-CMT-RMV. *)
CmtRmv == [registries |-> Skim, adminOn |-> Part("registries")]
RegistryPresent(v) == Finding(Held(v, "registries"), TRUE)
RegistryAdminOff(v) ==
  Finding(None(v, "registries") \/ None(v, "adminOn"), Held(v, "adminOn"))

(* KSI-CMT-VTD. *)
CmtVtd ==
  [subscriptions |-> Given, connectors |-> Skim, valid |-> Part("connectors"),
   plans |-> Skim, standard |-> Part("plans")]
DevopsConnected(v) == Finding(Held(v, "valid"), TRUE)
ContainersDefended(v) == Finding(None(v, "subscriptions") \/ Held(v, "standard"), TRUE)

(* KSI-SCR-MON. *)
ScrMon ==
  [plans |-> Skim, mdvm |-> Part("plans"), contacts |-> Skim, good |-> Part("contacts")]
MdvmActive(v) == Finding(Held(v, "mdvm"), TRUE)
ContactConfigured(v) == Finding(Held(v, "good"), TRUE)

------------------------------ (* inventory.ts *) ------------------------------
(* KSI-PIY-GIV. *)
PiyGiv == [resources |-> Skim]
InventoryActive(v) == Finding(Held(v, "resources"), TRUE)

----------------------------- (* ksi-hybrids.ts *) -----------------------------
CmtRvp == [assignments |-> Skim, evaluating |-> Skim]
BaselineEnforced(v) == Finding(Held(v, "assignments") /\ Held(v, "evaluating"), TRUE)

InrAar == [automation |-> Skim, alerts |-> Skim]
IncidentsWired(v) == Finding(Held(v, "automation") \/ Held(v, "alerts"), TRUE)

InrRpi == [workspaces |-> Skim, adequate |-> Part("workspaces")]
HistoryRetained(v) == Finding(None(v, "workspaces") \/ Held(v, "adequate"), TRUE)

ScrMit ==
  [registries |-> Skim, mitigated |-> Part("registries"), plans |-> Skim,
   defender |-> Part("plans")]
ChainMitigated(v) ==
  Finding(Held(v, "defender") \/ (Held(v, "registries") /\ Held(v, "mitigated")), TRUE)

SvcPrr == [accounts |-> Skim, offending |-> Part("accounts")]
ResourcesIsolated(v) ==
  Finding(None(v, "accounts") \/ None(v, "offending"), Held(v, "offending"))

------------------------------ (* vdr-scan.ts *) ------------------------------
(* exploited: unhealthy assessments that name a CVE of the KEV catalogue, a   *)
(* local file; without the file there are none.                               *)
VdrScan == [assessments |-> Skim, exploited |-> Each("assessments")]
KevResponsive(v) == Finding(Held(v, "assessments") /\ None(v, "exploited"), TRUE)

---------------------------- (* reference-arch.ts *) ----------------------------
(* check(): a check whose query fails pushes no finding. *)
RefArch ==
  [standard |-> Peek, initiatives |-> Peek, blobs |-> Peek, publicBlobs |-> Part("blobs"),
   accounts |-> Peek, plain |-> Part("accounts"), networks |-> Peek,
   open |-> Part("networks"), vaults |-> Peek, soft |-> Part("vaults"), keys |-> Peek,
   ownKeyAccounts |-> Peek, disks |-> Peek, platformKey |-> Part("disks"),
   adminRules |-> Peek, publicIps |-> Peek, workspaces |-> Peek,
   retained |-> Part("workspaces")]

DefenderEnabled(v) == Finding(Held(v, "standard"), TRUE)
FedrampInitiative(v) == Finding(Held(v, "initiatives"), TRUE)
NoPublicBlob(v) ==
  Finding(None(v, "blobs") \/ None(v, "publicBlobs"), Held(v, "publicBlobs"))
StorageHttps(v) == Finding(None(v, "accounts") \/ None(v, "plain"), Held(v, "plain"))
StorageRestricted(v) == Finding(None(v, "networks") \/ None(v, "open"), Held(v, "open"))
VaultsHardened(v) == Finding(None(v, "vaults") \/ None(v, "soft"), Held(v, "soft"))
OwnKeysUsed(v) == Finding(Held(v, "keys") \/ Held(v, "ownKeyAccounts"), TRUE)
DisksEncrypted(v) ==
  Finding(None(v, "disks") \/ None(v, "platformKey"), Held(v, "platformKey"))
NoAdminPortRules(v) == Finding(None(v, "adminRules"), Held(v, "adminRules"))
NoVmPublicIp(v) == Finding(None(v, "publicIps"), Held(v, "publicIps"))
WorkspaceRetention(v) == Finding(Held(v, "retained"), TRUE)

(* The findings of this file: what each of them reads, and its verdict.       *)
Reads ==
  [RegistryPresent |-> Of(CmtRmv, {"registries"}),
   RegistryAdminOff |-> CmtRmv,
   DevopsConnected |-> Of(CmtVtd, {"connectors", "valid"}),
   ContainersDefended |-> Of(CmtVtd, {"subscriptions", "plans", "standard"}),
   MdvmActive |-> Of(ScrMon, {"plans", "mdvm"}),
   ContactConfigured |-> Of(ScrMon, {"contacts", "good"}),
   InventoryActive |-> PiyGiv,
   BaselineEnforced |-> CmtRvp,
   IncidentsWired |-> InrAar,
   HistoryRetained |-> InrRpi,
   ChainMitigated |-> ScrMit,
   ResourcesIsolated |-> SvcPrr,
   KevResponsive |-> VdrScan,
   DefenderEnabled |-> Of(RefArch, {"standard"}),
   FedrampInitiative |-> Of(RefArch, {"initiatives"}),
   NoPublicBlob |-> Of(RefArch, {"blobs", "publicBlobs"}),
   StorageHttps |-> Of(RefArch, {"accounts", "plain"}),
   StorageRestricted |-> Of(RefArch, {"networks", "open"}),
   VaultsHardened |-> Of(RefArch, {"vaults", "soft"}),
   OwnKeysUsed |-> Of(RefArch, {"keys", "ownKeyAccounts"}),
   DisksEncrypted |-> Of(RefArch, {"disks", "platformKey"}),
   NoAdminPortRules |-> Of(RefArch, {"adminRules"}),
   NoVmPublicIp |-> Of(RefArch, {"publicIps"}),
   WorkspaceRetention |-> Of(RefArch, {"workspaces", "retained"})]

Verdict(r, v) ==
  CASE r = "RegistryPresent" -> RegistryPresent(v)
    [] r = "RegistryAdminOff" -> RegistryAdminOff(v)
    [] r = "DevopsConnected" -> DevopsConnected(v)
    [] r = "ContainersDefended" -> ContainersDefended(v)
    [] r = "MdvmActive" -> MdvmActive(v)
    [] r = "ContactConfigured" -> ContactConfigured(v)
    [] r = "InventoryActive" -> InventoryActive(v)
    [] r = "BaselineEnforced" -> BaselineEnforced(v)
    [] r = "IncidentsWired" -> IncidentsWired(v)
    [] r = "HistoryRetained" -> HistoryRetained(v)
    [] r = "ChainMitigated" -> ChainMitigated(v)
    [] r = "ResourcesIsolated" -> ResourcesIsolated(v)
    [] r = "KevResponsive" -> KevResponsive(v)
    [] r = "DefenderEnabled" -> DefenderEnabled(v)
    [] r = "FedrampInitiative" -> FedrampInitiative(v)
    [] r = "NoPublicBlob" -> NoPublicBlob(v)
    [] r = "StorageHttps" -> StorageHttps(v)
    [] r = "StorageRestricted" -> StorageRestricted(v)
    [] r = "VaultsHardened" -> VaultsHardened(v)
    [] r = "OwnKeysUsed" -> OwnKeysUsed(v)
    [] r = "DisksEncrypted" -> DisksEncrypted(v)
    [] r = "NoAdminPortRules" -> NoAdminPortRules(v)
    [] r = "NoVmPublicIp" -> NoVmPublicIp(v)
    [] r = "WorkspaceRetention" -> WorkspaceRetention(v)
=============================================================================
