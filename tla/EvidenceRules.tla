--------------------------- MODULE EvidenceRules ---------------------------
(* The findings of every collector under cloud-evidence/providers, each named *)
(* by its module and its operator there.                                      *)
EXTENDS Findings

AwsId == INSTANCE AwsIdentity
AwsLog == INSTANCE AwsLogging
AwsNet == INSTANCE AwsNetwork
AwsPlat == INSTANCE AwsPlatform
AwsOps == INSTANCE AwsOperations
GcpId == INSTANCE GcpIdentity
GcpNet == INSTANCE GcpNetwork
GcpPlat == INSTANCE GcpPlatform
GcpOps == INSTANCE GcpOperations
AzureId == INSTANCE AzureIdentity
AzurePlat == INSTANCE AzurePlatform
AzureOps == INSTANCE AzureOperations

(* KSI-IAM-ELP of a cluster: who but the system's own subjects is an          *)
(* administrator of it.                                                       *)
K8sIamElp == [bindings |-> Whole, outsiders |-> Part("bindings")]
ClusterAdminLeast(v) == Finding(None(v, "outsiders"), Held(v, "outsiders"))

Reads ==
  [awsId |-> AwsId!Reads, awsLog |-> AwsLog!Reads, awsNet |-> AwsNet!Reads,
   awsPlat |-> AwsPlat!Reads, awsOps |-> AwsOps!Reads, gcpId |-> GcpId!Reads,
   gcpNet |-> GcpNet!Reads, gcpPlat |-> GcpPlat!Reads, gcpOps |-> GcpOps!Reads,
   azureId |-> AzureId!Reads, azurePlat |-> AzurePlat!Reads,
   azureOps |-> AzureOps!Reads, k8s |-> [ClusterAdminLeast |-> K8sIamElp]]

AllRules == UNION {{<<m, f>> : f \in DOMAIN Reads[m]} : m \in DOMAIN Reads}
ReadsOf(r) == Reads[r[1]][r[2]]

VerdictOf(r, v) ==
  CASE r[1] = "awsId" -> AwsId!Verdict(r[2], v)
    [] r[1] = "awsLog" -> AwsLog!Verdict(r[2], v)
    [] r[1] = "awsNet" -> AwsNet!Verdict(r[2], v)
    [] r[1] = "awsPlat" -> AwsPlat!Verdict(r[2], v)
    [] r[1] = "awsOps" -> AwsOps!Verdict(r[2], v)
    [] r[1] = "gcpId" -> GcpId!Verdict(r[2], v)
    [] r[1] = "gcpNet" -> GcpNet!Verdict(r[2], v)
    [] r[1] = "gcpPlat" -> GcpPlat!Verdict(r[2], v)
    [] r[1] = "gcpOps" -> GcpOps!Verdict(r[2], v)
    [] r[1] = "azureId" -> AzureId!Verdict(r[2], v)
    [] r[1] = "azurePlat" -> AzurePlat!Verdict(r[2], v)
    [] r[1] = "azureOps" -> AzureOps!Verdict(r[2], v)
    [] r[1] = "k8s" -> ClusterAdminLeast(v)
-----------------------------------------------------------------------------
(* The findings of these modules, each with the module it is in.              *)
Named(table) == UNION {{<<m, f>> : f \in table[m]} : m \in DOMAIN table}

(* The findings that are not gated on the reads they look at: an empty list   *)
(* that is empty because the call was refused passes them.                    *)
UngatedFindings ==
  [awsId |-> {"AbacConfigured", "AccessKeysMinimal", "ConsoleUsersHaveMfa",
      "DfpNoAdminWildcards", "NoAdminWildcards", "NoOldAccessKeys",
      "NoPasswordWithoutMfa", "NoVirtualMfa", "RoleInventoryClean",
      "UnusedAccessManaged"},
   awsLog |-> {"LogGroupsEncrypted", "NoOpenAuditBuckets"},
   awsNet |-> {"NoPublicLambda"},
   awsOps |-> {"AlternateSite", "KeysRotate", "NoResidualExposure",
      "NoSlaBreaches", "PipelinesScan", "PipelinesTest",
      "RotationOnTime"},
   awsPlat |-> {"AgencyCryptoDefaults", "FunctionUrlsUseIam",
      "ValidatedModules"},
   azureId |-> {"AccountsHttpsOnly", "CredentialsRotated", "FewGlobalAdmins",
      "GatewayHttpsOnly", "NoAllowAllRules", "NoBroadAdmins",
      "NoDormantMembers", "NoExpiredCredentials", "NoOpenEgress",
      "NoOpenIngress", "NoSeverelyDormant", "SubnetsHaveGroups"},
   azureOps |-> {"HistoryRetained", "KevResponsive", "RegistryAdminOff",
      "ResourcesIsolated"},
   azurePlat |-> {"AccountsReplicated", "BackupsClean", "FiniteSoftDelete",
      "ItemsProtected", "KeyVaultGuarded", "KeyVaultSoftDelete",
      "LifecyclePresent", "PoliciesComplied", "ScoreAcceptable",
      "StorageIntegrity", "VmsSpread"},
   gcpId |-> {"ConstraintsEnforced", "IdleAccountsManaged", "NoDirectUsers",
      "NoPrimitiveRoles", "NoUserManagedKeys", "NoWildcardRoles",
      "PrivilegesManaged", "RecommendationsManaged",
      "SnuNoUserManagedKeys", "TenantsEnforceMfa", "TenantsRequireMfa"},
   gcpNet |-> {"BucketsPreventPublic", "ClusterNetworkPolicy",
      "ClustersPrivate", "FindingsTriaged", "InstancesShielded",
      "NoOpenAdminFirewalls", "NoOpenLogBuckets", "NoOpenLogDatasets",
      "NoWeakPolicy", "ProxiesHavePolicy", "RunServicesPrivate",
      "SqlPrivate", "SqlRequiresSsl", "SubnetsLogged",
      "WorkloadIdentity"},
   gcpOps |-> {"AlternateSite", "BuildsScan", "CustomerKeys",
      "NoResidualExposure", "NoSlaBreaches", "RevisionsPinned"},
   gcpPlat |-> {"AgencyCryptoDefaults", "BucketsExpire",
      "BucketsMultiRegion", "CertsRenew", "DatasetsExpire",
      "FindingsImproving", "GroupsRegional", "KeysRotate",
      "NoCriticalFindings", "NodesShielded", "RecommendationsManaged",
      "RotationOnTime", "RunIngressInternal", "SecretsRotate", "SqlPitr",
      "SqlRegional", "ValidatedModules"},
   k8s |-> {"ClusterAdminLeast"}]

(* The findings that pass on the pages that are read, when what should count  *)
(* against them is on a page that is not.                                     *)
OverlookingFindings ==
  [awsId |-> {"AbacConfigured", "AccessKeysMinimal", "ConsoleUsersHaveMfa",
      "CrossAccountExternalId", "DfpNoAdminWildcards", "NoAdminWildcards",
      "NoExternalAccess", "NoOldAccessKeys", "NoPasswordWithoutMfa",
      "NoVirtualMfa", "RoleInventoryClean", "RolesHaveBoundary",
      "SessionsAtMost8h", "UnusedAccessManaged"},
   awsLog |-> {"FindingsTriaged"},
   awsNet |-> {"AllImdsv2", "DefaultSgClosed", "FlowLogsEverywhere",
      "NoHttpListeners", "NoOpenAdminPorts", "NoPublicEks", "NoPublicRds",
      "StrongTls", "ViewersUseHttps"},
   awsOps |-> {"AlternateSite", "ApprovedImages", "NoResidualExposure",
      "NoSlaBreaches", "PipelinesScan", "PipelinesTest", "ScanOnPush",
      "VersionsPinned"},
   awsPlat |-> {"AgencyCryptoDefaults", "BackupsSucceed", "BalancersMultiAz",
      "CodeSigned", "FindingsImproving", "FunctionUrlsUseIam",
      "GroupsMultiAz", "InstancesImdsv2", "MeshMtlsStrict",
      "NoStackDrift", "PacksCompliant", "RdsMultiAz", "RdsRetention",
      "StacksWithoutDrift", "TablesHavePitr", "ValidatedModules"},
   azureId |-> {"AccountsHttpsOnly", "GatewayHttpsOnly", "NoBroadAdmins",
      "NoOpenEgress", "NoOpenIngress", "SubnetsHaveGroups"},
   azureOps |-> {"DisksEncrypted", "KevResponsive", "NoPublicBlob",
      "RegistryAdminOff", "ResourcesIsolated", "StorageHttps",
      "StorageRestricted", "VaultsHardened"},
   azurePlat |-> {"AccountsReplicated", "BackupsClean", "FiniteSoftDelete",
      "KeyVaultGuarded", "KeyVaultSoftDelete", "PoliciesComplied",
      "ScoreAcceptable", "StorageIntegrity", "VmsSpread"},
   gcpId |-> {"IdleAccountsManaged", "NoUserManagedKeys", "NoWildcardRoles",
      "PrivilegesManaged", "RecommendationsManaged",
      "SnuNoUserManagedKeys", "TenantsEnforceMfa", "TenantsRequireMfa"},
   gcpNet |-> {"BucketsPreventPublic", "FindingsTriaged",
      "InstancesShielded", "LogBucketsCmek", "NoOpenAdminFirewalls",
      "NoOpenLogBuckets", "NoOpenLogDatasets", "NoWeakPolicy",
      "ProxiesHavePolicy", "RunServicesPrivate", "SqlPrivate",
      "SqlRequiresSsl", "SubnetsLogged"},
   gcpOps |-> {"AlternateSite", "BackupsEnabled", "CuratedApis",
      "NoResidualExposure", "NoSlaBreaches", "PrivateEgress",
      "RevisionsPinned", "SqlPrivateOnly", "StateIntegrity"},
   gcpPlat |-> {"AgencyCryptoDefaults", "BucketsExpire",
      "BucketsMultiRegion", "CertsRenew", "ControllerInstalled",
      "DatasetsExpire", "FindingsImproving", "GroupsRegional",
      "KeysRotate", "NoCriticalFindings", "RecommendationsManaged",
      "RunIngressInternal", "SqlPitr", "SqlRegional", "ValidatedModules"}]

(* The findings that ask for something to be there and fail when it is on a   *)
(* page that is not read.                                                     *)
MissingFindings ==
  [awsId |-> {"AbacConfigured", "FederationIsPrimary"},
   awsLog |-> {"AlertRouting", "FindingsTriaged", "ReviewQueriesSaved",
      "SiemExport"},
   awsNet |-> {"ShieldOrRateRule"},
   awsOps |-> {"AlertingAutomated", "BackupsScheduled", "CustomerKeys",
      "RefFlowLogs", "RefScps", "RefStandards", "SelectionCoverage",
      "ServicesTrusted", "StateIntegrity"},
   awsPlat |-> {"AutoRemediation", "CodeSigned", "FindingsImproving",
      "RestoreTested", "StandardsEnabled"},
   azureId |-> {"AlertsAreRouted", "FlowLogsEnabled", "ReaderAssigned",
      "RetentionAtFloor", "WafPresent"},
   azureOps |-> {"ChainMitigated", "ContactConfigured", "ContainersDefended",
      "DevopsConnected", "HistoryRetained", "MdvmActive",
      "WorkspaceRetention"},
   azurePlat |-> {"AlternateSite", "BackupsClean", "DeploymentsRecorded",
      "PoliciesComplied", "PolicySchedules", "RegulatoryAssigned",
      "RestoreTested", "ScoreAcceptable", "ScorePresent",
      "ServicesAuthenticate", "ValidatedModules", "VmsSpread"},
   gcpId |-> {"AccessLevelsPresent", "PerimeterPresent", "SecurityTriggers"},
   gcpNet |-> {"AdminActivitySink", "FindingsTriaged", "RateLimitedArmor",
      "RequiredBucketLocked", "SiemExport"},
   gcpOps |-> {"AlertingAutomated", "AssuredWorkloads", "BaselinePolicies",
      "BuildsScan", "CustomerKeys", "DnsLogged", "HistoryDurable",
      "ServicePerimeters"},
   gcpPlat |-> {"ControllerInstalled", "FindingsImproving", "IacPipeline",
      "MeshEnabled", "RecentBackups", "SnapshotsScheduled"}]

(* The findings that leave out gap, remediation or affected resources although *)
(* they may fail.                                                             *)
NamelessFindings ==
  [gcpPlat |-> {"DatasetsExpire", "RunIngressInternal"}]
=============================================================================
