----------------------------- MODULE AwsNetwork -----------------------------
(* The network collectors of providers/aws/network.ts.  All of them start     *)
(* from fetchNetworkInventory, which records what it could read (collected).  *)
EXTENDS Findings

(* fetchNetworkInventory: EC2, load balancers and buckets.  logged: VPCs with *)
(* a flow log, known only when the flow logs could be read too.               *)
Ec2Inventory ==
  [securityGroups |-> Page, adminOpen |-> Part("securityGroups"),
   defaultEgress |-> Part("securityGroups"),
   instances |-> Page, noImdsv2 |-> Part("instances"),
   vpcs |-> Page, logged |-> Each("vpcs"), allEndpoints |-> Page,
   loadBalancers |-> Page, buckets |-> Whole, publicBuckets |-> Each("buckets")]

(* fetchNetworkInventory: databases, clusters, functions and protection. *)
ServiceInventory ==
  [rds |-> Skim, publicRds |-> Part("rds"), eks |-> Skim, publicEks |-> Part("eks"),
   functions |-> Scan, publicFunctions |-> Each("functions"),
   wafs |-> Page, rateWafs |-> Each("wafs"), shield |-> Whole, firewalls |-> Page]

(* KSI-CNA-MAT, minimal attack surface. *)
NoOpenAdminPorts(v) ==
  Finding(GatePass(None(v, "adminOpen"), v.ok.securityGroups), Held(v, "adminOpen"))
AllImdsv2(v) ==
  Finding(GatePass(None(v, "noImdsv2"), v.ok.instances), Held(v, "noImdsv2"))
NoPublicBuckets(v) ==
  Finding(GatePass(None(v, "publicBuckets"), v.ok.buckets /\ v.ok.publicBuckets),
          Held(v, "publicBuckets"))
NoPublicLambda(v) ==
  Finding(GatePass(None(v, "publicFunctions"), v.ok.functions), Held(v, "publicFunctions"))
NoPublicRds(v) == Finding(GatePass(None(v, "publicRds"), v.ok.rds), Held(v, "publicRds"))
NoPublicEks(v) == Finding(GatePass(None(v, "publicEks"), v.ok.eks), Held(v, "publicEks"))

(* KSI-CNA-RNT, restricted traffic. *)
DefaultSgClosed(v) ==
  Finding(GatePass(None(v, "defaultEgress"), v.ok.securityGroups), Held(v, "defaultEgress"))
FirewallPresent(v) == Finding(Held(v, "firewalls"), TRUE)
FlowLogsEverywhere(v) ==
  LET dark == v.n.vpcs > v.n.logged
  IN  Finding(GatePass(~dark, v.ok.vpcs /\ v.ok.logged), dark)

(* KSI-CNA-ULN, logical networking. *)
VpcPresent(v) == Finding(Held(v, "vpcs"), TRUE)
EndpointsPresent(v) == Finding(Held(v, "allEndpoints"), None(v, "allEndpoints"))

(* KSI-CNA-RVP, denial of service. *)
ShieldOrRateRule(v) == Finding(Held(v, "shield") \/ Held(v, "rateWafs"), TRUE)

(* KSI-SVC-SNT, traffic in transit: the listeners of each load balancer and   *)
(* the configuration of each distribution are read one by one.                *)
SvcSnt ==
  [loadBalancers |-> Ec2Inventory.loadBalancers,
   httpListeners |-> Each("loadBalancers"), weakTls |-> Each("loadBalancers"),
   distributions |-> Page, plainDistributions |-> Each("distributions")]

NoHttpListeners(v) ==
  Finding(v.ok.loadBalancers /\ v.ok.httpListeners /\ None(v, "httpListeners"),
          Held(v, "httpListeners"))
StrongTls(v) ==
  Finding(v.ok.loadBalancers /\ v.ok.weakTls /\ None(v, "weakTls"), Held(v, "weakTls"))
ViewersUseHttps(v) ==
  Finding(/\ v.ok.distributions /\ v.ok.plainDistributions
          /\ None(v, "plainDistributions"), TRUE)

(* The findings of this file: what each of them reads, and its verdict.       *)
Reads ==
  [NoOpenAdminPorts |-> Of(Ec2Inventory, {"securityGroups", "adminOpen"}),
   AllImdsv2 |-> Of(Ec2Inventory, {"instances", "noImdsv2"}),
   NoPublicBuckets |-> Of(Ec2Inventory, {"buckets", "publicBuckets"}),
   NoPublicLambda |-> Of(ServiceInventory, {"functions", "publicFunctions"}),
   NoPublicRds |-> Of(ServiceInventory, {"rds", "publicRds"}),
   NoPublicEks |-> Of(ServiceInventory, {"eks", "publicEks"}),
   DefaultSgClosed |-> Of(Ec2Inventory, {"securityGroups", "defaultEgress"}),
   FirewallPresent |-> Of(ServiceInventory, {"firewalls"}),
   FlowLogsEverywhere |-> Of(Ec2Inventory, {"vpcs", "logged"}),
   VpcPresent |-> Of(Ec2Inventory, {"vpcs"}),
   EndpointsPresent |-> Of(Ec2Inventory, {"allEndpoints"}),
   ShieldOrRateRule |-> Of(ServiceInventory, {"wafs", "rateWafs", "shield"}),
   NoHttpListeners |-> Of(SvcSnt, {"loadBalancers", "httpListeners"}),
   StrongTls |-> Of(SvcSnt, {"loadBalancers", "weakTls"}),
   ViewersUseHttps |-> Of(SvcSnt, {"distributions", "plainDistributions"})]

Verdict(r, v) ==
  CASE r = "NoOpenAdminPorts" -> NoOpenAdminPorts(v)
    [] r = "AllImdsv2" -> AllImdsv2(v)
    [] r = "NoPublicBuckets" -> NoPublicBuckets(v)
    [] r = "NoPublicLambda" -> NoPublicLambda(v)
    [] r = "NoPublicRds" -> NoPublicRds(v)
    [] r = "NoPublicEks" -> NoPublicEks(v)
    [] r = "DefaultSgClosed" -> DefaultSgClosed(v)
    [] r = "FirewallPresent" -> FirewallPresent(v)
    [] r = "FlowLogsEverywhere" -> FlowLogsEverywhere(v)
    [] r = "VpcPresent" -> VpcPresent(v)
    [] r = "EndpointsPresent" -> EndpointsPresent(v)
    [] r = "ShieldOrRateRule" -> ShieldOrRateRule(v)
    [] r = "NoHttpListeners" -> NoHttpListeners(v)
    [] r = "StrongTls" -> StrongTls(v)
    [] r = "ViewersUseHttps" -> ViewersUseHttps(v)
=============================================================================
