------------------------------ MODULE Messages ------------------------------
(***************************************************************************)
(* The messages of the AppRun dedicated API, as the generated bindings     *)
(* write, read and check them.  A message is a table of its fields: the    *)
(* kind of each says what encodeFields and Decode of oas_json_gen.go do    *)
(* with it (Codec), and the rules, named after the message, what Validate  *)
(* of oas_validators_gen.go asks of it.  A field with no rule is not       *)
(* checked by the code.                                                    *)
(*                                                                         *)
(* Identifiers, times, flags and free text are fields like the others: a   *)
(* measure that is carried and never looked at.                            *)
(***************************************************************************)
EXTENDS Codec

(***************************************************************************)
(* Types of oas_schemas_gen.go that bring a rule of their own to every     *)
(* field that has them.                                                    *)
(***************************************************************************)

PortRule == Within(1, 65535)
ApplicationVersionNumberRule == Within(1, Unbounded)
IPv4Rule == Matching(0, Unbounded)
ScalingModeRule == Listed
RegistryPasswordActionRule == Listed
CreateLoadBalancerPortProtocolRule == Listed
ReadLoadBalancerPortProtocolRule == Listed
LoadBalancerNodeStatusRule == Listed
WorkerNodeStatusRule == Listed

-----------------------------------------------------------------------------
(* Clusters. *)

CreateLoadBalancerPortRules ==
    [port |-> Within(1, 65535),
     protocol |-> CreateLoadBalancerPortProtocolRule]
CreateLoadBalancerPort == Message(
    Value({"port", "protocol"}), CreateLoadBalancerPortRules)

CreateClusterRules ==
    [name |-> Matching(1, 20), letsEncryptEmail |-> Matching(0, Unbounded),
     ports |-> Within(0, 5), servicePrincipalID |-> Within(12, 12)]
CreateCluster == Message(
    Value({"name", "servicePrincipalID"}) ++ Optional({"letsEncryptEmail"})
      ++ ListOf("ports", CreateLoadBalancerPort), CreateClusterRules)

CreatedCluster == Message(Value({"clusterID"}), NoRules)

CreateClusterResponse == Message(One("cluster", CreatedCluster), NoRules)

ReadLoadBalancerPortRules ==
    [port |-> Within(1, 65535), protocol |-> ReadLoadBalancerPortProtocolRule]
ReadLoadBalancerPort == Message(
    Value({"port", "protocol"}), ReadLoadBalancerPortRules)

ReadClusterDetailRules == [name |-> Matching(1, 20)]
ReadClusterDetail == Message(
    Value({"name", "clusterID", "servicePrincipalID", "hasLetsEncryptEmail",
           "created"}) ++ ListOf("ports", ReadLoadBalancerPort),
    ReadClusterDetailRules)

GetClusterResponse == Message(One("cluster", ReadClusterDetail), NoRules)

ReadClusterSummaryRules == [name |-> Within(3, 20)]
ReadClusterSummary == Message(
    Value({"name", "clusterID", "created"}), ReadClusterSummaryRules)

ListClusterResponse == Message(
    Optional({"nextCursor"}) ++ ListOf("clusters", ReadClusterSummary),
    NoRules)

UpdateClusterRules == [letsEncryptEmail |-> Matching(0, Unbounded)]
UpdateCluster == Message(
    Optional({"letsEncryptEmail"}) ++ Value({"servicePrincipalID"}),
    UpdateClusterRules)

-----------------------------------------------------------------------------
(* Applications and their versions. *)

ApplicationContainerSummaryRules == [cpuUsagePercent |-> Finite]
ApplicationContainerSummary == Message(
    Value({"id", "image", "state", "status", "cpuUsagePercent",
           "applicationID", "applicationVersion"}),
    ApplicationContainerSummaryRules)

ApplicationContainersStats == Message(
    Value({"collectedAtSec"})
      ++ ListOf("containers", ApplicationContainerSummary), NoRules)

ApplicationDesiredContainer == Message(
    Value({"applicationID", "applicationVersion", "cpuMillis", "memoryMB",
           "image"}), NoRules)

ApplicationPeekDesiredContainersResponse == Message(
    ListOf("containers", ApplicationDesiredContainer), NoRules)

ApplicationVersionDeploymentStatusRules ==
    [version |-> ApplicationVersionNumberRule, image |-> Within(0, 512)]
ApplicationVersionDeploymentStatus == Message(
    Value({"version", "image", "activeNodeCount", "created"}),
    ApplicationVersionDeploymentStatusRules)

CreateApplicationRules == [name |-> Matching(1, 20)]
CreateApplication == Message(
    Value({"name", "clusterID"}), CreateApplicationRules)

CreatedApplication == Message(Value({"applicationID"}), NoRules)

CreateApplicationResponse == Message(
    One("application", CreatedApplication), NoRules)

HealthCheckRules ==
    [path |-> Within(0, 200), intervalSeconds |-> Within(3, 60),
     timeoutSeconds |-> Within(-Unbounded, 60)]
HealthCheck == Message(
    Value({"path", "intervalSeconds", "timeoutSeconds"}), HealthCheckRules)

ExposedPortRules ==
    [targetPort |-> PortRule, loadBalancerPort |-> PortRule,
     host |-> Within(0, 5)]
ExposedPort == Message(
    Value({"targetPort", "useLetsEncrypt"})
      ++ Nullable({"loadBalancerPort"}) ++ OptList({"host"})
      ++ NullableOf("healthCheck", HealthCheck), ExposedPortRules)

CreateEnvironmentVariableRules ==
    [key |-> Within(1, 255), value |-> Within(0, 4096)]
CreateEnvironmentVariable == Message(
    Value({"key", "secret"}) ++ Optional({"value"}),
    CreateEnvironmentVariableRules)

CreateApplicationVersionRules ==
    [cpu |-> Within(100, 64000), memory |-> Within(128, 131072),
     scalingMode |-> ScalingModeRule, fixedScale |-> Within(1, 50),
     minScale |-> Within(1, 50), maxScale |-> Within(1, 50),
     scaleInThreshold |-> Within(30, 70),
     scaleOutThreshold |-> Within(50, 99), image |-> Within(0, 512),
     cmd |-> Within(0, 20), registryUsername |-> Within(0, 255),
     registryPassword |-> Within(0, 255),
     registryPasswordAction |-> RegistryPasswordActionRule,
     exposedPorts |-> Within(0, 5), env |-> Within(0, 50)]
CreateApplicationVersion == Message(
    Value({"cpu", "memory", "scalingMode", "image", "registryPasswordAction"})
      ++ Optional({"fixedScale", "minScale", "maxScale", "scaleInThreshold",
                   "scaleOutThreshold"}) ++ OptList({"cmd"})
      ++ Nullable({"registryUsername", "registryPassword"})
      ++ ListOf("exposedPorts", ExposedPort)
      ++ ListOf("env", CreateEnvironmentVariable),
    CreateApplicationVersionRules)

ReadApplicationVersionSummaryRules ==
    [version |-> ApplicationVersionNumberRule]
ReadApplicationVersionSummary == Message(
    Value({"version"}), ReadApplicationVersionSummaryRules)

CreateApplicationVersionResponse == Message(
    One("applicationVersion", ReadApplicationVersionSummary), NoRules)

NodeContainerPlacementInfo == Message(
    Value({"nodeID"})
      ++ NullableOf("containersStats", ApplicationContainersStats)
      ++ NullableOf("desired", ApplicationPeekDesiredContainersResponse),
    NoRules)

GetApplicationContainersResponse == Message(
    ListOf("nodes", NodeContainerPlacementInfo), NoRules)

ReadApplicationDetailRules == [name |-> Matching(1, 20)]
ReadApplicationDetail == Message(
    Value({"applicationID", "name", "clusterID", "clusterName",
           "scalingCooldownSeconds"})
      ++ Nullable({"activeVersion", "desiredCount"}),
    ReadApplicationDetailRules)

GetApplicationResponse == Message(
    One("application", ReadApplicationDetail), NoRules)

ReadEnvironmentVariableRules ==
    [key |-> Within(1, 255), value |-> Within(0, 4096)]
ReadEnvironmentVariable == Message(
    Value({"key", "secret"}) ++ Nullable({"value"}),
    ReadEnvironmentVariableRules)

ReadApplicationVersionDetailRules ==
    [version |-> ApplicationVersionNumberRule, cpu |-> Within(100, 64000),
     memory |-> Within(128, 131072), scalingMode |-> ScalingModeRule,
     fixedScale |-> Within(1, 50), minScale |-> Within(1, 50),
     maxScale |-> Within(1, 50), scaleInThreshold |-> Within(30, 70),
     scaleOutThreshold |-> Within(50, 99), image |-> Within(0, 512),
     cmd |-> Within(0, 20), registryUsername |-> Within(0, 255),
     registryPassword |-> Within(0, 255), exposedPorts |-> Within(0, 5)]
ReadApplicationVersionDetail == Message(
    Value({"version", "cpu", "memory", "scalingMode", "image",
           "activeNodeCount", "created"})
      ++ Optional({"fixedScale", "minScale", "maxScale", "scaleInThreshold",
                   "scaleOutThreshold"}) ++ OptList({"cmd"})
      ++ Nullable({"registryUsername", "registryPassword"})
      ++ ListOf("exposedPorts", ExposedPort)
      ++ ListOf("env", ReadEnvironmentVariable),
    ReadApplicationVersionDetailRules)

GetApplicationVersionResponse == Message(
    One("applicationVersion", ReadApplicationVersionDetail), NoRules)

ListApplicationResponse == Message(
    Optional({"nextCursor"})
      ++ ListOf("applications", ReadApplicationDetail), NoRules)

ListApplicationVersionResponseRules ==
    [nextCursor |-> ApplicationVersionNumberRule]
ListApplicationVersionResponse == Message(
    Optional({"nextCursor"})
      ++ ListOf("versions", ApplicationVersionDeploymentStatus),
    ListApplicationVersionResponseRules)

UpdateApplication == Message(Nullable({"activeVersion"}), NoRules)

-----------------------------------------------------------------------------
(* Auto scaling groups and their worker nodes. *)

IpRangeRules == [start |-> IPv4Rule, end |-> IPv4Rule]
IpRange == Message(Value({"start", "end"}), IpRangeRules)

AutoScalingGroupNodeInterfaceRules ==
    [ipPool |-> Within(0, 20), netmaskLen |-> Within(8, 29)]
AutoScalingGroupNodeInterface == Message(
    Value({"interfaceIndex", "upstream", "connectsToLB"})
      ++ Optional({"netmaskLen", "defaultGateway", "packetFilterID"})
      ++ OptListOf("ipPool", IpRange), AutoScalingGroupNodeInterfaceRules)

CreateAutoScalingGroupRules ==
    [name |-> Matching(1, 20), nameServers |-> ItemsOf(1, 3, IPv4Rule),
     workerServiceClassPath |-> Within(1, 255), minNodes |-> Within(1, 10),
     maxNodes |-> Within(1, 10), interfaces |-> Within(1, 5)]
CreateAutoScalingGroup == Message(
    Value({"name", "zone", "workerServiceClassPath", "minNodes", "maxNodes"})
      ++ OptList({"nameServers"})
      ++ ListOf("interfaces", AutoScalingGroupNodeInterface),
    CreateAutoScalingGroupRules)

CreatedAutoScalingGroup == Message(Value({"autoScalingGroupID"}), NoRules)

CreateAutoScalingGroupResponse == Message(
    One("autoScalingGroup", CreatedAutoScalingGroup), NoRules)

ReadAutoScalingGroupDetailRules ==
    [name |-> Matching(1, 20), nameServers |-> ItemsOf(1, 3, IPv4Rule),
     workerServiceClassPath |-> Within(1, 255), minNodes |-> Within(1, 10),
     maxNodes |-> Within(1, 10), interfaces |-> Within(1, 5)]
ReadAutoScalingGroupDetail == Message(
    Value({"autoScalingGroupID", "name", "zone", "workerServiceClassPath",
           "minNodes", "maxNodes", "workerNodeCount", "deleting"})
      ++ OptList({"nameServers"})
      ++ ListOf("interfaces", AutoScalingGroupNodeInterface),
    ReadAutoScalingGroupDetailRules)

GetAutoScalingGroupResponse == Message(
    One("autoScalingGroup", ReadAutoScalingGroupDetail), NoRules)

RunningContainer == Message(
    Value({"containerID", "name", "state", "status", "image", "startedAt",
           "applicationID", "applicationVersion"}), NoRules)

ReadWorkerNodeInterfaceAddress == Message(Value({"address"}), NoRules)

ReadWorkerNodeNetworkInterfaceRules ==
    [interfaceIndex |-> Within(0, Unbounded)]
ReadWorkerNodeNetworkInterface == Message(
    Value({"interfaceIndex"})
      ++ ListOf("addresses", ReadWorkerNodeInterfaceAddress),
    ReadWorkerNodeNetworkInterfaceRules)

ReadWorkerNodeDetailRules == [status |-> WorkerNodeStatusRule]
ReadWorkerNodeDetail == Message(
    Value({"workerNodeID", "draining", "status", "healthy", "creating",
           "created"}) ++ Nullable({"resourceID"})
      ++ Optional({"archiveVersion", "createErrorMessage"})
      ++ ListOf("runningContainers", RunningContainer)
      ++ ListOf("networkInterfaces", ReadWorkerNodeNetworkInterface),
    ReadWorkerNodeDetailRules)

GetWorkerNodeResponse == Message(
    One("workerNode", ReadWorkerNodeDetail), NoRules)

ListAutoScalingGroupResponse == Message(
    Optional({"nextCursor"})
      ++ ListOf("autoScalingGroups", ReadAutoScalingGroupDetail), NoRules)

ReadWorkerNodeSummaryRules == [status |-> WorkerNodeStatusRule]
ReadWorkerNodeSummary == Message(
    Value({"workerNodeID", "draining", "status", "created"})
      ++ Nullable({"resourceID"})
      ++ Optional({"archiveVersion", "createErrorMessage"})
      ++ ListOf("networkInterfaces", ReadWorkerNodeNetworkInterface),
    ReadWorkerNodeSummaryRules)

ListWorkerNodesResponse == Message(
    Optional({"nextCursor"}) ++ ListOf("workerNodes", ReadWorkerNodeSummary),
    NoRules)

ReadWorkerServiceClassRules == [name |-> Within(1, 255)]
ReadWorkerServiceClass == Message(
    Value({"path", "name"}), ReadWorkerServiceClassRules)

ListWorkerServiceClassResponse == Message(
    ListOf("workerServiceClasses", ReadWorkerServiceClass), NoRules)

UpdateWorkerNodeDrainingRequest == Message(Value({"draining"}), NoRules)

-----------------------------------------------------------------------------
(* Load balancers. *)

LoadBalancerInterfaceRules ==
    [ipPool |-> Within(0, 20), netmaskLen |-> Within(8, 29),
     vip |-> Matching(0, Unbounded)]
LoadBalancerInterface == Message(
    Value({"interfaceIndex", "upstream"})
      ++ Optional({"netmaskLen", "defaultGateway", "vip", "virtualRouterID",
                   "packetFilterID"}) ++ OptListOf("ipPool", IpRange),
    LoadBalancerInterfaceRules)

CreateLoadBalancerRules ==
    [name |-> Matching(1, 20), serviceClassPath |-> Within(1, 255),
     nameServers |-> ItemsOf(1, 3, IPv4Rule), interfaces |-> Within(1, 5)]
CreateLoadBalancer == Message(
    Value({"name", "serviceClassPath"}) ++ OptList({"nameServers"})
      ++ ListOf("interfaces", LoadBalancerInterface), CreateLoadBalancerRules)

CreatedLoadBalancer == Message(Value({"loadBalancerID"}), NoRules)

CreateLoadBalancerResponse == Message(
    One("loadBalancer", CreatedLoadBalancer), NoRules)

ReadLoadBalancerNodeInterfaceAddress == Message(
    Value({"address", "vip"}), NoRules)

ReadLoadBalancerNodeInterfaceRules ==
    [interfaceIndex |-> Within(0, Unbounded)]
ReadLoadBalancerNodeInterface == Message(
    Value({"interfaceIndex"})
      ++ ListOf("addresses", ReadLoadBalancerNodeInterfaceAddress),
    ReadLoadBalancerNodeInterfaceRules)

ReadLoadBalancerNodeRules == [status |-> LoadBalancerNodeStatusRule]
ReadLoadBalancerNode == Message(
    Value({"loadBalancerNodeID", "status", "created"})
      ++ Nullable({"resourceID"})
      ++ Optional({"archiveVersion", "createErrorMessage"})
      ++ ListOf("interfaces", ReadLoadBalancerNodeInterface),
    ReadLoadBalancerNodeRules)

GetLoadBalancerNodeResponse == Message(
    One("loadBalancerNode", ReadLoadBalancerNode), NoRules)

ReadLoadBalancerDetailRules ==
    [name |-> Matching(1, 20), serviceClassPath |-> Within(1, 255),
     nameServers |-> ItemsOf(1, 3, IPv4Rule), interfaces |-> Within(1, 5)]
ReadLoadBalancerDetail == Message(
    Value({"loadBalancerID", "name", "serviceClassPath", "created", "deleting"})
      ++ OptList({"nameServers"})
      ++ ListOf("interfaces", LoadBalancerInterface),
    ReadLoadBalancerDetailRules)

GetLoadBalancerResponse == Message(
    One("loadBalancer", ReadLoadBalancerDetail), NoRules)

ReadLbServiceClassRules == [name |-> Within(1, 255)]
ReadLbServiceClass == Message(
    Value({"path", "nodeCount", "name"}), ReadLbServiceClassRules)

ListLbServiceClassResponse == Message(
    ListOf("lbServiceClasses", ReadLbServiceClass), NoRules)

ReadLoadBalancerNodeSummaryRules == [status |-> LoadBalancerNodeStatusRule]
ReadLoadBalancerNodeSummary == Message(
    Value({"loadBalancerNodeID", "status", "created"})
      ++ Nullable({"resourceID"})
      ++ Optional({"archiveVersion", "createErrorMessage"})
      ++ ListOf("interfaces", ReadLoadBalancerNodeInterface),
    ReadLoadBalancerNodeSummaryRules)

ListLoadBalancerNodesResponse == Message(
    Optional({"nextCursor"})
      ++ ListOf("loadBalancerNodes", ReadLoadBalancerNodeSummary), NoRules)

ReadLoadBalancerSummaryRules ==
    [name |-> Matching(1, 20), serviceClassPath |-> Within(1, 255),
     nameServers |-> ItemsOf(1, 3, IPv4Rule)]
ReadLoadBalancerSummary == Message(
    Value({"loadBalancerID", "name", "serviceClassPath", "created", "deleting"})
      ++ OptList({"nameServers"}), ReadLoadBalancerSummaryRules)

ListLoadBalancersResponse == Message(
    Optional({"nextCursor"})
      ++ ListOf("loadBalancers", ReadLoadBalancerSummary), NoRules)

-----------------------------------------------------------------------------
(* Certificates. *)

CreateCertificateRules ==
    [name |-> Matching(1, 20), certificatePem |-> Within(0, 1000000),
     privatekeyPem |-> Within(0, 1000000),
     intermediateCertificatePem |-> Within(0, 1000000)]
CreateCertificate == Message(
    Value({"name", "certificatePem", "privatekeyPem"})
      ++ Optional({"intermediateCertificatePem"}), CreateCertificateRules)

CreatedCertificate == Message(Value({"certificateID"}), NoRules)

CreateCertificateResponse == Message(
    One("certificate", CreatedCertificate), NoRules)

ReadCertificateRules ==
    [name |-> Matching(1, 20), commonName |-> Within(0, 255)]
ReadCertificate == Message(
    Value({"certificateID", "name", "commonName", "notBeforeSec",
           "notAfterSec", "created", "updated"})
      ++ List({"subjectAlternativeNames"}), ReadCertificateRules)

GetCertificateResponse == Message(
    One("certificate", ReadCertificate), NoRules)

ListCertificateResponse == Message(
    Optional({"nextCursor"}) ++ ListOf("certificates", ReadCertificate),
    NoRules)

UpdateCertificateRules ==
    [name |-> Matching(1, 20), certificatePem |-> Within(0, 1000000),
     privatekeyPem |-> Within(0, 1000000),
     intermediateCertificatePem |-> Within(0, 1000000)]
UpdateCertificate == Message(
    Value({"name", "certificatePem", "privatekeyPem"})
      ++ Optional({"intermediateCertificatePem"}), UpdateCertificateRules)

-----------------------------------------------------------------------------
(* Errors. *)

Error == Message(Value({"status", "title"}), NoRules)

=============================================================================
