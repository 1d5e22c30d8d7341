------------------------------- MODULE MCWire -------------------------------
(***************************************************************************)
(* Two clients and three calls: enough for two posts under way at once and *)
(* a read of what they left; a cluster and an application, made or there   *)
(* from the start, have one name.                                          *)
(***************************************************************************)
EXTENDS Wire, TLC

MCIDs == {1, 2}
MCNames == {3}
AName == CHOOSE n \in Names : TRUE
MCPrincipals == {12}
MCPorts == {<<>>}
MCNumbers == 0..4

\* The words of a scaling mode, by their place in the enumeration.
MCManual == 1
Cpu == 2

MCBody(mode, cmd, username, exposedPorts, env) ==
    [cpu |-> 100, memory |-> 128, scalingMode |-> mode,
     fixedScale |-> IF mode = MCManual THEN 5 ELSE None,
     minScale |-> IF mode = MCManual THEN None ELSE 2,
     maxScale |-> IF mode = MCManual THEN None ELSE 4,
     scaleInThreshold |-> None, scaleOutThreshold |-> None, image |-> 9,
     cmd |-> cmd, registryUsername |-> username, registryPassword |-> Null,
     registryPasswordAction |-> 1, exposedPorts |-> exposedPorts, env |-> env]

MCEnv == <<[key |-> 1, value |-> None, secret |-> TRUE]>>

\* A port with hosts and a health check, and one with an empty list of hosts.
MCExposedPorts ==
    <<[targetPort |-> 8080, useLetsEncrypt |-> TRUE, loadBalancerPort |-> 443,
       host |-> <<11, 12>>,
       healthCheck |-> [path |-> 8, intervalSeconds |-> 10, timeoutSeconds |-> 5]],
      [targetPort |-> 8081, useLetsEncrypt |-> FALSE, loadBalancerPort |-> Null,
       host |-> <<>>, healthCheck |-> Null]>>

\* Bodies as a client gives them, where a list may be nil, and as the handler
\* gets them.
Given ==
    {MCBody(MCManual, None, 7, None, None),
     MCBody(Cpu, <<>>, Null, MCExposedPorts, MCEnv)}
NilAsEmpty(list) == IF list = None THEN <<>> ELSE list
MCBodies ==
    {[b EXCEPT !.exposedPorts = NilAsEmpty(@), !.env = NilAsEmpty(@)] :
        b \in Given}

\* One that the server refuses: no more than 64000 millicores.
TooBig == [MCBody(Cpu, None, Null, <<>>, <<>>) EXCEPT !.cpu = 64001]

MCCalled ==
    {"CreateCluster", "ListClusters", "UpdateCluster", "CreateApplication",
     "ListApplications", "UpdateApplication", "CreateApplicationVersion",
     "ListApplicationVersions", "GetApplicationVersion", "GetCluster",
     "ListAutoScalingGroups", "ListLoadBalancers", "GetLoadBalancer"}

\* What touches nothing the others read is tried as the first call only, and
\* so are requests that are refused.
Apart ==
    {"ListClusters", "UpdateCluster", "GetCluster", "ListAutoScalingGroups",
     "ListLoadBalancers", "GetLoadBalancer"}

\* A read that is given up changes nothing.
MCLossy ==
    {"CreateCluster", "CreateApplication", "CreateApplicationVersion",
     "UpdateApplication"}

ArgsOf(op) ==
    CASE op \in {"GetCluster", "UpdateCluster", "ListAutoScalingGroups"} ->
            {[clusterID |-> 1]}
      [] op = "ListLoadBalancers" ->
            {[clusterID |-> 1, autoScalingGroupID |-> 1]}
      [] op = "GetLoadBalancer" ->
            {[clusterID |-> 1, autoScalingGroupID |-> 1, loadBalancerID |-> 1]}
      [] op = "GetApplicationVersion" ->
            {[applicationID |-> 1, version |-> n] : n \in 1..2}
      [] op \in {"UpdateApplication", "CreateApplicationVersion",
                 "ListApplicationVersions"} -> {[applicationID |-> 1]}
      [] OTHER -> {<<>>}

QueriesOf(op, made) ==
    LET none == [q \in Sends[op].query |-> IF q = "maxItems" THEN 30 ELSE None]
    IN  IF op = "ListApplications"
        THEN {[none EXCEPT !.clusterID = 1]}
                \cup (IF made = 0 THEN {none} ELSE {})
        ELSE {none}

BodiesOf(op, made) ==
    CASE op = "CreateCluster" ->
            {[name |-> AName, letsEncryptEmail |-> None, ports |-> <<>>,
              servicePrincipalID |-> 12]}
      [] op = "UpdateCluster" ->
            {[letsEncryptEmail |-> 1, servicePrincipalID |-> 12]}
      [] op = "CreateApplication" -> {[name |-> AName, clusterID |-> 1]}
      [] op = "CreateApplicationVersion" ->
            Given \cup (IF made = 0 THEN {TooBig} ELSE {})
      [] op = "UpdateApplication" ->
            {[activeVersion |-> 1]}
                \cup (IF made = 0 THEN {[activeVersion |-> Null]} ELSE {})
      [] OTHER -> {None}

MCCallsOf(op, made) ==
    IF \/ op \in Apart /\ made > 0
       \/ op = "CreateCluster" /\ made > 1
    THEN {}
    ELSE {[args |-> a, query |-> q, body |-> b, trusted |-> t] :
            a \in ArgsOf(op), q \in QueriesOf(op, made),
            b \in BodiesOf(op, made),
            t \in IF op = "GetLoadBalancer" THEN BOOLEAN ELSE {TRUE}}

Symmetry == Permutations(Clients)

=============================================================================
