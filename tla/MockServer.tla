----------------------------- MODULE MockServer -----------------------------
(***************************************************************************)
(* The mock of the AppRun dedicated API (testutil/mock_server.go): its     *)
(* maps and the handlers that read and change them.  Every handler holds   *)
(* the mutex from its first line to its last, so each is one step; what it *)
(* returns is the variable returned.  Objects are the messages they are    *)
(* served as.  A name is told by its measure, an identifier is an element  *)
(* of IDs that no object has had.                                          *)
(***************************************************************************)
EXTENDS Absent, Integers, Sequences, FiniteSets

CONSTANTS
    IDs,            \* what uuid.New() returns
    Names,          \* names of clusters and applications
    Principals,     \* service principals of clusters
    Ports,          \* lists of ports of clusters
    Bodies,         \* requests for a version, as the handler gets them
    Numbers,        \* version numbers a client may name
    Manual          \* the scaling mode "manual"

ASSUME IDsAssumption == IDs # {}

VARIABLES clusters, applications, applicationVersions, nextVersionNumber,
          returned

vars == <<clusters, applications, applicationVersions, nextVersionNumber,
          returned>>

With(f, key, value) ==
    [k \in DOMAIN f \cup {key} |-> IF k = key THEN value ELSE f[k]]

Gives(message) == [kind |-> "answer", message |-> message]
Failure == [kind |-> "failure"]

\* The elements of a set in the order a range over a Go map gives them.
Orders(S) ==
    {s \in [1..Cardinality(S) -> S] : \A e \in S : \E i \in DOMAIN s : s[i] = e}

Fails ==
    /\ returned' = Failure
    /\ UNCHANGED <<clusters, applications, applicationVersions,
                   nextVersionNumber>>

Reads(message) ==
    /\ returned' = Gives(message)
    /\ UNCHANGED <<clusters, applications, applicationVersions,
                   nextVersionNumber>>

-----------------------------------------------------------------------------
(* Clusters. *)

Cluster(id, req) ==
    [name |-> req.name, clusterID |-> id, ports |-> req.ports,
     servicePrincipalID |-> req.servicePrincipalID,
     hasLetsEncryptEmail |-> req.letsEncryptEmail # None, created |-> 1]

ServeCreateCluster(req) ==
    \/ /\ \E id \in DOMAIN clusters : clusters[id].name = req.name
       /\ Fails
    \/ /\ \A id \in DOMAIN clusters : clusters[id].name # req.name
       /\ \E id \in IDs \ DOMAIN clusters :
            /\ clusters' = With(clusters, id, Cluster(id, req))
            /\ returned' = Gives([cluster |-> [clusterID |-> id]])
       /\ UNCHANGED <<applications, applicationVersions, nextVersionNumber>>

Summary(c) ==
    [name |-> c.name, clusterID |-> c.clusterID, created |-> c.created]

ServeListClusters ==
    \E s \in Orders(DOMAIN clusters) :
        Reads([clusters |-> [i \in DOMAIN s |-> Summary(clusters[s[i]])],
               nextCursor |-> None])

ServeGetCluster(id) ==
    \/ id \notin DOMAIN clusters /\ Fails
    \/ id \in DOMAIN clusters /\ Reads([cluster |-> clusters[id]])

ServeUpdateCluster(id, req) ==
    \/ id \notin DOMAIN clusters /\ Fails
    \/ /\ id \in DOMAIN clusters
       /\ clusters' = [clusters EXCEPT
            ![id].servicePrincipalID = req.servicePrincipalID,
            ![id].hasLetsEncryptEmail = req.letsEncryptEmail # None]
       /\ returned' = Gives(None)
       /\ UNCHANGED <<applications, applicationVersions, nextVersionNumber>>

\* The mock has no auto scaling groups and no load balancers.
ServeListAutoScalingGroups ==
    Reads([autoScalingGroups |-> <<>>, nextCursor |-> None])
ServeListLoadBalancers == Reads([loadBalancers |-> <<>>, nextCursor |-> None])

-----------------------------------------------------------------------------
(* Applications and their versions. *)

Application(id, req) ==
    [applicationID |-> id, name |-> req.name, clusterID |-> req.clusterID,
     clusterName |-> clusters[req.clusterID].name, activeVersion |-> Null,
     desiredCount |-> Null, scalingCooldownSeconds |-> 60]

\* Mutated form of Taken: only an application that is deployed has its name.
TakenIfActive(req) ==
    \E id \in DOMAIN applications :
        /\ applications[id].clusterID = req.clusterID
        /\ applications[id].name = req.name
        /\ applications[id].activeVersion # Null

Taken(req) ==
    \E id \in DOMAIN applications :
        /\ applications[id].clusterID = req.clusterID
        /\ applications[id].name = req.name

\* Mutated form of ServeCreateApplication: no first number is set.
CreateUnnumbered(req) ==
    \/ (req.clusterID \notin DOMAIN clusters \/ Taken(req)) /\ Fails
    \/ /\ req.clusterID \in DOMAIN clusters /\ ~Taken(req)
       /\ \E id \in IDs \ DOMAIN applications :
            /\ applications' = With(applications, id, Application(id, req))
            /\ returned' = Gives([application |-> [applicationID |-> id]])
       /\ UNCHANGED <<clusters, applicationVersions, nextVersionNumber>>

ServeCreateApplication(req) ==
    \/ req.clusterID \notin DOMAIN clusters /\ Fails
    \/ req.clusterID \in DOMAIN clusters /\ Taken(req) /\ Fails
    \/ /\ req.clusterID \in DOMAIN clusters /\ ~Taken(req)
       /\ \E id \in IDs \ DOMAIN applications :
            /\ applications' = With(applications, id, Application(id, req))
            /\ nextVersionNumber' = With(nextVersionNumber, id, 1)
            /\ returned' = Gives([application |-> [applicationID |-> id]])
       /\ UNCHANGED <<clusters, applicationVersions>>

ServeListApplications(clusterID) ==
    \E s \in Orders({id \in DOMAIN applications :
                        \/ clusterID = None
                        \/ applications[id].clusterID = clusterID}) :
        Reads([applications |-> [i \in DOMAIN s |-> applications[s[i]]],
               nextCursor |-> None])

\* An unset value is stored as null, and so is every password; a secret value is
\* not masked.
EnvRead(e) ==
    [key |-> e.key, value |-> IF e.value = None THEN Null ELSE e.value,
     secret |-> e.secret]

Version(n, req) ==
    [version |-> n, cpu |-> req.cpu, memory |-> req.memory,
     scalingMode |-> req.scalingMode, fixedScale |-> req.fixedScale,
     minScale |-> req.minScale, maxScale |-> req.maxScale,
     scaleInThreshold |-> req.scaleInThreshold,
     scaleOutThreshold |-> req.scaleOutThreshold, image |-> req.image,
     cmd |-> req.cmd, registryUsername |-> req.registryUsername,
     registryPassword |-> Null, activeNodeCount |-> 0, created |-> 1,
     exposedPorts |-> req.exposedPorts,
     env |-> [i \in DOMAIN req.env |-> EnvRead(req.env[i])]]

\* Mutated form of ServeCreateApplicationVersion: the next number stays.
PostSameNumber(id, req) ==
    \/ id \notin DOMAIN applications /\ Fails
    \/ /\ id \in DOMAIN applications
       /\ LET n == nextVersionNumber[id]
          IN  /\ applicationVersions' =
                    With(applicationVersions, <<id, n>>, Version(n, req))
              /\ returned' = Gives([applicationVersion |-> [version |-> n]])
       /\ UNCHANGED <<clusters, applications, nextVersionNumber>>

ServeCreateApplicationVersion(id, req) ==
    \/ id \notin DOMAIN applications /\ Fails
    \/ /\ id \in DOMAIN applications
       /\ LET n == nextVersionNumber[id]
          IN  /\ nextVersionNumber' = [nextVersionNumber EXCEPT ![id] = n + 1]
              /\ applicationVersions' =
                    With(applicationVersions, <<id, n>>, Version(n, req))
              /\ returned' = Gives([applicationVersion |-> [version |-> n]])
       /\ UNCHANGED <<clusters, applications>>

Status(v) ==
    [version |-> v.version, image |-> v.image,
     activeNodeCount |-> v.activeNodeCount, created |-> v.created]

\* Mutated form of ServeListApplicationVersions: the active version only.
ListActiveVersion(id) ==
    \/ id \notin DOMAIN applications /\ Fails
    \/ /\ id \in DOMAIN applications
       /\ \E s \in Orders({k \in DOMAIN applicationVersions :
                    k[1] = id /\ k[2] = applications[id].activeVersion}) :
            Reads([versions |->
                    [i \in DOMAIN s |-> Status(applicationVersions[s[i]])],
                   nextCursor |-> None])

ServeListApplicationVersions(id) ==
    \/ id \notin DOMAIN applications /\ Fails
    \/ /\ id \in DOMAIN applications
       /\ \E s \in Orders({k \in DOMAIN applicationVersions : k[1] = id}) :
            Reads([versions |->
                    [i \in DOMAIN s |-> Status(applicationVersions[s[i]])],
                   nextCursor |-> None])

\* Mutated form of ServeGetApplicationVersion: without the ports' health checks.
GetPortsBare(id, n) ==
    \/ <<id, n>> \notin DOMAIN applicationVersions /\ Fails
    \/ /\ <<id, n>> \in DOMAIN applicationVersions
       /\ LET v == applicationVersions[<<id, n>>]
              bare == [i \in DOMAIN v.exposedPorts |->
                         [v.exposedPorts[i] EXCEPT !.healthCheck = Null]]
          IN  Reads([applicationVersion |-> [v EXCEPT !.exposedPorts = bare]])

ServeGetApplicationVersion(id, n) ==
    \/ <<id, n>> \notin DOMAIN applicationVersions /\ Fails
    \/ /\ <<id, n>> \in DOMAIN applicationVersions
       /\ Reads([applicationVersion |-> applicationVersions[<<id, n>>]])

\* The scale an activated version asks for; the count stays what it was when
\* the version is unknown or has no scale.
DesiredCount(id, n) ==
    LET was == applications[id].desiredCount
        v == applicationVersions[<<id, n>>]
        scale == IF v.scalingMode = Manual THEN v.fixedScale ELSE v.minScale
    IN  IF n = Null THEN Null
        ELSE IF <<id, n>> \notin DOMAIN applicationVersions \/ scale = None
        THEN was ELSE scale

\* The number is not checked.
ServeUpdateApplication(id, n) ==
    \/ id \notin DOMAIN applications /\ Fails
    \/ /\ id \in DOMAIN applications
       /\ applications' = [applications EXCEPT
            ![id].activeVersion = n, ![id].desiredCount = DesiredCount(id, n)]
       /\ returned' = Gives(None)
       /\ UNCHANGED <<clusters, applicationVersions, nextVersionNumber>>

-----------------------------------------------------------------------------
ClusterRequests ==
    [name : Names, ports : Ports, servicePrincipalID : Principals,
     letsEncryptEmail : {None, 1}]
UpdateRequests == [servicePrincipalID : Principals, letsEncryptEmail : {None, 1}]
ApplicationRequests == [name : Names, clusterID : IDs]

\* The operations the mock inherits from UnimplementedHandler.
Unimplemented ==
    /\ returned' = [kind |-> "unimplemented"]
    /\ UNCHANGED <<clusters, applications, applicationVersions,
                   nextVersionNumber>>

\* A test starts with an empty server, or with a cluster and an application
\* of it put there by AddCluster and AddApplication.
AnID == CHOOSE id \in IDs : TRUE
Init ==
    /\ applicationVersions = <<>>
    /\ returned = None
    /\ \/ clusters = <<>> /\ applications = <<>> /\ nextVersionNumber = <<>>
       \/ \E req \in ClusterRequests :
            /\ req.letsEncryptEmail = None
            /\ clusters = With(<<>>, AnID, Cluster(AnID, req))
            /\ applications =
                With(<<>>, AnID,
                     Application(AnID, [name |-> req.name, clusterID |-> AnID]))
            /\ nextVersionNumber = With(<<>>, AnID, 1)

Next ==
    \/ \E req \in ClusterRequests : ServeCreateCluster(req)
    \/ ServeListClusters
    \/ \E id \in IDs : ServeGetCluster(id)
    \/ \E id \in IDs, req \in UpdateRequests : ServeUpdateCluster(id, req)
    \/ ServeListAutoScalingGroups
    \/ ServeListLoadBalancers
    \/ \E req \in ApplicationRequests : ServeCreateApplication(req)
    \/ \E id \in IDs \cup {None} : ServeListApplications(id)
    \/ \E id \in IDs, req \in Bodies : ServeCreateApplicationVersion(id, req)
    \/ \E id \in IDs : ServeListApplicationVersions(id)
    \/ \E id \in IDs, n \in Numbers : ServeGetApplicationVersion(id, n)
    \/ \E id \in IDs, n \in Numbers \cup {Null} : ServeUpdateApplication(id, n)
    \/ Unimplemented

Spec == Init /\ [][Next]_vars

-----------------------------------------------------------------------------
Clusters ==
    [name : Names, clusterID : IDs, ports : Ports,
     servicePrincipalID : Principals, hasLetsEncryptEmail : BOOLEAN,
     created : {1}]
Counts ==
    {Null} \cup (({b.fixedScale : b \in Bodies} \cup {b.minScale : b \in Bodies})
                    \ {None})
Applications ==
    [applicationID : IDs, name : Names, clusterID : IDs, clusterName : Names,
     activeVersion : Numbers \cup {Null}, desiredCount : Counts,
     scalingCooldownSeconds : {60}]

\* The maps hold what their types say, and an application has a next number.
TypeOK ==
    /\ DOMAIN clusters \subseteq IDs
    /\ clusters \in [DOMAIN clusters -> Clusters]
    /\ DOMAIN applications \subseteq IDs
    /\ applications \in [DOMAIN applications -> Applications]
    /\ nextVersionNumber \in [DOMAIN applications -> Nat \ {0}]
    /\ DOMAIN applicationVersions \subseteq (DOMAIN applications) \X (Nat \ {0})
    /\ \A k \in DOMAIN applicationVersions :
        \E b \in Bodies : applicationVersions[k] = Version(k[2], b)

\* No two clusters have one name, and no two applications of one cluster: the
\* check and the insertion are under one lock, however many calls there are.
NamesUnique ==
    /\ \A c, d \in DOMAIN clusters :
        clusters[c].name = clusters[d].name => c = d
    /\ \A a, b \in DOMAIN applications :
        /\ applications[a].name = applications[b].name
        /\ applications[a].clusterID = applications[b].clusterID
        => a = b

\* An application's cluster exists and is the one it names: an update of a
\* cluster touches neither its name nor its applications.
InCluster ==
    \A a \in DOMAIN applications :
        /\ applications[a].clusterID \in DOMAIN clusters
        /\ applications[a].clusterName = clusters[applications[a].clusterID].name

\* A version has a number below the next one of its application.
NumbersAhead ==
    \A k \in DOMAIN applicationVersions : k[2] < nextVersionNumber[k[1]]

\* What has been stored as a version stays, whatever is posted, activated or
\* updated after it.
VersionsKept ==
    [][\A k \in DOMAIN applicationVersions :
        /\ k \in DOMAIN applicationVersions'
        /\ applicationVersions'[k] = applicationVersions[k]]_vars

=============================================================================
