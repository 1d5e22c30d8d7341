----------------------------- MODULE WireProofs -----------------------------
(***************************************************************************)
(* What the mock server keeps whatever is asked of it, in whatever order,  *)
(* for any identifiers, names and requests; and what any number of clients *)
(* see of it through the bindings, whatever is lost and given up.          *)
(*                                                                         *)
(* Of the mock, IInv is inductive: the types, that an application's        *)
(* cluster exists, that names are not used twice and that version numbers  *)
(* run behind the next one.  Behind the bindings the mock does what it     *)
(* does on its own (WireServesAsMock), so all that is kept there too.      *)
(*                                                                         *)
(* Of the clients, Shape (what a call may look like on its way) and        *)
(* Knowing are inductive: whatever an answer told is so on the server, and *)
(* stays so, because the mock deletes nothing and moves nothing.           *)
(***************************************************************************)
EXTENDS Wire, CodecProofs, FiniteSetTheorems

-----------------------------------------------------------------------------
(***************************************************************************)
(* The mock on its own.                                                    *)
(***************************************************************************)

IInv == TypeOK /\ NamesUnique /\ InCluster /\ NumbersAhead

\* Putting a key into a function: its domain, and its values.
LEMMA WithAdds ==
    ASSUME NEW f, NEW key, NEW value
    PROVE  /\ DOMAIN With(f, key, value) = DOMAIN f \cup {key}
           /\ With(f, key, value)[key] = value
           /\ \A k \in DOMAIN f : k # key => With(f, key, value)[k] = f[k]
  BY DEF With

\* The function's type follows from its old values' and the new one's.
LEMMA WithType ==
    ASSUME NEW f, NEW key, NEW value, NEW S,
           f \in [DOMAIN f -> S], value \in S
    PROVE  With(f, key, value) \in [DOMAIN With(f, key, value) -> S]
  BY DEF With

Kept == <<clusters, applications, applicationVersions, nextVersionNumber>>

\* A step that only returns something keeps the invariant.
LEMMA Unchanged == IInv /\ UNCHANGED Kept => IInv'
  <1> SUFFICES ASSUME IInv, UNCHANGED Kept PROVE IInv'
    OBVIOUS
  <1>1. TypeOK'
    BY DEF IInv, TypeOK, Kept
  <1>2. NamesUnique' /\ InCluster' /\ NumbersAhead'
    BY DEF IInv, NamesUnique, InCluster, NumbersAhead, Kept
  <1> QED
    BY <1>1, <1>2 DEF IInv

LEMMA ClusterType ==
    ASSUME NEW id \in IDs, NEW req \in ClusterRequests
    PROVE  Cluster(id, req) \in Clusters
  BY DEF Cluster, Clusters, ClusterRequests

\* The application a request makes of a cluster that exists.
LEMMA ApplicationType ==
    ASSUME TypeOK, NEW id \in IDs, NEW req \in ApplicationRequests,
           req.clusterID \in DOMAIN clusters
    PROVE  Application(id, req) \in Applications
  <1>1. clusters[req.clusterID].name \in Names
    BY DEF TypeOK, Clusters
  <1>2. req.name \in Names /\ req.clusterID \in IDs
    BY DEF ApplicationRequests
  <1> QED
    BY <1>1, <1>2 DEF Application, Applications, Counts

-----------------------------------------------------------------------------
LEMMA InitIInv == Init => IInv
  <1> SUFFICES ASSUME Init PROVE IInv
    OBVIOUS
  <1>1. applicationVersions = <<>> /\ DOMAIN applicationVersions = {}
    BY DEF Init
  <1>2. CASE clusters = <<>> /\ applications = <<>> /\ nextVersionNumber = <<>>
    <2>1. /\ DOMAIN clusters = {} /\ DOMAIN applications = {}
          /\ DOMAIN nextVersionNumber = {}
      BY <1>2
    <2>2. /\ clusters \in [{} -> Clusters]
          /\ applications \in [{} -> Applications]
          /\ nextVersionNumber \in [{} -> Nat \ {0}]
      BY <1>2
    <2> QED
      BY <2>1, <2>2, <1>1 DEF IInv, TypeOK, NamesUnique, InCluster, NumbersAhead
  <1>3. ASSUME NEW req \in ClusterRequests,
               clusters = With(<<>>, AnID, Cluster(AnID, req)),
               applications =
                 With(<<>>, AnID,
                      Application(AnID, [name |-> req.name,
                                         clusterID |-> AnID])),
               nextVersionNumber = With(<<>>, AnID, 1)
        PROVE  IInv
    <2> DEFINE made == [name |-> req.name, clusterID |-> AnID]
    <2>1. AnID \in IDs
      BY IDsAssumption DEF AnID
    <2>2. /\ DOMAIN clusters = {AnID} /\ DOMAIN applications = {AnID}
          /\ DOMAIN nextVersionNumber = {AnID}
      BY <1>3 DEF With
    <2>3. /\ clusters[AnID] = Cluster(AnID, req)
          /\ applications[AnID] = Application(AnID, made)
          /\ nextVersionNumber[AnID] = 1
      BY <1>3 DEF With
    <2>4. Cluster(AnID, req) \in Clusters
      BY <2>1, ClusterType
    <2>5. clusters \in [{AnID} -> Clusters]
      BY <1>3, <2>2, <2>3, <2>4 DEF With
    <2>6. made \in ApplicationRequests
      BY <2>1 DEF ApplicationRequests, ClusterRequests
    <2>7. Application(AnID, made) \in Applications
      <3>1. clusters[AnID].name \in Names
        BY <2>3, <2>4 DEF Clusters
      <3> QED
        BY <3>1, <2>1, <2>6
        DEF Application, Applications, Counts, ApplicationRequests
    <2>8. applications \in [{AnID} -> Applications]
      BY <1>3, <2>2, <2>3, <2>7 DEF With
    <2>9. nextVersionNumber \in [{AnID} -> Nat \ {0}]
      BY <1>3, <2>2, <2>3 DEF With
    <2>10. TypeOK
      BY <1>1, <2>1, <2>2, <2>5, <2>8, <2>9 DEF TypeOK
    <2>11. /\ applications[AnID].clusterID = AnID
           /\ applications[AnID].clusterName = clusters[AnID].name
      BY <2>3 DEF Application
    <2>12. NamesUnique /\ InCluster
      BY <2>2, <2>11 DEF NamesUnique, InCluster
    <2>13. NumbersAhead
      BY <1>1 DEF NumbersAhead
    <2> QED
      BY <2>10, <2>12, <2>13 DEF IInv
  <1> QED
    BY <1>2, <1>3 DEF Init

-----------------------------------------------------------------------------
LEMMA CreateClusterIInv ==
    ASSUME IInv, NEW req \in ClusterRequests, ServeCreateCluster(req)
    PROVE  IInv'
  <1>1. CASE Fails
    BY <1>1, Unchanged DEF Fails, Kept
  <1>2. ASSUME \A id \in DOMAIN clusters : clusters[id].name # req.name,
               NEW id \in IDs \ DOMAIN clusters,
               clusters' = With(clusters, id, Cluster(id, req)),
               UNCHANGED <<applications, applicationVersions,
                           nextVersionNumber>>
        PROVE  IInv'
    <2>1. Cluster(id, req) \in Clusters /\ Cluster(id, req).name = req.name
      BY ClusterType DEF Cluster
    <2>2. /\ DOMAIN clusters' = DOMAIN clusters \cup {id}
          /\ clusters'[id] = Cluster(id, req)
          /\ \A k \in DOMAIN clusters : clusters'[k] = clusters[k]
      BY <1>2 DEF With
    <2>3. clusters' \in [DOMAIN clusters' -> Clusters]
      BY <1>2, <2>1, WithType DEF IInv, TypeOK
    <2>4. TypeOK'
      BY <1>2, <2>2, <2>3 DEF IInv, TypeOK
    <2>5. NamesUnique'
      BY <1>2, <2>1, <2>2 DEF IInv, NamesUnique
    <2>6. InCluster'
      BY <1>2, <2>2 DEF IInv, InCluster
    <2>7. NumbersAhead'
      BY <1>2 DEF IInv, NumbersAhead
    <2> QED
      BY <2>4, <2>5, <2>6, <2>7 DEF IInv
  <1> QED
    BY <1>1, <1>2 DEF ServeCreateCluster

LEMMA UpdateClusterIInv ==
    ASSUME IInv, NEW id \in IDs, NEW req \in UpdateRequests,
           ServeUpdateCluster(id, req)
    PROVE  IInv'
  <1>1. CASE Fails
    BY <1>1, Unchanged DEF Fails, Kept
  <1>2. CASE /\ id \in DOMAIN clusters
             /\ clusters' = [clusters EXCEPT
                  ![id].servicePrincipalID = req.servicePrincipalID,
                  ![id].hasLetsEncryptEmail = req.letsEncryptEmail # None]
             /\ UNCHANGED <<applications, applicationVersions,
                            nextVersionNumber>>
    <2>1. DOMAIN clusters' = DOMAIN clusters
      BY <1>2
    <2>2. \A k \in DOMAIN clusters : clusters[k] \in Clusters
      BY DEF IInv, TypeOK
    <2>3. /\ req.servicePrincipalID \in Principals
          /\ (req.letsEncryptEmail # None) \in BOOLEAN
      BY DEF UpdateRequests
    <2>4. clusters'[id] = [clusters[id] EXCEPT
            !.servicePrincipalID = req.servicePrincipalID,
            !.hasLetsEncryptEmail = req.letsEncryptEmail # None]
      BY <1>2, <2>2 DEF Clusters
    <2>5. clusters'[id] \in Clusters /\ clusters'[id].name = clusters[id].name
      BY <1>2, <2>2, <2>3, <2>4 DEF Clusters
    <2>6. \A k \in DOMAIN clusters : k # id => clusters'[k] = clusters[k]
      BY <1>2
    <2>7. \A k \in DOMAIN clusters :
            clusters'[k] \in Clusters /\ clusters'[k].name = clusters[k].name
      BY <2>2, <2>5, <2>6
    <2>8. clusters' \in [DOMAIN clusters' -> Clusters]
      BY <1>2, <2>1, <2>7
    <2>9. TypeOK'
      BY <1>2, <2>1, <2>8 DEF IInv, TypeOK
    <2>10. NamesUnique'
      BY <1>2, <2>1, <2>7 DEF IInv, NamesUnique
    <2>11. InCluster'
      BY <1>2, <2>1, <2>7 DEF IInv, InCluster
    <2>12. NumbersAhead'
      BY <1>2 DEF IInv, NumbersAhead
    <2> QED
      BY <2>9, <2>10, <2>11, <2>12 DEF IInv
  <1> QED
    BY <1>1, <1>2 DEF ServeUpdateCluster

LEMMA CreateApplicationIInv ==
    ASSUME IInv, NEW req \in ApplicationRequests, ServeCreateApplication(req)
    PROVE  IInv'
  <1>1. CASE Fails
    BY <1>1, Unchanged DEF Fails, Kept
  <1>2. ASSUME req.clusterID \in DOMAIN clusters, ~Taken(req),
               NEW id \in IDs \ DOMAIN applications,
               applications' = With(applications, id, Application(id, req)),
               nextVersionNumber' = With(nextVersionNumber, id, 1),
               UNCHANGED <<clusters, applicationVersions>>
        PROVE  IInv'
    <2> DEFINE made == Application(id, req)
    <2>1. made \in Applications
      BY <1>2, ApplicationType DEF IInv
    <2>2. /\ made.clusterID = req.clusterID /\ made.name = req.name
          /\ made.clusterName = clusters[req.clusterID].name
      BY DEF Application
    <2>3. /\ DOMAIN applications' = DOMAIN applications \cup {id}
          /\ applications'[id] = made
          /\ \A k \in DOMAIN applications : applications'[k] = applications[k]
      BY <1>2 DEF With
    <2>4. applications' \in [DOMAIN applications' -> Applications]
      BY <1>2, <2>1, WithType DEF IInv, TypeOK
    <2>5. DOMAIN nextVersionNumber = DOMAIN applications
      BY DEF IInv, TypeOK
    <2>6. /\ DOMAIN nextVersionNumber' = DOMAIN applications'
          /\ \A k \in DOMAIN applications :
               nextVersionNumber'[k] = nextVersionNumber[k]
      BY <1>2, <2>3, <2>5 DEF With
    <2>7. nextVersionNumber' \in [DOMAIN applications' -> Nat \ {0}]
      <3>1. nextVersionNumber \in [DOMAIN nextVersionNumber -> Nat \ {0}]
        BY <2>5 DEF IInv, TypeOK
      <3>2. 1 \in Nat \ {0}
        OBVIOUS
      <3>3. nextVersionNumber' \in
              [DOMAIN With(nextVersionNumber, id, 1) -> Nat \ {0}]
        BY <1>2, <3>1, <3>2, WithType
      <3> QED
        BY <1>2, <2>6, <3>3
    <2>8. DOMAIN applicationVersions' \subseteq
            (DOMAIN applications') \X (Nat \ {0})
      BY <1>2, <2>3 DEF IInv, TypeOK
    <2>9. \A k \in DOMAIN applicationVersions' :
            \E b \in Bodies : applicationVersions'[k] = Version(k[2], b)
      BY <1>2 DEF IInv, TypeOK
    <2>10. TypeOK'
      BY <1>2, <2>3, <2>4, <2>7, <2>8, <2>9 DEF IInv, TypeOK
    <2>11. NamesUnique'
      BY <1>2, <2>2, <2>3 DEF IInv, NamesUnique, Taken
    <2>12. InCluster'
      BY <1>2, <2>2, <2>3 DEF IInv, InCluster
    <2>13. NumbersAhead'
      BY <1>2, <2>6 DEF IInv, TypeOK, NumbersAhead
    <2> QED
      BY <2>10, <2>11, <2>12, <2>13 DEF IInv
  <1> QED
    BY <1>1, <1>2 DEF ServeCreateApplication

LEMMA CreateVersionIInv ==
    ASSUME IInv, NEW id \in IDs, NEW req \in Bodies,
           ServeCreateApplicationVersion(id, req)
    PROVE  /\ IInv'
           /\ \A k \in DOMAIN applicationVersions :
                /\ k \in DOMAIN applicationVersions'
                /\ applicationVersions'[k] = applicationVersions[k]
  <1>1. CASE Fails
    BY <1>1, Unchanged DEF Fails, Kept
  <1>2. CASE id \in DOMAIN applications /\ ~Fails
    <2> DEFINE n == nextVersionNumber[id]
    <2>1. /\ id \in DOMAIN applications
          /\ nextVersionNumber' = [nextVersionNumber EXCEPT ![id] = n + 1]
          /\ applicationVersions' =
               With(applicationVersions, <<id, n>>, Version(n, req))
          /\ UNCHANGED <<clusters, applications>>
      BY <1>2 DEF ServeCreateApplicationVersion
    <2>2. n \in Nat \ {0}
      BY <2>1 DEF IInv, TypeOK
    <2>3. <<id, n>> \notin DOMAIN applicationVersions
      <3>1. ASSUME <<id, n>> \in DOMAIN applicationVersions PROVE FALSE
        <4>1. n < n
          BY <3>1 DEF IInv, NumbersAhead
        <4> QED
          BY <4>1, <2>2
      <3> QED
        BY <3>1
    <2>4. /\ DOMAIN applicationVersions' =
               DOMAIN applicationVersions \cup {<<id, n>>}
          /\ applicationVersions'[<<id, n>>] = Version(n, req)
          /\ \A k \in DOMAIN applicationVersions :
               applicationVersions'[k] = applicationVersions[k]
      BY <2>1, <2>3 DEF With
    <2>5. nextVersionNumber' \in [DOMAIN applications' -> Nat \ {0}]
      BY <2>1, <2>2 DEF IInv, TypeOK
    <2>6. DOMAIN applicationVersions' \subseteq
            (DOMAIN applications') \X (Nat \ {0})
      BY <2>1, <2>2, <2>4 DEF IInv, TypeOK
    <2>7. \A k \in DOMAIN applicationVersions' :
            \E b \in Bodies : applicationVersions'[k] = Version(k[2], b)
      <3>1. ASSUME NEW k \in DOMAIN applicationVersions'
            PROVE  \E b \in Bodies : applicationVersions'[k] = Version(k[2], b)
        <4>1. CASE k = <<id, n>>
          BY <4>1, <2>4
        <4>2. CASE k \in DOMAIN applicationVersions
          BY <4>2, <2>4 DEF IInv, TypeOK
        <4> QED
          BY <3>1, <4>1, <4>2, <2>4
      <3> QED
        BY <3>1
    <2>8. TypeOK'
      BY <2>1, <2>5, <2>6, <2>7 DEF IInv, TypeOK
    <2>9. NamesUnique' /\ InCluster'
      BY <2>1 DEF IInv, NamesUnique, InCluster
    <2>10. NumbersAhead'
      <3>1. ASSUME NEW k \in DOMAIN applicationVersions'
            PROVE  k[2] < nextVersionNumber'[k[1]]
        <4>1. CASE k = <<id, n>>
          BY <4>1, <2>1, <2>2 DEF IInv, TypeOK
        <4>2. CASE k \in DOMAIN applicationVersions
          <5>1. /\ k[1] \in DOMAIN applications /\ k[2] \in Nat
                /\ k[2] < nextVersionNumber[k[1]]
            BY <4>2 DEF IInv, TypeOK, NumbersAhead
          <5>2. \/ nextVersionNumber'[k[1]] = nextVersionNumber[k[1]]
                \/ /\ k[1] = id
                   /\ nextVersionNumber'[k[1]] = nextVersionNumber[k[1]] + 1
            BY <2>1, <5>1 DEF IInv, TypeOK
          <5>3. nextVersionNumber[k[1]] \in Nat
            BY <5>1 DEF IInv, TypeOK
          <5> QED
            BY <5>1, <5>2, <5>3
        <4> QED
          BY <3>1, <4>1, <4>2, <2>4
      <3> QED
        BY <3>1 DEF NumbersAhead
    <2> QED
      BY <2>4, <2>8, <2>9, <2>10 DEF IInv
  <1> QED
    BY <1>1, <1>2 DEF ServeCreateApplicationVersion

\* Activation: the count it leaves is one the types allow.
LEMMA UpdateApplicationIInv ==
    ASSUME IInv, NEW id \in IDs, NEW n \in Numbers \cup {Null},
           ServeUpdateApplication(id, n)
    PROVE  IInv'
  <1>1. CASE Fails
    BY <1>1, Unchanged DEF Fails, Kept
  <1>2. CASE /\ id \in DOMAIN applications
             /\ applications' = [applications EXCEPT
                  ![id].activeVersion = n,
                  ![id].desiredCount = DesiredCount(id, n)]
             /\ UNCHANGED <<clusters, applicationVersions, nextVersionNumber>>
    <2> DEFINE count == DesiredCount(id, n)
    <2>1. \A k \in DOMAIN applications : applications[k] \in Applications
      BY DEF IInv, TypeOK
    <2>2. count \in Counts
      <3>1. applications[id].desiredCount \in Counts
        BY <1>2, <2>1 DEF Applications
      <3>2. ASSUME <<id, n>> \in DOMAIN applicationVersions
            PROVE  /\ applicationVersions[<<id, n>>].fixedScale \in Counts \cup {None}
                   /\ applicationVersions[<<id, n>>].minScale \in Counts \cup {None}
        <4>1. PICK b \in Bodies : applicationVersions[<<id, n>>] = Version(n, b)
          BY <3>2 DEF IInv, TypeOK
        <4> QED
          BY <4>1 DEF Version, Counts
      <3>3. Null \in Counts
        BY DEF Counts
      <3> QED
        BY <3>1, <3>2, <3>3 DEF DesiredCount
    <2>3. DOMAIN applications' = DOMAIN applications
      BY <1>2
    <2>4. applications'[id] = [applications[id] EXCEPT
            !.activeVersion = n, !.desiredCount = count]
      BY <1>2, <2>1 DEF Applications
    <2>5. applications[id] \in Applications
      BY <1>2, <2>1
    <2>6. /\ applications'[id] \in Applications
          /\ applications'[id].name = applications[id].name
          /\ applications'[id].clusterID = applications[id].clusterID
          /\ applications'[id].clusterName = applications[id].clusterName
      <3> DEFINE old == applications[id]
      <3>1. applications'[id] = [old EXCEPT !.activeVersion = n, !.desiredCount = count]
        BY <2>4
      <3>2. old \in Applications
        BY <2>5
      <3> HIDE DEF old, count
      <3>3. /\ [old EXCEPT !.activeVersion = n, !.desiredCount = count] \in Applications
            /\ [old EXCEPT !.activeVersion = n, !.desiredCount = count].name = old.name
            /\ [old EXCEPT !.activeVersion = n, !.desiredCount = count].clusterID
                    = old.clusterID
            /\ [old EXCEPT !.activeVersion = n, !.desiredCount = count].clusterName
                    = old.clusterName
        BY <2>2, <3>2 DEF Applications
      <3> QED
        BY <3>1, <3>3 DEF old
    <2>7. \A k \in DOMAIN applications :
            /\ applications'[k] \in Applications
            /\ applications'[k].name = applications[k].name
            /\ applications'[k].clusterID = applications[k].clusterID
            /\ applications'[k].clusterName = applications[k].clusterName
      BY <1>2, <2>1, <2>6
    <2>8. applications' \in [DOMAIN applications' -> Applications]
      BY <1>2, <2>3, <2>7
    <2>9. TypeOK'
      BY <1>2, <2>3, <2>8 DEF IInv, TypeOK
    <2>10. NamesUnique' /\ InCluster'
      BY <1>2, <2>3, <2>7 DEF IInv, NamesUnique, InCluster
    <2>11. NumbersAhead'
      BY <1>2 DEF IInv, NumbersAhead
    <2> QED
      BY <2>9, <2>10, <2>11 DEF IInv
  <1> QED
    BY <1>1, <1>2 DEF ServeUpdateApplication

-----------------------------------------------------------------------------
\* A handler that only reads, or fails, or is not there, keeps all four maps.
LEMMA ReadersKeep ==
    ASSUME NEW id,
           \/ ServeListClusters \/ ServeGetCluster(id)
           \/ ServeListAutoScalingGroups \/ ServeListLoadBalancers
           \/ ServeListApplications(id) \/ ServeListApplicationVersions(id)
           \/ (\E n \in Numbers : ServeGetApplicationVersion(id, n))
           \/ Unimplemented
    PROVE  UNCHANGED Kept
  <1>1. ASSUME Fails PROVE UNCHANGED Kept
    BY <1>1 DEF Fails, Kept
  <1>2. ASSUME NEW message, Reads(message) PROVE UNCHANGED Kept
    BY <1>2 DEF Reads, Kept
  <1> QED
    BY <1>1, <1>2
    DEF ServeListClusters, ServeGetCluster, ServeListAutoScalingGroups,
        ServeListLoadBalancers, ServeListApplications,
        ServeListApplicationVersions, ServeGetApplicationVersion,
        Unimplemented, Kept

Held ==
    \A k \in DOMAIN applicationVersions :
        /\ k \in DOMAIN applicationVersions'
        /\ applicationVersions'[k] = applicationVersions[k]

LEMMA NextIInv == IInv /\ [Next]_vars => IInv' /\ Held
  <1> SUFFICES ASSUME IInv, [Next]_vars PROVE IInv' /\ Held
    OBVIOUS
  <1>1. ASSUME UNCHANGED Kept PROVE IInv' /\ Held
    BY <1>1, Unchanged DEF Kept, Held
  <1>2. CASE UNCHANGED vars
    BY <1>1, <1>2 DEF vars, Kept
  <1>3. ASSUME NEW req \in ClusterRequests, ServeCreateCluster(req)
        PROVE  IInv' /\ Held
    BY <1>3, CreateClusterIInv DEF ServeCreateCluster, Fails, Held
  <1>4. ASSUME NEW id \in IDs, NEW req \in UpdateRequests,
               ServeUpdateCluster(id, req)
        PROVE  IInv' /\ Held
    BY <1>4, UpdateClusterIInv DEF ServeUpdateCluster, Fails, Held
  <1>5. ASSUME NEW req \in ApplicationRequests, ServeCreateApplication(req)
        PROVE  IInv' /\ Held
    BY <1>5, CreateApplicationIInv DEF ServeCreateApplication, Fails, Held
  <1>6. ASSUME NEW id \in IDs, NEW req \in Bodies,
               ServeCreateApplicationVersion(id, req)
        PROVE  IInv' /\ Held
    BY <1>6, CreateVersionIInv DEF Held
  <1>7. ASSUME NEW id \in IDs, NEW n \in Numbers \cup {Null},
               ServeUpdateApplication(id, n)
        PROVE  IInv' /\ Held
    BY <1>7, UpdateApplicationIInv DEF ServeUpdateApplication, Fails, Held
  <1>8. ASSUME \/ ServeListClusters
               \/ \E id \in IDs : ServeGetCluster(id)
               \/ ServeListAutoScalingGroups \/ ServeListLoadBalancers
               \/ \E id \in IDs \cup {None} : ServeListApplications(id)
               \/ \E id \in IDs : ServeListApplicationVersions(id)
               \/ \E id \in IDs, n \in Numbers :
                    ServeGetApplicationVersion(id, n)
               \/ Unimplemented
        PROVE  IInv' /\ Held
    <2>1. UNCHANGED Kept
      BY <1>8, ReadersKeep
    <2> QED
      BY <2>1, <1>1
  <1> QED
    BY <1>2, <1>3, <1>4, <1>5, <1>6, <1>7, <1>8 DEF Next

\* The inductive invariant of the mock's handlers: the maps have their types, the names
\* are unique, and the next number of an application is above all it has given.
THEOREM MockInvariant == Spec => []IInv
  BY InitIInv, NextIInv, PTL DEF Spec

\* The mock's maps keep their types.
THEOREM MockTypeCorrect == Spec => []TypeOK
  BY MockInvariant, PTL DEF IInv

\* However the handlers are called, no two clusters share a name, and no two
\* applications of one cluster.
THEOREM MockNamesUnique == Spec => []NamesUnique
  BY MockInvariant, PTL DEF IInv

\* No handler changes or loses a version that has been stored: a post takes a
\* number above all of its application's.
THEOREM MockVersionsKept == Spec => VersionsKept
  <1>1. IInv /\ [Next]_vars => [Held]_vars
    BY NextIInv
  <1>2. Spec => [][Held]_vars
    BY <1>1, MockInvariant, PTL DEF Spec
  <1> QED
    BY <1>2 DEF VersionsKept, Held


-----------------------------------------------------------------------------
(***************************************************************************)
(* The messages that tell of applications and versions, as they arrive.    *)
(***************************************************************************)

LEMMA NoMessageHasNoFields == DOMAIN NoMessage.fields = {}
  BY DEF NoMessage, Message

\* The number of a posted version.
LEMMA NumberTold ==
  ASSUME NEW n
  PROVE  LET op == "CreateApplicationVersion"
             m == [applicationVersion |-> [version |-> n]]
         IN  /\ Answers[op].message # NoMessage /\ IsMessage(Answers[op].message, m)
             /\ SameBody(Answers[op].message, m).applicationVersion.version = n
<1> DEFINE T == CreateApplicationVersionResponse
           R == ReadApplicationVersionSummary
           m == [applicationVersion |-> [version |-> n]]
<1>1. Answers["CreateApplicationVersion"].message = T
  BY DEF Answers, CreateApplicationVersionAnswer, Answer
<1>2. /\ DOMAIN T.fields = {"applicationVersion"}
      /\ T.fields["applicationVersion"] = [kind |-> "value", of |-> R]
  BY DEF CreateApplicationVersionResponse, Message, One, Field
<1>3. /\ DOMAIN R.fields = {"version"}
      /\ R.fields["version"] = [kind |-> "value", of |-> NoMessage]
  BY DEF ReadApplicationVersionSummary, Message, Value, Of
<1>4. T # NoMessage /\ R # NoMessage
  BY <1>2, <1>3, NoMessageHasNoFields
<1> HIDE DEF T, R
<1>5. IsA3(R, [version |-> n])
  BY <1>3 DEF IsA3, IsA, IsList, InEach
<1>6. IsMessage(T, m)
  BY <1>2, <1>5 DEF IsMessage, IsA, IsList, InEach
<1>7. Same3(R, [version |-> n]).version = n
  BY <1>3 DEF Same3, Arrives, Empty, Inside
<1>8. Same(T, m).applicationVersion = Same3(R, [version |-> n])
  BY <1>2, <1>4 DEF Same, Arrives, Empty, Inside, IsList
<1>9. SameBody(T, m).applicationVersion.version = n
  BY <1>4, <1>7, <1>8 DEF SameBody
<1> QED
  BY <1>1, <1>4, <1>6, <1>9

\* The identifier of an application that was created.
LEMMA ApplicationTold ==
  ASSUME NEW id
  PROVE  LET op == "CreateApplication"
             m == [application |-> [applicationID |-> id]]
         IN  /\ Answers[op].message # NoMessage /\ IsMessage(Answers[op].message, m)
             /\ SameBody(Answers[op].message, m).application.applicationID = id
<1> DEFINE T == CreateApplicationResponse
           R == CreatedApplication
           m == [application |-> [applicationID |-> id]]
<1>1. Answers["CreateApplication"].message = T
  BY DEF Answers, CreateApplicationAnswer, Answer
<1>2. /\ DOMAIN T.fields = {"application"}
      /\ T.fields["application"] = [kind |-> "value", of |-> R]
  BY DEF CreateApplicationResponse, Message, One, Field
<1>3. /\ DOMAIN R.fields = {"applicationID"}
      /\ R.fields["applicationID"] = [kind |-> "value", of |-> NoMessage]
  BY DEF CreatedApplication, Message, Value, Of
<1>4. T # NoMessage /\ R # NoMessage
  BY <1>2, <1>3, NoMessageHasNoFields
<1> HIDE DEF T, R
<1>5. IsA3(R, [applicationID |-> id])
  BY <1>3 DEF IsA3, IsA, IsList, InEach
<1>6. IsMessage(T, m)
  BY <1>2, <1>5 DEF IsMessage, IsA, IsList, InEach
<1>7. Same3(R, [applicationID |-> id]).applicationID = id
  BY <1>3 DEF Same3, Arrives, Empty, Inside
<1>8. Same(T, m).application = Same3(R, [applicationID |-> id])
  BY <1>2, <1>4 DEF Same, Arrives, Empty, Inside, IsList
<1>9. SameBody(T, m).application.applicationID = id
  BY <1>4, <1>7, <1>8 DEF SameBody
<1> QED
  BY <1>1, <1>4, <1>6, <1>9

\* The cluster an application was asked for.
LEMMA ClusterAsked ==
  ASSUME NEW m
  PROVE  SameBody(Sends["CreateApplication"].body, m).clusterID = m.clusterID
<1> DEFINE T == CreateApplication
<1>1. Sends["CreateApplication"].body = T
  BY DEF Sends, SendCreateApplication, Post, Send
<1>2. /\ DOMAIN T.fields = {"name", "clusterID"}
      /\ T.fields["clusterID"] = [kind |-> "value", of |-> NoMessage]
  BY DEF CreateApplication, Message, Value, Of
<1>3. T # NoMessage
  BY <1>2, NoMessageHasNoFields
<1> HIDE DEF T
<1>4. Same(T, m).clusterID = m.clusterID
  BY <1>2 DEF Same, Arrives, Empty, Inside
<1> QED
  BY <1>1, <1>3, <1>4 DEF SameBody

\* A listing arrives whole, each application with its identifier.
LEMMA ApplicationsTold ==
  ASSUME NEW n \in Nat, NEW list, DOMAIN list = 1..n, list \in Seq(Applications)
  PROVE  LET op == "ListApplications"
             m == [applications |-> list, nextCursor |-> None]
         IN  /\ Answers[op].message # NoMessage /\ IsMessage(Answers[op].message, m)
             /\ Each(SameBody(Answers[op].message, m).applications, "applicationID")
                    = Each(list, "applicationID")
<1> DEFINE T == ListApplicationResponse
           R == ReadApplicationDetail
           m == [applications |-> list, nextCursor |-> None]
<1>1. Answers["ListApplications"].message = T
  BY DEF Answers, ListApplicationsAnswer, Answer
<1>2. /\ DOMAIN T.fields = {"applications", "nextCursor"}
      /\ T.fields["applications"] = [kind |-> "list", of |-> R]
      /\ T.fields["nextCursor"] = [kind |-> "optional", of |-> NoMessage]
  BY DEF ListApplicationResponse, Message, ListOf, Optional, Of, Field, ++
<1>3. /\ DOMAIN R.fields = {"applicationID", "name", "clusterID", "clusterName",
                            "scalingCooldownSeconds", "activeVersion", "desiredCount"}
      /\ \A f \in DOMAIN R.fields : /\ R.fields[f].kind \in {"value", "nullable"}
                                    /\ R.fields[f].of = NoMessage
      /\ R.fields["applicationID"].kind = "value"
  BY DEF ReadApplicationDetail, Message, Value, Nullable, Of, ++
<1>4. T # NoMessage /\ R # NoMessage
  BY <1>2, <1>3, NoMessageHasNoFields
<1> HIDE DEF T, R
<1>5. Len(list) = n /\ \A i \in DOMAIN list : list[i] \in Applications
  BY LenProperties
<1>6. ASSUME NEW a \in Applications PROVE IsA3(R, a)
  <2>1. DOMAIN a = DOMAIN R.fields
    BY <1>3 DEF Applications
  <2> QED
    BY <1>3, <2>1 DEF IsA3, IsA, IsList, InEach
<1>7. IsMessage(T, m)
  BY <1>2, <1>5, <1>6 DEF IsMessage, IsA, IsList, InEach, Empty
<1>8. list # None
  BY ListsAssumption
<1>9. Same(T, m).applications = [i \in DOMAIN list |-> Same3(R, list[i])]
  <2> DEFINE field == T.fields["applications"]
  <2>1. m["applications"] = list /\ ~Empty(field, list)
    BY <1>2, <1>8 DEF Empty
  <2>2. Same(T, m)["applications"] = Inside(Same3, field, list)
    <3> HIDE DEF m
    <3> QED
      BY <1>2, <2>1 DEF Same, Arrives
  <2>3. Inside(Same3, field, list) = [i \in DOMAIN list |-> Same3(R, list[i])]
    BY <1>2, <1>4 DEF Inside, IsList
  <2> QED
    BY <2>2, <2>3
<1>10. ASSUME NEW a PROVE Same3(R, a).applicationID = a.applicationID
  BY <1>3 DEF Same3, Arrives, Empty, Inside
<1>11. Each(Same(T, m).applications, "applicationID") = Each(list, "applicationID")
  BY <1>9, <1>10 DEF Each
<1> QED
  BY <1>1, <1>4, <1>7, <1>11 DEF SameBody

\* So does a listing of versions, each with its number.
LEMMA VersionsTold ==
  ASSUME NEW n \in Nat, NEW list, DOMAIN list = 1..n, list \in Seq(Statuses)
  PROVE  LET op == "ListApplicationVersions"
             m == [versions |-> list, nextCursor |-> None]
         IN  /\ Answers[op].message # NoMessage /\ IsMessage(Answers[op].message, m)
             /\ Each(SameBody(Answers[op].message, m).versions, "version")
                    = Each(list, "version")
<1> DEFINE T == ListApplicationVersionResponse
           R == ApplicationVersionDeploymentStatus
           m == [versions |-> list, nextCursor |-> None]
<1>1. Answers["ListApplicationVersions"].message = T
  BY DEF Answers, ListApplicationVersionsAnswer, Answer
<1>2. /\ DOMAIN T.fields = {"versions", "nextCursor"}
      /\ T.fields["versions"] = [kind |-> "list", of |-> R]
      /\ T.fields["nextCursor"] = [kind |-> "optional", of |-> NoMessage]
  BY DEF ListApplicationVersionResponse, Message, ListOf, Optional, Of, Field, ++
<1>3. /\ DOMAIN R.fields = {"version", "image", "activeNodeCount", "created"}
      /\ \A f \in DOMAIN R.fields : R.fields[f] = [kind |-> "value", of |-> NoMessage]
  BY DEF ApplicationVersionDeploymentStatus, Message, Value, Of
<1>4. T # NoMessage /\ R # NoMessage
  BY <1>2, <1>3, NoMessageHasNoFields
<1> HIDE DEF T, R
<1>5. Len(list) = n /\ \A i \in DOMAIN list : list[i] \in Statuses
  BY LenProperties
<1>6. ASSUME NEW v \in Statuses PROVE IsA3(R, v)
  <2>1. DOMAIN v = DOMAIN R.fields
    BY <1>3 DEF Statuses
  <2> QED
    BY <1>3, <2>1 DEF IsA3, IsA, IsList, InEach
<1>7. IsMessage(T, m)
  BY <1>2, <1>5, <1>6 DEF IsMessage, IsA, IsList, InEach, Empty
<1>8. list # None
  BY ListsAssumption
<1>9. Same(T, m).versions = [i \in DOMAIN list |-> Same3(R, list[i])]
  <2> DEFINE field == T.fields["versions"]
  <2>1. m["versions"] = list /\ ~Empty(field, list)
    BY <1>2, <1>8 DEF Empty
  <2>2. Same(T, m)["versions"] = Inside(Same3, field, list)
    <3> HIDE DEF m
    <3> QED
      BY <1>2, <2>1 DEF Same, Arrives
  <2>3. Inside(Same3, field, list) = [i \in DOMAIN list |-> Same3(R, list[i])]
    BY <1>2, <1>4 DEF Inside, IsList
  <2> QED
    BY <2>2, <2>3
<1>10. ASSUME NEW v PROVE Same3(R, v).version = v.version
  BY <1>3 DEF Same3, Arrives, Empty, Inside
<1>11. Each(Same(T, m).versions, "version") = Each(list, "version")
  BY <1>9, <1>10 DEF Each
<1> QED
  BY <1>1, <1>4, <1>7, <1>11 DEF SameBody

\* A version that is read, as Same has it.
LEMMA VersionTold ==
  ASSUME NEW v, IsA3(ReadApplicationVersionDetail, v)
  PROVE  LET op == "GetApplicationVersion"
             m == [applicationVersion |-> v]
         IN  /\ Answers[op].message # NoMessage /\ IsMessage(Answers[op].message, m)
             /\ SameBody(Answers[op].message, m).applicationVersion
                    = Same3(ReadApplicationVersionDetail, v)
<1> DEFINE T == GetApplicationVersionResponse
           R == ReadApplicationVersionDetail
           m == [applicationVersion |-> v]
<1>1. Answers["GetApplicationVersion"].message = T
  BY DEF Answers, GetApplicationVersionAnswer, Answer
<1>2. /\ DOMAIN T.fields = {"applicationVersion"}
      /\ T.fields["applicationVersion"] = [kind |-> "value", of |-> R]
  <2>1. T.fields = One("applicationVersion", R)
    BY DEF GetApplicationVersionResponse, Message
  <2> HIDE DEF T, R
  <2> QED
    BY <2>1 DEF One, Field
<1>3. "version" \in DOMAIN R.fields
  BY DEF ReadApplicationVersionDetail, Message, Value, Of, ++
<1>4. T # NoMessage /\ R # NoMessage
  BY <1>2, <1>3, NoMessageHasNoFields
<1>5. IsA3(R, v)
  OBVIOUS
<1> HIDE DEF T, R
<1>6. IsMessage(T, m)
  BY <1>2, <1>5 DEF IsMessage, IsA, IsList, InEach
<1>7. Same(T, m).applicationVersion = Same3(R, v)
  BY <1>2, <1>4 DEF Same, Arrives, Empty, Inside, IsList
<1>8. SameBody(T, m).applicationVersion = Same3(R, v)
  BY <1>4, <1>7 DEF SameBody
<1> QED
  BY <1>1, <1>4, <1>6, <1>8 DEF R

-----------------------------------------------------------------------------
(***************************************************************************)
(* A version as it was posted, as it is stored and as it is read.          *)
(***************************************************************************)
Lists == {"exposedPorts", "env"}

\* All other fields hold a scalar, and cmd a list of them.
ScalarsBut(fields) ==
  \A f \in DOMAIN fields \ Lists :
    /\ fields[f].of = NoMessage /\ fields[f].kind # "list"
    /\ f # "cmd" => fields[f].kind # "optlist"

PostedPlain == {"cpu", "memory", "scalingMode", "image", "registryPasswordAction"}
DetailPlain ==
  {"version", "cpu", "memory", "scalingMode", "image", "activeNodeCount", "created"}

\* The fields of a version that is posted, and those of one that is read.
LEMMA PostedFields ==
  LET T == CreateApplicationVersion
  IN  /\ DOMAIN T.fields = PostedPlain \cup
            {"fixedScale", "minScale", "maxScale", "scaleInThreshold",
             "scaleOutThreshold", "cmd", "registryUsername", "registryPassword",
             "exposedPorts", "env"}
      /\ ScalarsBut(T.fields) /\ T.fields["cmd"].kind = "optlist"
      /\ T.fields["exposedPorts"] = [kind |-> "list", of |-> ExposedPort]
      /\ T.fields["env"] = [kind |-> "list", of |-> CreateEnvironmentVariable]
<1> DEFINE T == CreateApplicationVersion
           a == Value(PostedPlain)
           b == a ++ Optional({"fixedScale", "minScale", "maxScale",
                               "scaleInThreshold", "scaleOutThreshold"})
           c == b ++ OptList({"cmd"})
           d == c ++ Nullable({"registryUsername", "registryPassword"})
           e == d ++ ListOf("exposedPorts", ExposedPort)
           g == e ++ ListOf("env", CreateEnvironmentVariable)
<1>1. T.fields = g
  BY DEF CreateApplicationVersion, Message, PostedPlain
<1>2. ScalarsBut(a) /\ DOMAIN a = PostedPlain
  BY DEF ScalarsBut, Value, Of, Lists
<1> HIDE DEF a
<1>3. /\ ScalarsBut(b)
      /\ DOMAIN b = DOMAIN a \cup {"fixedScale", "minScale", "maxScale",
                                   "scaleInThreshold", "scaleOutThreshold"}
  BY <1>2 DEF ScalarsBut, Optional, Of, ++
<1> HIDE DEF b
<1>4. /\ ScalarsBut(c) /\ DOMAIN c = DOMAIN b \cup {"cmd"}
      /\ c["cmd"].kind = "optlist"
  BY <1>2, <1>3 DEF ScalarsBut, OptList, Of, ++, Lists, PostedPlain
<1> HIDE DEF c
<1>5. /\ ScalarsBut(d) /\ d["cmd"].kind = "optlist"
      /\ DOMAIN d = DOMAIN c \cup {"registryUsername", "registryPassword"}
  BY <1>4 DEF ScalarsBut, Nullable, Of, ++
<1> HIDE DEF d
<1>6. /\ ScalarsBut(e) /\ e["cmd"].kind = "optlist"
      /\ DOMAIN e = DOMAIN d \cup {"exposedPorts"}
      /\ e["exposedPorts"] = [kind |-> "list", of |-> ExposedPort]
  BY <1>2, <1>3, <1>4, <1>5 DEF ScalarsBut, ListOf, Field, ++, Lists, PostedPlain
<1> HIDE DEF e
<1>7. /\ ScalarsBut(g) /\ g["cmd"].kind = "optlist"
      /\ DOMAIN g = DOMAIN e \cup {"env"}
      /\ g["exposedPorts"] = [kind |-> "list", of |-> ExposedPort]
      /\ g["env"] = [kind |-> "list", of |-> CreateEnvironmentVariable]
  BY <1>2, <1>3, <1>4, <1>5, <1>6 DEF ScalarsBut, ListOf, Field, ++, Lists, PostedPlain
<1> HIDE DEF g
<1>8. /\ ScalarsBut(T.fields) /\ T.fields["cmd"].kind = "optlist"
      /\ DOMAIN T.fields = DOMAIN a
            \cup {"fixedScale", "minScale", "maxScale", "scaleInThreshold",
                  "scaleOutThreshold", "cmd", "registryUsername", "registryPassword",
                  "exposedPorts", "env"}
      /\ T.fields["exposedPorts"] = [kind |-> "list", of |-> ExposedPort]
      /\ T.fields["env"] = [kind |-> "list", of |-> CreateEnvironmentVariable]
  BY <1>1, <1>3, <1>4, <1>5, <1>6, <1>7
<1> HIDE DEF T
<1>9. DOMAIN T.fields = PostedPlain \cup
        {"fixedScale", "minScale", "maxScale", "scaleInThreshold",
         "scaleOutThreshold", "cmd", "registryUsername", "registryPassword",
         "exposedPorts", "env"}
  BY <1>2, <1>8
<1> QED
  BY <1>8, <1>9 DEF T

LEMMA DetailFields ==
  LET T == ReadApplicationVersionDetail
  IN  /\ DOMAIN T.fields = DetailPlain \cup
            {"fixedScale", "minScale", "maxScale", "scaleInThreshold",
             "scaleOutThreshold", "cmd", "registryUsername", "registryPassword",
             "exposedPorts", "env"}
      /\ ScalarsBut(T.fields) /\ T.fields["cmd"].kind = "optlist"
      /\ T.fields["exposedPorts"] = [kind |-> "list", of |-> ExposedPort]
      /\ T.fields["env"] = [kind |-> "list", of |-> ReadEnvironmentVariable]
<1> DEFINE T == ReadApplicationVersionDetail
           a == Value(DetailPlain)
           b == a ++ Optional({"fixedScale", "minScale", "maxScale",
                               "scaleInThreshold", "scaleOutThreshold"})
           c == b ++ OptList({"cmd"})
           d == c ++ Nullable({"registryUsername", "registryPassword"})
           e == d ++ ListOf("exposedPorts", ExposedPort)
           g == e ++ ListOf("env", ReadEnvironmentVariable)
<1>1. T.fields = g
  BY DEF ReadApplicationVersionDetail, Message, DetailPlain
<1>2. ScalarsBut(a) /\ DOMAIN a = DetailPlain
  BY DEF ScalarsBut, Value, Of, Lists
<1> HIDE DEF a
<1>3. /\ ScalarsBut(b)
      /\ DOMAIN b = DOMAIN a \cup {"fixedScale", "minScale", "maxScale",
                                   "scaleInThreshold", "scaleOutThreshold"}
  BY <1>2 DEF ScalarsBut, Optional, Of, ++
<1> HIDE DEF b
<1>4. /\ ScalarsBut(c) /\ DOMAIN c = DOMAIN b \cup {"cmd"}
      /\ c["cmd"].kind = "optlist"
  BY <1>2, <1>3 DEF ScalarsBut, OptList, Of, ++, Lists, DetailPlain
<1> HIDE DEF c
<1>5. /\ ScalarsBut(d) /\ d["cmd"].kind = "optlist"
      /\ DOMAIN d = DOMAIN c \cup {"registryUsername", "registryPassword"}
  BY <1>4 DEF ScalarsBut, Nullable, Of, ++
<1> HIDE DEF d
<1>6. /\ ScalarsBut(e) /\ e["cmd"].kind = "optlist"
      /\ DOMAIN e = DOMAIN d \cup {"exposedPorts"}
      /\ e["exposedPorts"] = [kind |-> "list", of |-> ExposedPort]
  BY <1>2, <1>3, <1>4, <1>5 DEF ScalarsBut, ListOf, Field, ++, Lists, DetailPlain
<1> HIDE DEF e
<1>7. /\ ScalarsBut(g) /\ g["cmd"].kind = "optlist"
      /\ DOMAIN g = DOMAIN e \cup {"env"}
      /\ g["exposedPorts"] = [kind |-> "list", of |-> ExposedPort]
      /\ g["env"] = [kind |-> "list", of |-> ReadEnvironmentVariable]
  BY <1>2, <1>3, <1>4, <1>5, <1>6 DEF ScalarsBut, ListOf, Field, ++, Lists, DetailPlain
<1> HIDE DEF g
<1>8. /\ ScalarsBut(T.fields) /\ T.fields["cmd"].kind = "optlist"
      /\ DOMAIN T.fields = DOMAIN a
            \cup {"fixedScale", "minScale", "maxScale", "scaleInThreshold",
                  "scaleOutThreshold", "cmd", "registryUsername", "registryPassword",
                  "exposedPorts", "env"}
      /\ T.fields["exposedPorts"] = [kind |-> "list", of |-> ExposedPort]
      /\ T.fields["env"] = [kind |-> "list", of |-> ReadEnvironmentVariable]
  BY <1>1, <1>3, <1>4, <1>5, <1>6, <1>7
<1> HIDE DEF T
<1>9. DOMAIN T.fields = DetailPlain \cup
        {"fixedScale", "minScale", "maxScale", "scaleInThreshold",
         "scaleOutThreshold", "cmd", "registryUsername", "registryPassword",
         "exposedPorts", "env"}
  BY <1>2, <1>8
<1> QED
  BY <1>8, <1>9 DEF T

\* A port that arrived is a port.
LEMMA PortArrives ==
  ASSUME NEW p, IsA3(ExposedPort, p)
  PROVE  IsA2(ExposedPort, Same3(ExposedPort, p))
<1> DEFINE T == ExposedPort
           H == HealthCheck
           q == Same3(T, p)
<1>1. /\ DOMAIN T.fields = {"targetPort", "useLetsEncrypt", "loadBalancerPort",
                            "host", "healthCheck"}
      /\ \A f \in {"targetPort", "useLetsEncrypt", "loadBalancerPort"} :
            T.fields[f].of = NoMessage /\ T.fields[f].kind \in {"value", "nullable"}
      /\ T.fields["host"] = [kind |-> "optlist", of |-> NoMessage]
      /\ T.fields["healthCheck"] = [kind |-> "nullable", of |-> H]
  BY DEF ExposedPort, Message, Value, Nullable, OptList, NullableOf, Of, Field, ++
<1>2. /\ DOMAIN H.fields = {"path", "intervalSeconds", "timeoutSeconds"}
      /\ \A f \in DOMAIN H.fields : H.fields[f] = [kind |-> "value", of |-> NoMessage]
  BY DEF HealthCheck, Message, Value, Of
<1>3. H # NoMessage
  BY <1>2, NoMessageHasNoFields
<1> HIDE DEF T, H
<1>4. ASSUME NEW h PROVE IsA1(H, Same2(H, h))
  BY <1>2 DEF IsA1, IsA, IsList, InEach, Same2, Arrives
<1>5. DOMAIN q = DOMAIN T.fields
  BY DEF Same3, Arrives
<1>6. /\ q["host"] = p["host"]
      /\ q["healthCheck"] = IF Empty(T.fields["healthCheck"], p["healthCheck"])
                            THEN p["healthCheck"] ELSE Same2(H, p["healthCheck"])
  BY <1>1, <1>3 DEF Same3, Arrives, Inside, IsList
<1>7. \/ Empty(T.fields["host"], q["host"])
      \/ Len(q["host"]) \in Nat /\ DOMAIN q["host"] = 1..Len(q["host"])
  BY <1>1, <1>6 DEF IsA3, IsA, IsList
<1> HIDE DEF q
<1>8. ASSUME NEW f \in DOMAIN T.fields
      PROVE  \/ Empty(T.fields[f], q[f])
             \/ /\ IsList(T.fields[f]) => Len(q[f]) \in Nat /\ DOMAIN q[f] = 1..Len(q[f])
                /\ InEach(IsA1, T.fields[f], q[f])
  <2>1. CASE f = "host"
    BY <1>1, <1>7, <2>1 DEF InEach
  <2>2. CASE f = "healthCheck"
    BY <1>1, <1>4, <1>6, <2>2 DEF InEach, IsList
  <2>3. CASE f \notin {"host", "healthCheck"}
    BY <1>1, <1>8, <2>3 DEF InEach, IsList
  <2> QED
    BY <2>1, <2>2, <2>3
<1>9. IsA2(T, q)
  BY <1>5, <1>8 DEF IsA2, IsA
<1> QED
  BY <1>9 DEF q, T

\* A port arrives, and is stored and read, as it was posted.
LEMMA PortKept ==
  ASSUME NEW p
  PROVE  Same2(ExposedPort, Same3(ExposedPort, p)) = PortRead(p)
<1> DEFINE T == ExposedPort
           H == HealthCheck
           q == Same3(T, p)
           r == Same2(T, q)
<1>1. /\ DOMAIN T.fields = {"targetPort", "useLetsEncrypt", "loadBalancerPort",
                            "host", "healthCheck"}
      /\ \A f \in DOMAIN T.fields \ {"healthCheck"} :
            T.fields[f].of = NoMessage /\ T.fields[f].kind # "list"
      /\ T.fields["healthCheck"] = [kind |-> "nullable", of |-> H]
  BY DEF ExposedPort, Message, Value, Nullable, OptList, NullableOf, Of, Field, ++
<1>2. /\ DOMAIN H.fields = {"path", "intervalSeconds", "timeoutSeconds"}
      /\ \A f \in DOMAIN H.fields : H.fields[f] = [kind |-> "value", of |-> NoMessage]
  BY DEF HealthCheck, Message, Value, Of
<1>3. H # NoMessage
  BY <1>2, NoMessageHasNoFields
<1> HIDE DEF T, H
<1> DEFINE Check(h) == [path |-> h.path, intervalSeconds |-> h.intervalSeconds,
                        timeoutSeconds |-> h.timeoutSeconds]
\* A health check, through either encoding.
<1>4. ASSUME NEW h
      PROVE  Same2(H, h) = Check(h) /\ Same1(H, h) = Check(h)
  <2>1. Same2(H, h) = [f \in DOMAIN H.fields |-> h[f]]
    BY <1>2 DEF Same2, Arrives, Inside
  <2>2. Same1(H, h) = [f \in DOMAIN H.fields |-> h[f]]
    BY <1>2 DEF Same1, Arrives, Inside
  <2>3. Check(h) = [f \in {"path", "intervalSeconds", "timeoutSeconds"} |-> h[f]]
    OBVIOUS
  <2> HIDE DEF Check
  <2> QED
    BY <1>2, <2>1, <2>2, <2>3, Zenon
\* The port, through both.
<1>5. ASSUME NEW f \in DOMAIN T.fields \ {"healthCheck"}
      PROVE  q[f] = p[f]
  BY <1>1, <1>5 DEF Same3, Arrives, Inside
<1>6. q["healthCheck"] = IF p["healthCheck"] = Null THEN Null
                         ELSE Same2(H, p["healthCheck"])
  BY <1>1, <1>3 DEF Same3, Arrives, Empty, Inside, IsList
<1> HIDE DEF q
<1>7. ASSUME NEW f \in DOMAIN T.fields \ {"healthCheck"}
      PROVE  r[f] = q[f]
  BY <1>1, <1>7 DEF Same2, Arrives, Inside
<1>8. r["healthCheck"] = IF q["healthCheck"] = Null THEN Null
                         ELSE Same1(H, q["healthCheck"])
  BY <1>1, <1>3 DEF Same2, Arrives, Empty, Inside, IsList
<1>9. r = [f \in DOMAIN T.fields |-> r[f]]
  BY DEF Same2, Arrives
<1> HIDE DEF r
<1>10. \A h : Check(Check(h)) = Check(h)
  OBVIOUS
<1>11. r["healthCheck"] = IF p["healthCheck"] = Null THEN Null ELSE Check(p["healthCheck"])
  <2> HIDE DEF Check
  <2> QED
    BY <1>4, <1>6, <1>8, <1>10
<1>12. PortRead(p) = [f \in {"targetPort", "useLetsEncrypt", "loadBalancerPort",
                             "host", "healthCheck"} |-> PortRead(p)[f]]
  BY DEF PortRead
<1>13. \A f \in DOMAIN T.fields : r[f] = PortRead(p)[f]
  <2>1. ASSUME NEW f \in DOMAIN T.fields \ {"healthCheck"} PROVE PortRead(p)[f] = p[f]
    BY <1>1 DEF PortRead
  <2>2. PortRead(p)["healthCheck"] = r["healthCheck"]
    BY <1>11 DEF PortRead
  <2> QED
    BY <1>5, <1>7, <2>1, <2>2
<1>14. r = PortRead(p)
  <2>1. DOMAIN T.fields = {"targetPort", "useLetsEncrypt", "loadBalancerPort",
                           "host", "healthCheck"}
    BY <1>1
  <2> QED
    BY <1>9, <1>12, <1>13, <2>1, Zenon
<1> QED
  BY <1>14 DEF q, r, T

\* A variable of the environment arrives, and is stored and read, with its name, its
\* value and whether it is a secret.
LEMMA VariableRead ==
  ASSUME NEW e
  PROVE  LET was == EnvRead(Same3(CreateEnvironmentVariable, e))
         IN  /\ IsA2(ReadEnvironmentVariable, was)
             /\ Same2(ReadEnvironmentVariable, was) = EnvRead(e)
<1> DEFINE C == CreateEnvironmentVariable
           R == ReadEnvironmentVariable
           was == EnvRead(Same3(C, e))
<1>1. /\ DOMAIN C.fields = {"key", "secret", "value"}
      /\ \A f \in DOMAIN C.fields : /\ C.fields[f].of = NoMessage
                                    /\ C.fields[f].kind \in {"value", "optional"}
  BY DEF CreateEnvironmentVariable, Message, Value, Optional, Of, ++
<1>2. /\ DOMAIN R.fields = {"key", "secret", "value"}
      /\ \A f \in DOMAIN R.fields : /\ R.fields[f].of = NoMessage
                                    /\ R.fields[f].kind \in {"value", "nullable"}
  BY DEF ReadEnvironmentVariable, Message, Value, Nullable, Of, ++
<1> HIDE DEF C, R
<1>3. /\ Same3(C, e).key = e.key /\ Same3(C, e).value = e.value
      /\ Same3(C, e).secret = e.secret
  BY <1>1 DEF Same3, Arrives, Inside
<1>4. was = EnvRead(e)
  BY <1>3 DEF EnvRead
<1>5. DOMAIN was = {"key", "value", "secret"}
  BY DEF EnvRead
<1> HIDE DEF was
<1>6. IsA2(R, was)
  BY <1>2, <1>5 DEF IsA2, IsA, IsList, InEach
<1>7. \A f \in DOMAIN R.fields : Same2(R, was)[f] = was[f]
  BY <1>2 DEF Same2, Arrives, Inside
<1>8. Same2(R, was) = [f \in DOMAIN R.fields |-> was[f]]
  BY <1>2 DEF Same2, Arrives, Inside
<1>9. was = [f \in {"key", "value", "secret"} |-> was[f]]
  BY <1>4 DEF EnvRead
<1>10. Same2(R, was) = was
  <2>1. DOMAIN R.fields = {"key", "value", "secret"}
    BY <1>2
  <2> QED
    BY <2>1, <1>8, <1>9, Zenon
<1> QED
  BY <1>4, <1>6, <1>10 DEF was, C, R

\* What the caller of GetApplicationVersion has of what was sent.
AsSent(sent, detail) ==
  /\ \A f \in (DOMAIN sent \cap DOMAIN detail)
                 \ {"registryPassword", "env", "exposedPorts"} : detail[f] = sent[f]
  /\ detail.registryPassword = Null
  /\ detail.exposedPorts = IF sent.exposedPorts = None THEN <<>>
                           ELSE [n \in DOMAIN sent.exposedPorts |->
                                   PortRead(sent.exposedPorts[n])]
  /\ detail.env = IF sent.env = None THEN <<>>
                  ELSE [n \in DOMAIN sent.env |-> EnvRead(sent.env[n])]

\* What is posted, is stored and is read.
LEMMA PostArrives ==
  ASSUME NEW m, IsMessage(CreateApplicationVersion, m)
  PROVE  LET b == Same(CreateApplicationVersion, m)
         IN  /\ DOMAIN b = DOMAIN m /\ DOMAIN m = DOMAIN CreateApplicationVersion.fields
             /\ \A f \in DOMAIN m \ Lists : b[f] = m[f]
             /\ m.exposedPorts = None => b.exposedPorts = <<>>
             /\ m.exposedPorts # None =>
                  /\ b.exposedPorts = [i \in DOMAIN m.exposedPorts |->
                                         Same3(ExposedPort, m.exposedPorts[i])]
                  /\ Len(m.exposedPorts) \in Nat
                  /\ DOMAIN m.exposedPorts = 1..Len(m.exposedPorts)
                  /\ \A i \in DOMAIN m.exposedPorts :
                        IsA3(ExposedPort, m.exposedPorts[i])
             /\ m.env = None => b.env = <<>>
             /\ m.env # None =>
                  /\ b.env = [i \in DOMAIN m.env |->
                                Same3(CreateEnvironmentVariable, m.env[i])]
                  /\ Len(m.env) \in Nat /\ DOMAIN m.env = 1..Len(m.env)
             /\ \/ m.cmd = None
                \/ Len(m.cmd) \in Nat /\ DOMAIN m.cmd = 1..Len(m.cmd)
<1> DEFINE T == CreateApplicationVersion
           P == ExposedPort
           V == CreateEnvironmentVariable
           b == Same(T, m)
<1>1. /\ DOMAIN T.fields = PostedPlain \cup
            {"fixedScale", "minScale", "maxScale", "scaleInThreshold",
             "scaleOutThreshold", "cmd", "registryUsername", "registryPassword",
             "exposedPorts", "env"}
      /\ ScalarsBut(T.fields) /\ T.fields["cmd"].kind = "optlist"
      /\ T.fields["exposedPorts"] = [kind |-> "list", of |-> P]
      /\ T.fields["env"] = [kind |-> "list", of |-> V]
  BY PostedFields
<1>2. P # NoMessage /\ V # NoMessage
  <2>1. "host" \in DOMAIN P.fields
    BY DEF ExposedPort, Message, Value, Nullable, OptList, NullableOf, Of, Field, ++
  <2>2. "key" \in DOMAIN V.fields
    BY DEF CreateEnvironmentVariable, Message, Value, Optional, Of, ++
  <2> QED
    BY <2>1, <2>2, NoMessageHasNoFields
<1> HIDE DEF T, P, V
<1>3. DOMAIN m = DOMAIN T.fields /\ DOMAIN b = DOMAIN T.fields
  BY DEF IsMessage, IsA, Same, Arrives, T
<1>4. ASSUME NEW f \in DOMAIN T.fields
      PROVE  /\ \/ Empty(T.fields[f], m[f])
                \/ /\ IsList(T.fields[f]) =>
                        Len(m[f]) \in Nat /\ DOMAIN m[f] = 1..Len(m[f])
                   /\ InEach(IsA3, T.fields[f], m[f])
             /\ b[f] = IF ~Empty(T.fields[f], m[f]) THEN Inside(Same3, T.fields[f], m[f])
                       ELSE IF T.fields[f].kind = "list" THEN <<>> ELSE m[f]
  BY DEF IsMessage, IsA, Same, Arrives, T
<1> HIDE DEF b
<1>5. \A f \in DOMAIN m \ Lists : b[f] = m[f]
  BY <1>1, <1>3, <1>4 DEF ScalarsBut, Inside
<1>6. ASSUME m.exposedPorts # None
      PROVE  /\ b.exposedPorts = [i \in DOMAIN m.exposedPorts |-> Same3(P, m.exposedPorts[i])]
             /\ Len(m.exposedPorts) \in Nat
             /\ DOMAIN m.exposedPorts = 1..Len(m.exposedPorts)
             /\ \A i \in DOMAIN m.exposedPorts : IsA3(P, m.exposedPorts[i])
  <2> DEFINE field == T.fields["exposedPorts"]
  <2>1. ~Empty(field, m.exposedPorts)
    BY <1>1, <1>6 DEF Empty
  <2>2. /\ IsList(field) => /\ Len(m.exposedPorts) \in Nat
                            /\ DOMAIN m.exposedPorts = 1..Len(m.exposedPorts)
        /\ InEach(IsA3, field, m.exposedPorts)
        /\ b.exposedPorts = Inside(Same3, field, m.exposedPorts)
    BY <1>1, <1>4, <2>1
  <2> QED
    BY <1>1, <1>2, <2>2 DEF IsList, Inside, InEach
<1>7. m.exposedPorts = None => b.exposedPorts = <<>>
  BY <1>1, <1>4 DEF Empty
<1>8. ASSUME m.env # None
      PROVE  /\ b.env = [i \in DOMAIN m.env |-> Same3(V, m.env[i])]
             /\ Len(m.env) \in Nat /\ DOMAIN m.env = 1..Len(m.env)
  <2> DEFINE field == T.fields["env"]
  <2>1. ~Empty(field, m.env)
    BY <1>1, <1>8 DEF Empty
  <2>2. /\ IsList(field) => Len(m.env) \in Nat /\ DOMAIN m.env = 1..Len(m.env)
        /\ b.env = Inside(Same3, field, m.env)
    BY <1>1, <1>4, <2>1
  <2> QED
    BY <1>1, <1>2, <2>2 DEF IsList, Inside
<1>9. m.env = None => b.env = <<>>
  BY <1>1, <1>4 DEF Empty
<1>10. \/ m.cmd = None
       \/ Len(m.cmd) \in Nat /\ DOMAIN m.cmd = 1..Len(m.cmd)
  BY <1>1, <1>4 DEF Empty, IsList
<1> QED
  BY <1>3, <1>5, <1>6, <1>7, <1>8, <1>9, <1>10 DEF b, T, P, V

\* As many elements as places.
LEMMA ListLength ==
  ASSUME NEW n \in Nat, NEW Elem(_)
  PROVE  LET list == [i \in 1..n |-> Elem(i)]
         IN  Len(list) = n /\ DOMAIN list = 1..n
<1> DEFINE list == [i \in 1..n |-> Elem(i)]
<1>1. list \in Seq({Elem(i) : i \in 1..n})
  OBVIOUS
<1> QED
  BY <1>1, LenProperties

\* A version is stored as a message that can be read, and is read as it was sent.
LEMMA VersionStored ==
  ASSUME NEW n, NEW m, IsMessage(CreateApplicationVersion, m),
         Same(CreateApplicationVersion, m) \in Bodies
  PROVE  LET v == Version(n, Same(CreateApplicationVersion, m))
         IN  /\ IsA3(ReadApplicationVersionDetail, v)
             /\ AsSent(m, Same3(ReadApplicationVersionDetail, v))
<1> DEFINE T == ReadApplicationVersionDetail
           P == ExposedPort
           R == ReadEnvironmentVariable
           b == Same(CreateApplicationVersion, m)
           v == Version(n, b)
           d == Same3(T, v)
<1>1. /\ DOMAIN T.fields = DetailPlain \cup
            {"fixedScale", "minScale", "maxScale", "scaleInThreshold",
             "scaleOutThreshold", "cmd", "registryUsername", "registryPassword",
             "exposedPorts", "env"}
      /\ ScalarsBut(T.fields) /\ T.fields["cmd"].kind = "optlist"
      /\ T.fields["exposedPorts"] = [kind |-> "list", of |-> P]
      /\ T.fields["env"] = [kind |-> "list", of |-> R]
  BY DetailFields
<1>2. P # NoMessage /\ R # NoMessage
  <2>1. "host" \in DOMAIN P.fields
    BY DEF ExposedPort, Message, Value, Nullable, OptList, NullableOf, Of, Field, ++
  <2>2. "key" \in DOMAIN R.fields
    BY DEF ReadEnvironmentVariable, Message, Value, Nullable, Of, ++
  <2> QED
    BY <2>1, <2>2, NoMessageHasNoFields
<1>3. /\ DOMAIN b = DOMAIN m /\ DOMAIN m = DOMAIN CreateApplicationVersion.fields
      /\ \A f \in DOMAIN m \ Lists : b[f] = m[f]
      /\ \/ m.cmd = None
         \/ Len(m.cmd) \in Nat /\ DOMAIN m.cmd = 1..Len(m.cmd)
  BY PostArrives
<1>4. DOMAIN CreateApplicationVersion.fields = PostedPlain \cup
        {"fixedScale", "minScale", "maxScale", "scaleInThreshold",
         "scaleOutThreshold", "cmd", "registryUsername", "registryPassword",
         "exposedPorts", "env"}
  BY PostedFields
<1>5. b.exposedPorts # None /\ v.env # None
  <2>1. v.env = Version(1, b).env
    BY DEF Version
  <2> QED
    BY <2>1, ListsAssumption
\* The ports that are stored.
<1>6. \E l \in Nat : /\ Len(b.exposedPorts) = l /\ DOMAIN b.exposedPorts = 1..l
                     /\ l = IF m.exposedPorts = None THEN 0 ELSE Len(m.exposedPorts)
                     /\ \A i \in 1..l : /\ IsA2(P, b.exposedPorts[i])
                                        /\ Same2(P, b.exposedPorts[i]) =
                                             PortRead(m.exposedPorts[i])
                     /\ m.exposedPorts # None => DOMAIN m.exposedPorts = 1..l
  <2>1. CASE m.exposedPorts = None
    <3>1. b.exposedPorts = <<>>
      BY <2>1, PostArrives
    <3> QED
      BY <2>1, <3>1
  <2>2. CASE m.exposedPorts # None
    <3> DEFINE l == Len(m.exposedPorts)
               Elem(i) == Same3(P, m.exposedPorts[i])
    <3>1. /\ b.exposedPorts = [i \in 1..l |-> Elem(i)] /\ l \in Nat
          /\ DOMAIN m.exposedPorts = 1..l
          /\ \A i \in 1..l : IsA3(P, m.exposedPorts[i])
      BY <2>2, PostArrives
    <3>2. \A i \in 1..l : IsA2(P, Elem(i)) /\ Same2(P, Elem(i)) = PortRead(m.exposedPorts[i])
      BY <3>1, PortArrives, PortKept
    <3> HIDE DEF l, Elem
    <3>3. /\ Len([i \in 1..l |-> Elem(i)]) = l
          /\ DOMAIN [i \in 1..l |-> Elem(i)] = 1..l
      BY <3>1, ListLength
    <3>4. /\ Len(b.exposedPorts) = l /\ DOMAIN b.exposedPorts = 1..l
          /\ \A i \in 1..l : b.exposedPorts[i] = Elem(i)
      BY <3>1, <3>3
    <3> QED
      BY <2>2, <3>1, <3>2, <3>4 DEF l
  <2> QED
    BY <2>1, <2>2
\* The environment that is stored.
<1>7. /\ v.env = [i \in DOMAIN b.env |-> EnvRead(b.env[i])]
      /\ v.exposedPorts = b.exposedPorts /\ v.cmd = b.cmd
      /\ v.registryPassword = Null
      /\ \A f \in DOMAIN b \ (Lists \cup {"registryPassword", "registryPasswordAction"}) :
            v[f] = b[f]
      /\ DOMAIN v = DOMAIN T.fields
  BY <1>1, <1>3, <1>4 DEF Version, Lists, PostedPlain, DetailPlain
<1>8. \E l \in Nat : /\ Len(v.env) = l /\ DOMAIN v.env = 1..l
                     /\ \A i \in 1..l : IsA2(R, v.env[i])
                     /\ [i \in 1..l |-> Same2(R, v.env[i])] =
                            IF m.env = None THEN <<>>
                            ELSE [i \in DOMAIN m.env |-> EnvRead(m.env[i])]
  <2>1. CASE m.env = None
    <3>1. b.env = <<>>
      BY <2>1, PostArrives
    <3>2. v.env = <<>>
      BY <1>7, <3>1
    <3>3. [i \in 1..0 |-> Same2(R, v.env[i])] = <<>>
      OBVIOUS
    <3> QED
      BY <2>1, <3>2, <3>3
  <2>2. CASE m.env # None
    <3> DEFINE l == Len(m.env)
               C == CreateEnvironmentVariable
               Elem(i) == EnvRead(Same3(C, m.env[i]))
    <3>1. /\ b.env = [i \in 1..l |-> Same3(C, m.env[i])] /\ l \in Nat
          /\ DOMAIN m.env = 1..l
      BY <2>2, PostArrives
    <3>2. \A i \in 1..l : IsA2(R, Elem(i)) /\ Same2(R, Elem(i)) = EnvRead(m.env[i])
      BY VariableRead
    <3>3. v.env = [i \in 1..l |-> Elem(i)]
      BY <1>7, <3>1
    <3> HIDE DEF l, Elem
    <3>4. /\ Len([i \in 1..l |-> Elem(i)]) = l
          /\ DOMAIN [i \in 1..l |-> Elem(i)] = 1..l
      BY <3>1, ListLength
    <3>5. /\ Len(v.env) = l /\ DOMAIN v.env = 1..l
          /\ \A i \in 1..l : v.env[i] = Elem(i)
      BY <3>3, <3>4
    <3>6. [i \in 1..l |-> Same2(R, v.env[i])] = [i \in DOMAIN m.env |-> EnvRead(m.env[i])]
      BY <3>1, <3>2, <3>5
    <3> QED
      BY <2>2, <3>1, <3>2, <3>5, <3>6
  <2> QED
    BY <2>1, <2>2
<1> HIDE DEF T, P, R, b, v
<1>9. IsA3(T, v)
  <2> SUFFICES ASSUME NEW f \in DOMAIN T.fields
               PROVE  \/ Empty(T.fields[f], v[f])
                      \/ /\ IsList(T.fields[f]) =>
                              Len(v[f]) \in Nat /\ DOMAIN v[f] = 1..Len(v[f])
                         /\ InEach(IsA2, T.fields[f], v[f])
    BY <1>7 DEF IsA3, IsA
  <2>1. CASE f = "exposedPorts"
    BY <1>1, <1>6, <1>7, <2>1 DEF InEach, IsList
  <2>2. CASE f = "env"
    BY <1>1, <1>8, <2>2 DEF InEach, IsList
  <2>3. CASE f = "cmd"
    <3>1. v.cmd = m.cmd
      BY <1>3, <1>4, <1>7 DEF Lists
    <3> QED
      BY <1>1, <1>3, <2>3, <3>1 DEF InEach, IsList, Empty, ScalarsBut, Lists
  <2>4. CASE f \notin {"cmd", "exposedPorts", "env"}
    BY <1>1, <2>4 DEF InEach, IsList, ScalarsBut, Lists
  <2> QED
    BY <2>1, <2>2, <2>3, <2>4
<1>10. ASSUME NEW f \in DOMAIN T.fields \ Lists
       PROVE  d[f] = v[f]
  BY <1>1, <1>10 DEF Same3, Arrives, Inside, ScalarsBut
<1>11. /\ d.exposedPorts = [i \in DOMAIN v.exposedPorts |-> Same2(P, v.exposedPorts[i])]
       /\ d.env = [i \in DOMAIN v.env |-> Same2(R, v.env[i])]
  <2>1. /\ ~Empty(T.fields["exposedPorts"], v.exposedPorts)
        /\ ~Empty(T.fields["env"], v.env)
    BY <1>1, <1>5, <1>7 DEF Empty
  <2>2. /\ d.exposedPorts = Inside(Same2, T.fields["exposedPorts"], v.exposedPorts)
        /\ d.env = Inside(Same2, T.fields["env"], v.env)
    BY <1>1, <2>1 DEF Same3, Arrives
  <2> QED
    BY <1>1, <1>2, <2>2 DEF Inside, IsList
<1>12. DOMAIN d = DOMAIN T.fields
  BY DEF Same3, Arrives
<1> HIDE DEF d
<1>13. \A f \in (DOMAIN m \cap DOMAIN d) \ {"registryPassword", "env", "exposedPorts"} :
          d[f] = m[f]
  BY <1>1, <1>3, <1>4, <1>7, <1>10, <1>12 DEF Lists, PostedPlain, DetailPlain
<1>14. d.registryPassword = Null
  BY <1>1, <1>7, <1>10 DEF Lists
<1>15. d.exposedPorts = IF m.exposedPorts = None THEN <<>>
                        ELSE [i \in DOMAIN m.exposedPorts |-> PortRead(m.exposedPorts[i])]
  <2>1. PICK l \in Nat :
          /\ DOMAIN b.exposedPorts = 1..l
          /\ l = IF m.exposedPorts = None THEN 0 ELSE Len(m.exposedPorts)
          /\ \A i \in 1..l : Same2(P, b.exposedPorts[i]) = PortRead(m.exposedPorts[i])
          /\ m.exposedPorts # None => DOMAIN m.exposedPorts = 1..l
    BY <1>6
  <2>2. d.exposedPorts = [i \in 1..l |-> PortRead(m.exposedPorts[i])]
    BY <1>7, <1>11, <2>1
  <2>3. CASE m.exposedPorts = None
    BY <2>1, <2>2, <2>3
  <2> QED
    BY <2>1, <2>2, <2>3
<1>16. d.env = IF m.env = None THEN <<>>
               ELSE [i \in DOMAIN m.env |-> EnvRead(m.env[i])]
  BY <1>8, <1>11
<1>17. AsSent(m, d)
  BY <1>13, <1>14, <1>15, <1>16 DEF AsSent
<1> QED
  BY <1>9, <1>17 DEF T, b, v, d

-----------------------------------------------------------------------------
(***************************************************************************)
(* The calls: what is made stays as it was made, and is answered once.     *)
(***************************************************************************)
Fields == {"client", "op", "call", "arrived", "before", "result"}

IsSequence(s) == s \in Seq({s[i] : i \in DOMAIN s})

Made(c) ==
  /\ DOMAIN c = Fields /\ c.op \in Called
  /\ \E made \in 0..(MaxCalls - 1) : c.call \in CallsOf(c.op, made)
  /\ c.arrived \in BOOLEAN /\ (~c.arrived => c.result \in {NotYet, Lost})

Shape ==
  /\ IsSequence(calls)
  /\ \A i \in DOMAIN calls : Made(calls[i]) /\ calls[i].before \subseteq Finished

LEMMA SequenceOf ==
  ASSUME NEW S, NEW n \in Nat, NEW t \in [1..n -> S]
  PROVE  t \in Seq(S)
  OBVIOUS

LEMMA OfItsOwn ==
  ASSUME NEW S, NEW t \in Seq(S)
  PROVE  IsSequence(t)
<1>1. Len(t) \in Nat /\ DOMAIN t = 1..Len(t) /\ t \in [1..Len(t) -> S]
  BY LenProperties
<1> DEFINE R == {t[i] : i \in DOMAIN t}
<1>2. \A i \in 1..Len(t) : t[i] \in R
  BY <1>1
<1> HIDE DEF R
<1>3. t \in [1..Len(t) -> R]
  BY <1>1, <1>2
<1>4. t \in Seq(R)
  BY <1>1, <1>3, SequenceOf
<1> QED
  BY <1>4 DEF R, IsSequence

LEMMA Appended ==
  ASSUME NEW s, IsSequence(s), NEW e
  PROVE  LET t == Append(s, e)
             n == Len(s) + 1
         IN  /\ IsSequence(t)
             /\ n \notin DOMAIN s /\ DOMAIN t = DOMAIN s \cup {n} /\ t[n] = e
             /\ \A i \in DOMAIN s : t[i] = s[i]
<1> USE DEF IsSequence
<1> DEFINE S == {s[i] : i \in DOMAIN s} \cup {e}
           t == Append(s, e)
           n == Len(s) + 1
<1>1. s \in Seq(S) /\ e \in S
  <2>1. \A i \in 1..Len(s) : s[i] \in S
    BY LenProperties
  <2> QED
    BY <2>1
<1> HIDE DEF S
<1>2. /\ t \in Seq(S) /\ Len(t) = n /\ t[n] = e
      /\ \A i \in 1..Len(s) : t[i] = s[i]
  BY <1>1
<1>3. Len(s) \in Nat /\ DOMAIN s = 1..Len(s) /\ DOMAIN t = 1..Len(t)
  BY <1>1, <1>2, LenProperties
<1> HIDE DEF t
<1>4. n \notin DOMAIN s /\ DOMAIN t = DOMAIN s \cup {n}
  BY <1>2, <1>3
<1>5. IsSequence(t)
  BY <1>2, <1>3
<1> QED
  BY <1>2, <1>3, <1>4, <1>5 DEF t

LEMMA Replaced ==
  ASSUME NEW s, IsSequence(s), NEW k \in DOMAIN s, NEW e,
         NEW t, t = [s EXCEPT ![k] = e]
  PROVE  /\ IsSequence(t)
         /\ DOMAIN t = DOMAIN s /\ t[k] = e
         /\ \A i \in DOMAIN s : i # k => t[i] = s[i]
<1> DEFINE S == {s[i] : i \in DOMAIN s} \cup {e}
           n == Len(s)
<1>1. n \in Nat /\ DOMAIN s = 1..n
  BY LenProperties DEF IsSequence
<1>2. /\ DOMAIN t = DOMAIN s /\ t[k] = e
      /\ \A i \in DOMAIN s : i # k => t[i] = s[i]
  OBVIOUS
<1>3. \A i \in 1..n : s[i] \in S
  BY <1>1
<1>4. e \in S
  OBVIOUS
<1> HIDE DEF S
<1>5. s \in Seq(S)
  BY <1>1, <1>3 DEF IsSequence
<1> HIDE DEF n
<1>6. s \in [1..n -> S]
  BY <1>1, <1>5, LenProperties
<1>7. [s EXCEPT ![k] = e] \in [1..n -> S]
  BY <1>4, <1>6
<1>8. t \in Seq(S)
  BY <1>1, <1>7, SequenceOf
<1>9. IsSequence(t)
  BY <1>8, OfItsOwn
<1> QED
  BY <1>2, <1>9

\* One call has its result, and nothing else of the calls changes.
Settles(i, arrived, r) ==
  /\ IsSequence(calls')
  /\ DOMAIN calls' = DOMAIN calls
  /\ \A k \in DOMAIN calls : k # i => calls'[k] = calls[k]
  /\ DOMAIN calls'[i] = Fields
  /\ calls'[i].op = calls[i].op /\ calls'[i].call = calls[i].call
  /\ calls'[i].before = calls[i].before
  /\ calls'[i].arrived = arrived /\ calls'[i].result = r

LEMMA ResponseSettles ==
  ASSUME Shape, NEW i \in DOMAIN calls, ~calls[i].arrived,
         NEW response, Respond(i, response)
  PROVE  \E r \in {Lost, Result(calls[i].op, response)} :
            /\ Settles(i, TRUE, r) /\ r # NotYet
            /\ calls[i].result # NotYet => r = calls[i].result
<1>1. PICK r \in {Lost, Result(calls[i].op, response)} :
        /\ calls' = [calls EXCEPT ![i].arrived = TRUE, ![i].result = r]
        /\ calls[i].result # NotYet => r = Lost
  BY DEF Respond
<1>2. r # NotYet
  BY ResultKinds
<1>3. Made(calls[i])
  BY DEF Shape
<1>4. calls[i].result # NotYet => r = calls[i].result
  BY <1>1, <1>3 DEF Made
<1> DEFINE e == [calls[i] EXCEPT !.arrived = TRUE, !.result = r]
<1>5. calls' = [calls EXCEPT ![i] = e]
  BY <1>1
<1>6. /\ DOMAIN e = Fields /\ e.arrived = TRUE /\ e.result = r
      /\ e.op = calls[i].op /\ e.call = calls[i].call /\ e.before = calls[i].before
  BY <1>3 DEF Made, Fields
<1> HIDE DEF e
<1>7. IsSequence(calls)
  BY DEF Shape
<1>8. /\ IsSequence(calls')
      /\ DOMAIN calls' = DOMAIN calls /\ calls'[i] = e
      /\ \A k \in DOMAIN calls : k # i => calls'[k] = calls[k]
  BY <1>5, <1>7, Replaced
<1>9. Settles(i, TRUE, r)
  BY <1>6, <1>8 DEF Settles
<1> QED
  BY <1>2, <1>4, <1>9

LEMMA GivingUpSettles ==
  ASSUME Shape, NEW i \in DOMAIN calls, GiveUp(i)
  PROVE  Settles(i, calls[i].arrived, Lost) /\ calls[i].result = NotYet
<1>1. calls[i].result = NotYet /\ calls' = [calls EXCEPT ![i].result = Lost]
  BY DEF GiveUp
<1>2. Made(calls[i])
  BY DEF Shape
<1> DEFINE e == [calls[i] EXCEPT !.result = Lost]
<1>3. calls' = [calls EXCEPT ![i] = e]
  BY <1>1
<1>4. /\ DOMAIN e = Fields /\ e.arrived = calls[i].arrived /\ e.result = Lost
      /\ e.op = calls[i].op /\ e.call = calls[i].call /\ e.before = calls[i].before
  BY <1>2 DEF Made, Fields
<1> HIDE DEF e
<1>5. IsSequence(calls)
  BY DEF Shape
<1>6. /\ IsSequence(calls')
      /\ DOMAIN calls' = DOMAIN calls /\ calls'[i] = e
      /\ \A k \in DOMAIN calls : k # i => calls'[k] = calls[k]
  BY <1>3, <1>5, Replaced
<1> QED
  BY <1>1, <1>4, <1>6 DEF Settles

\* What a step does not change of a call that was made before it.
Lasts(i) ==
  /\ calls'[i].op = calls[i].op /\ calls'[i].call = calls[i].call
  /\ calls'[i].before = calls[i].before
  /\ calls[i].arrived => calls'[i].arrived
  /\ calls[i].result # NotYet => calls'[i].result = calls[i].result

\* The steps that settle a call keep the shape of all.
LEMMA SettlingKeepsShape ==
  ASSUME Shape, NEW i \in DOMAIN calls, NEW arrived \in BOOLEAN, NEW r,
         Settles(i, arrived, r), r # NotYet, ~arrived => r = Lost,
         calls[i].arrived => arrived,
         calls[i].result # NotYet => r = calls[i].result
  PROVE  Shape' /\ \A k \in DOMAIN calls : Lasts(k)
<1>1. \A k \in DOMAIN calls : Lasts(k)
  BY DEF Settles, Lasts
<1>2. \A k \in DOMAIN calls : Made(calls[k]) /\ calls[k].before \subseteq Finished
  BY DEF Shape
<1>3. ASSUME NEW k \in DOMAIN calls PROVE Made(calls'[k])
  <2>1. CASE k = i
    BY <1>2, <2>1 DEF Settles, Made
  <2>2. CASE k # i
    BY <1>2, <2>2 DEF Settles
  <2> QED
    BY <2>1, <2>2
<1>4. Finished \subseteq Finished'
  BY DEF Settles, Finished
<1>5. DOMAIN calls' = DOMAIN calls /\ IsSequence(calls')
  BY DEF Settles
<1>6. \A k \in DOMAIN calls : calls'[k].before \subseteq Finished'
  BY <1>1, <1>2, <1>4 DEF Lasts
<1>7. \A k \in DOMAIN calls' : Made(calls'[k]) /\ calls'[k].before \subseteq Finished'
  BY <1>3, <1>5, <1>6
<1> QED
  BY <1>1, <1>5, <1>7 DEF Shape, Made

\* A call that is made joins those that were.
LEMMA CallJoins ==
  ASSUME Shape, NEW c \in Clients, Call(c)
  PROVE  /\ Shape'
         /\ \E n : /\ n \notin DOMAIN calls /\ DOMAIN calls' = DOMAIN calls \cup {n}
                   /\ calls'[n].result = NotYet /\ ~calls'[n].arrived
         /\ \A k \in DOMAIN calls : calls'[k] = calls[k]
<1>1. PICK op \in Called : \E call \in CallsOf(op, Len(calls)) :
        calls' = Append(calls,
            [client |-> c, op |-> op, call |-> call, arrived |-> FALSE,
             before |-> Finished, result |-> NotYet])
  BY DEF Call
<1>0. PICK call \in CallsOf(op, Len(calls)) :
        calls' = Append(calls,
            [client |-> c, op |-> op, call |-> call, arrived |-> FALSE,
             before |-> Finished, result |-> NotYet])
  BY <1>1
<1> DEFINE e == [client |-> c, op |-> op, call |-> call, arrived |-> FALSE,
                 before |-> Finished, result |-> NotYet]
           n == Len(calls) + 1
<1>2. IsSequence(calls)
  BY DEF Shape
<1>3. Len(calls) \in 0..(MaxCalls - 1)
  BY <1>2, LenProperties, MaxCallsAssumption DEF Call, IsSequence
<1>4. Made(e)
  BY <1>1, <1>3 DEF Made, Fields
<1>5. e.before = Finished /\ e.result = NotYet /\ ~e.arrived
  OBVIOUS
<1> HIDE DEF e
<1>6. /\ IsSequence(calls')
      /\ n \notin DOMAIN calls /\ DOMAIN calls' = DOMAIN calls \cup {n}
      /\ calls'[n] = e /\ \A k \in DOMAIN calls : calls'[k] = calls[k]
  <2>1. calls' = Append(calls, e)
    BY <1>0 DEF e
  <2> QED
    BY <1>2, <2>1, Appended
<1> HIDE DEF n
<1>7. Finished \subseteq Finished'
  BY <1>6 DEF Finished
<1>8. \A k \in DOMAIN calls : Made(calls[k]) /\ calls[k].before \subseteq Finished
  BY DEF Shape
<1>9. \A k \in DOMAIN calls' : Made(calls'[k]) /\ calls'[k].before \subseteq Finished'
  BY <1>4, <1>5, <1>6, <1>7, <1>8
<1>10. Shape'
  BY <1>6, <1>9 DEF Shape, Made
<1> QED
  BY <1>5, <1>6, <1>10

\* What becomes of a call that is made well is its own.
LEMMA CallIs ==
  ASSUME Shape, NEW i \in DOMAIN calls
  PROVE  /\ calls[i].op \in Called /\ calls[i].op \in DOMAIN Sends
         /\ IsCall(calls[i].op, calls[i].call)
         /\ Refusal(Sent(i)) = Admitted <=> Acceptable(calls[i].op, calls[i].call)
<1>1. Made(calls[i])
  BY DEF Shape
<1>2. /\ calls[i].op \in Called /\ calls[i].op \in DOMAIN Sends
      /\ IsCall(calls[i].op, calls[i].call)
  BY <1>1, CallsAssumption DEF Made
<1> QED
  BY <1>2, AdmittedIfAcceptable DEF Sent

\* A refusal is no answer.
LEMMA RefusalResult ==
  ASSUME Shape, NEW i \in DOMAIN calls, Refusal(Sent(i)) # Admitted
  PROVE  Result(calls[i].op, Refusal(Sent(i))).kind # "answer"
<1> DEFINE op == calls[i].op
           call == calls[i].call
<1>1. op \in DOMAIN Sends /\ IsCall(op, call)
  BY CallIs
<1>2. \/ Refusal(Sent(i)) = ErrorResponse(ErrorCode)
      \/ Refusal(Sent(i)) = HandlerResponse(400)
  BY <1>1, Admission DEF Sent
<1>3. /\ Result(op, ErrorResponse(ErrorCode)) = [kind |-> "status", code |-> ErrorCode]
      /\ Result(op, HandlerResponse(400)) = Undecodable
  BY <1>1, StatusResult, FailingCodes, ErrorCodeAssumption
<1>4. Undecodable.kind = "undecodable"
  BY DEF Undecodable
<1>5. Result(op, ErrorResponse(ErrorCode)).kind = "status"
  BY <1>3
<1>6. Result(op, HandlerResponse(400)).kind = "undecodable"
  BY <1>3, <1>4
<1> HIDE DEF op
<1> QED
  BY <1>2, <1>5, <1>6 DEF op

\* The handler has heard what was said, and this is the answer.
Newly(i) ==
  /\ calls[i].result = NotYet /\ Handle(i)
  /\ calls'[i].result = Result(calls[i].op, Response(calls[i].op, returned'))

\* A step's part in the calls: those that were made last, and of what is answered
\* after it the step answered what was not before.
Proceeds ==
  /\ Shape' /\ DOMAIN calls \subseteq DOMAIN calls'
  /\ \A i \in DOMAIN calls : Lasts(i)
  /\ \A op : /\ Answered(op) \subseteq Answered(op)'
             /\ \A i \in Answered(op)' :
                  /\ i \in DOMAIN calls /\ calls[i].op = op
                  /\ i \in Answered(op) \/ Newly(i)

LEMMA SettlingProceeds ==
  ASSUME Shape, NEW i \in DOMAIN calls, NEW arrived \in BOOLEAN, NEW r,
         Settles(i, arrived, r), r # NotYet, ~arrived => r = Lost,
         calls[i].arrived => arrived,
         calls[i].result # NotYet => r = calls[i].result,
         calls[i].result = NotYet /\ r.kind = "answer" => Newly(i)
  PROVE  Proceeds
<1>1. Shape' /\ \A k \in DOMAIN calls : Lasts(k)
  BY SettlingKeepsShape
<1>2. /\ DOMAIN calls' = DOMAIN calls /\ calls'[i].result = r
      /\ \A k \in DOMAIN calls : k # i => calls'[k] = calls[k]
  BY DEF Settles
<1>3. ASSUME NEW op, NEW k \in Answered(op) PROVE k \in Answered(op)'
  BY <1>1, <1>2, <1>3 DEF Lasts, Answered
<1>4. ASSUME NEW op, NEW k \in Answered(op)'
      PROVE  /\ k \in DOMAIN calls /\ calls[k].op = op
             /\ k \in Answered(op) \/ Newly(k)
  <2>1. k \in DOMAIN calls /\ calls'[k].op = op /\ calls'[k].result.kind = "answer"
    BY <1>2, <1>4 DEF Answered
  <2>2. calls[k].op = op
    BY <1>1, <2>1 DEF Lasts
  <2>3. CASE calls[k].result # NotYet
    <3>1. calls[k].result = calls'[k].result
      BY <1>1, <2>1, <2>3 DEF Lasts
    <3> QED
      BY <2>1, <2>2, <2>3, <3>1 DEF Answered
  <2>4. CASE calls[k].result = NotYet
    <3>1. k = i
      BY <1>2, <1>4, <2>1, <2>4 DEF Answered
    <3> QED
      BY <1>2, <2>1, <2>2, <2>4, <3>1
  <2> QED
    BY <2>1, <2>2, <2>3, <2>4
<1> QED
  BY <1>1, <1>2, <1>3, <1>4 DEF Proceeds

LEMMA CallsStep ==
  ASSUME Shape, [WireNext]_wireVars
  PROVE  Proceeds
<1>1. CASE UNCHANGED wireVars
  <2>1. calls' = calls
    BY <1>1 DEF wireVars
  <2>2. Shape'
    BY <2>1 DEF Shape, Made, Finished
  <2>3. \A op : Answered(op)' = Answered(op)
    BY <2>1 DEF Answered
  <2> QED
    BY <2>1, <2>2, <2>3 DEF Lasts, Proceeds, Answered
<1>2. ASSUME NEW c \in Clients, Call(c) PROVE Proceeds
  <2>1. PICK n : /\ n \notin DOMAIN calls /\ DOMAIN calls' = DOMAIN calls \cup {n}
                 /\ calls'[n].result = NotYet
    BY <1>2, CallJoins
  <2>2. Shape' /\ \A k \in DOMAIN calls : calls'[k] = calls[k]
    BY <1>2, CallJoins
  <2>3. \A op : Answered(op)' = Answered(op)
    BY <2>1, <2>2 DEF Answered
  <2> QED
    BY <2>1, <2>2, <2>3 DEF Lasts, Proceeds, Answered
<1>3. ASSUME NEW i \in DOMAIN calls PROVE calls[i].arrived \in BOOLEAN
  BY DEF Shape, Made
<1>4. Lost.kind = "lost" /\ Lost # NotYet
  BY ResultKinds DEF Lost
<1>5. ASSUME NEW i \in DOMAIN calls, Refuse(i) PROVE Proceeds
  <2>1. /\ ~calls[i].arrived /\ Refusal(Sent(i)) # Admitted
        /\ Respond(i, Refusal(Sent(i)))
    BY <1>5 DEF Refuse
  <2>2. PICK r \in {Lost, Result(calls[i].op, Refusal(Sent(i)))} :
          /\ Settles(i, TRUE, r) /\ r # NotYet
          /\ calls[i].result # NotYet => r = calls[i].result
    BY <2>1, ResponseSettles
  <2>3. r.kind # "answer"
    BY <1>4, <2>1, <2>2, RefusalResult
  <2> QED
    BY <2>1, <2>2, <2>3, SettlingProceeds
<1>6. ASSUME NEW i \in DOMAIN calls, Handle(i) PROVE Proceeds
  <2> DEFINE response == Response(Heard(Sent(i)).op, returned')
  <2>1. ~calls[i].arrived /\ Respond(i, response)
    BY <1>6 DEF Handle
  <2>2. PICK r \in {Lost, Result(calls[i].op, response)} :
          /\ Settles(i, TRUE, r) /\ r # NotYet
          /\ calls[i].result # NotYet => r = calls[i].result
    <3> HIDE DEF response
    <3> QED
      BY <2>1, ResponseSettles
  <2>3. Heard(Sent(i)).op = calls[i].op
    BY CallIs, Hearing DEF Sent
  <2>4. calls[i].result = NotYet /\ r.kind = "answer" => Newly(i)
    BY <1>4, <1>6, <2>2, <2>3 DEF Newly, Settles
  <2> QED
    BY <2>1, <2>2, <2>4, SettlingProceeds
<1>7. ASSUME NEW i \in DOMAIN calls, GiveUp(i) PROVE Proceeds
  <2>1. Settles(i, calls[i].arrived, Lost) /\ calls[i].result = NotYet
    BY <1>7, GivingUpSettles
  <2>2. Lost # NotYet /\ Lost.kind # "answer"
    BY <1>4
  <2> QED
    BY <1>3, <2>1, <2>2, SettlingProceeds
<1> QED
  BY <1>1, <1>2, <1>5, <1>6, <1>7 DEF WireNext

-----------------------------------------------------------------------------
(***************************************************************************)
(* Serving: the bindings hand the mock what it is modelled for.            *)
(***************************************************************************)

\* The parameters the mock's operations take.
LEMMA ParametersAre ==
  /\ \A op \in {"GetCluster", "UpdateCluster"} :
        PathNames(Handlers[op].params) = {"clusterID"}
  /\ \A op \in {"UpdateApplication", "CreateApplicationVersion",
                "ListApplicationVersions"} :
        PathNames(Handlers[op].params) = {"applicationID"}
  /\ PathNames(Handlers["GetApplicationVersion"].params) = {"applicationID", "version"}
<1>1. ASSUME NEW a PROVE PathNames([path |-> <<a>>, query |-> NoQuery]) = {a}
  BY DEF PathNames
<1>2. ASSUME NEW a, NEW b
      PROVE  PathNames([path |-> <<a, b>>, query |-> NoQuery]) = {a, b}
  BY DEF PathNames
<1>3. PathNames(Handlers["GetCluster"].params) = {"clusterID"}
  BY <1>1 DEF Handlers, HandleGetCluster, GetClusterParams, Handler, Params
<1>4. PathNames(Handlers["UpdateCluster"].params) = {"clusterID"}
  BY <1>1 DEF Handlers, HandleUpdateCluster, UpdateClusterParams, Handler, Params
<1>5. PathNames(Handlers["UpdateApplication"].params) = {"applicationID"}
  BY <1>1
  DEF Handlers, HandleUpdateApplication, UpdateApplicationParams, Handler, Params
<1>6. PathNames(Handlers["CreateApplicationVersion"].params) = {"applicationID"}
  BY <1>1 DEF Handlers, HandleCreateApplicationVersion,
              CreateApplicationVersionParams, Handler, Params
<1>7. PathNames(Handlers["ListApplicationVersions"].params)
        = {"applicationID"}
  <2> DEFINE params == Handlers["ListApplicationVersions"].params
  <2>1. params.path = <<"applicationID">>
    BY DEF Handlers, HandleListApplicationVersions, ListApplicationVersionsParams,
           Handler, Params
  <2> QED
    BY <2>1 DEF PathNames
<1>8. PathNames(Handlers["GetApplicationVersion"].params)
        = {"applicationID", "version"}
  BY <1>2 DEF Handlers, HandleGetApplicationVersion, GetApplicationVersionParams,
              Handler, Params
<1> QED
  BY <1>3, <1>4, <1>5, <1>6, <1>7, <1>8

Body(i) == SameBody(Sends[calls[i].op].body, calls[i].call.body)

\* A call that is handled has the handler do what was asked, of what is known.
Asks(i) ==
  LET op == calls[i].op
      args == calls[i].call.args
      query == calls[i].call.query
  IN  \/ /\ op = "CreateCluster" /\ Body(i) \in ClusterRequests
         /\ ServeCreateCluster(Body(i))
      \/ op = "ListClusters" /\ ServeListClusters
      \/ /\ op = "GetCluster" /\ args.clusterID \in IDs
         /\ ServeGetCluster(args.clusterID)
      \/ /\ op = "UpdateCluster" /\ args.clusterID \in IDs
         /\ Body(i) \in UpdateRequests
         /\ ServeUpdateCluster(args.clusterID, Body(i))
      \/ op = "ListAutoScalingGroups" /\ ServeListAutoScalingGroups
      \/ op = "ListLoadBalancers" /\ ServeListLoadBalancers
      \/ /\ op = "CreateApplication" /\ Body(i) \in ApplicationRequests
         /\ ServeCreateApplication(Body(i))
      \/ /\ op = "ListApplications" /\ query.clusterID \in IDs \cup {None}
         /\ ServeListApplications(query.clusterID)
      \/ /\ op = "CreateApplicationVersion" /\ args.applicationID \in IDs
         /\ Body(i) \in Bodies
         /\ ServeCreateApplicationVersion(args.applicationID, Body(i))
      \/ /\ op = "ListApplicationVersions" /\ args.applicationID \in IDs
         /\ ServeListApplicationVersions(args.applicationID)
      \/ /\ op = "GetApplicationVersion" /\ args.applicationID \in IDs
         /\ args.version \in Numbers
         /\ ServeGetApplicationVersion(args.applicationID, args.version)
      \/ /\ op = "UpdateApplication" /\ args.applicationID \in IDs
         /\ Body(i).activeVersion \in Numbers \cup {Null}
         /\ ServeUpdateApplication(args.applicationID, Body(i).activeVersion)
      \/ op \notin Implemented /\ Unimplemented

LEMMA Handling ==
  ASSUME Shape, NEW i \in DOMAIN calls, Handle(i)
  PROVE  Asks(i)
<1> DEFINE op == calls[i].op
           c == calls[i].call
           h == [op |-> op, args |-> c.args, query |-> c.query, body |-> Body(i)]
<1>1. op \in Called /\ op \in DOMAIN Sends /\ IsCall(op, c)
  BY CallIs
<1>2. Acceptable(op, c)
  BY CallIs DEF Handle
<1>3. \E made \in 0..(MaxCalls - 1) : c \in CallsOf(op, made)
  BY DEF Shape, Made
<1>4. /\ \A n \in DOMAIN c.args : c.args[n] \in IF n = "version" THEN Numbers ELSE IDs
      /\ op = "ListApplications" => c.query.clusterID \in IDs \cup {None}
      /\ Body(i) \in Known(op)
  BY <1>1, <1>2, <1>3, CallsAssumption DEF Body
<1>5. Heard(Sent(i)) = h
  BY <1>1, Hearing DEF Sent, Body
<1>6. Serve(h)
  BY <1>5 DEF Handle
<1>7. DOMAIN c.args = PathNames(Handlers[op].params)
  BY <1>1 DEF IsCall
<1>8. /\ op \in {"GetCluster", "UpdateCluster"} => c.args.clusterID \in IDs
      /\ op \in {"UpdateApplication", "CreateApplicationVersion",
                 "ListApplicationVersions", "GetApplicationVersion"}
            => c.args.applicationID \in IDs
      /\ op = "GetApplicationVersion" => c.args.version \in Numbers
  <2> HIDE DEF op, c
  <2> QED
    BY <1>4, <1>7, ParametersAre
<1>9. /\ op = "CreateCluster" => Body(i) \in ClusterRequests
      /\ op = "UpdateCluster" => Body(i) \in UpdateRequests
      /\ op = "CreateApplication" => Body(i) \in ApplicationRequests
      /\ op = "CreateApplicationVersion" => Body(i) \in Bodies
      /\ op = "UpdateApplication" => Body(i).activeVersion \in Numbers \cup {Null}
  <2> HIDE DEF op, c
  <2> QED
    BY <1>4 DEF Known
<1>10. /\ h.op = op /\ h.args = c.args /\ h.query = c.query /\ h.body = Body(i)
  OBVIOUS
<1> HIDE DEF h
<1> QED
  BY <1>4, <1>6, <1>8, <1>9, <1>10 DEF Serve, Asks

\* What the handler does is a step of the mock.
LEMMA AskedIsStep ==
  ASSUME NEW i, Asks(i)
  PROVE  Next
  BY DEF Asks, Next

LEMMA WireStepIsStep == Shape /\ [WireNext]_wireVars => [Next]_vars
<1> SUFFICES ASSUME Shape, [WireNext]_wireVars PROVE [Next]_vars
  OBVIOUS
<1>1. ASSUME NEW i \in DOMAIN calls, Handle(i) PROVE Next
  BY <1>1, Handling, AskedIsStep
<1> QED
  BY <1>1 DEF WireNext, wireVars, Call, Refuse, GiveUp

LEMMA WireInitShape == WireInit => Shape
<1> SUFFICES ASSUME WireInit PROVE Shape
  OBVIOUS
<1>1. calls = <<>> /\ DOMAIN calls = {}
  BY DEF WireInit
<1>2. <<>> \in Seq({})
  OBVIOUS
<1> QED
  BY <1>1, <1>2, OfItsOwn DEF Shape

\* The calls keep their shape: each is one the client may make, and is answered
\* after it has arrived.
THEOREM WireShape == WireSpec => []Shape
<1>1. Shape /\ [WireNext]_wireVars => Shape'
  BY CallsStep DEF Proceeds
<1> QED
  BY <1>1, WireInitShape, PTL DEF WireSpec

\* The bindings hand the mock nothing but requests of its types: behind them, however
\* many clients call and whatever they give up, it is the mock server on its own.
THEOREM WireServesAsMock == WireSpec => ServesAsMock
<1>1. WireInit => Init
  BY DEF WireInit
<1> QED
  BY <1>1, WireStepIsStep, WireShape, PTL DEF WireSpec, ServesAsMock, Spec

\* So its maps keep their types there,
THEOREM WireTypeCorrect == WireSpec => []TypeOK
  BY WireServesAsMock, MockTypeCorrect DEF ServesAsMock

\* no name is used twice, whichever of two clients asks first,
THEOREM WireNamesUnique == WireSpec => []NamesUnique
  BY WireServesAsMock, MockNamesUnique DEF ServesAsMock

\* and what a version holds is not changed or lost by any call.
THEOREM WireVersionsKept == WireSpec => VersionsKept
  BY WireServesAsMock, MockVersionsKept DEF ServesAsMock

-----------------------------------------------------------------------------
(***************************************************************************)
(* What a step leaves of the maps, and what is new in an answer.           *)
(***************************************************************************)
Own == \A a \in DOMAIN applications : applications[a].applicationID = a
FinitelyMany ==
  IsFiniteSet(DOMAIN applications) /\ IsFiniteSet(DOMAIN applicationVersions)

\* An application stays, with its identifier and in its cluster.
Stays ==
  \A a \in DOMAIN applications :
      /\ a \in DOMAIN applications'
      /\ applications'[a].applicationID = applications[a].applicationID
      /\ applications'[a].clusterID = applications[a].clusterID

LEMMA ApplicationsStay ==
  ASSUME IInv, [Next]_vars, Own, FinitelyMany
  PROVE  Stays /\ Own' /\ FinitelyMany' /\ Held
<1>1. Held
  BY NextIInv
<1>2. ASSUME UNCHANGED <<applications, applicationVersions>>
      PROVE  Stays /\ Own' /\ FinitelyMany'
  BY <1>2 DEF Stays, Own, FinitelyMany
<1>3. ASSUME NEW req, ServeCreateApplication(req)
      PROVE  Stays /\ Own' /\ FinitelyMany'
  <2>1. CASE Fails
    BY <1>2, <2>1 DEF Fails
  <2>2. ASSUME NEW id \in IDs \ DOMAIN applications,
               applications' = With(applications, id, Application(id, req)),
               applicationVersions' = applicationVersions
        PROVE  Stays /\ Own' /\ FinitelyMany'
    <3>1. /\ DOMAIN applications' = DOMAIN applications \cup {id}
          /\ applications'[id] = Application(id, req)
          /\ \A a \in DOMAIN applications : applications'[a] = applications[a]
      BY <2>2 DEF With
    <3>2. Application(id, req).applicationID = id
      BY DEF Application
    <3>3. IsFiniteSet(DOMAIN applications \cup {id})
      BY FS_AddElement DEF FinitelyMany
    <3> QED
      BY <2>2, <3>1, <3>2, <3>3 DEF Stays, Own, FinitelyMany
  <2> QED
    BY <1>3, <2>1, <2>2 DEF ServeCreateApplication
<1>4. ASSUME NEW id, NEW n, ServeUpdateApplication(id, n)
      PROVE  Stays /\ Own' /\ FinitelyMany'
  <2>1. CASE Fails
    BY <1>2, <2>1 DEF Fails
  <2>2. CASE /\ id \in DOMAIN applications
             /\ applications' = [applications EXCEPT
                  ![id].activeVersion = n, ![id].desiredCount = DesiredCount(id, n)]
             /\ applicationVersions' = applicationVersions
    <3>1. \A a \in DOMAIN applications : applications[a] \in Applications
      BY DEF IInv, TypeOK
    <3>2. DOMAIN applications' = DOMAIN applications
      BY <2>2
    <3>3. applications'[id] = [applications[id] EXCEPT
            !.activeVersion = n, !.desiredCount = DesiredCount(id, n)]
      BY <2>2, <3>1 DEF Applications
    <3>4. /\ applications'[id].applicationID = applications[id].applicationID
          /\ applications'[id].clusterID = applications[id].clusterID
      BY <2>2, <3>1, <3>3 DEF Applications
    <3>5. \A a \in DOMAIN applications : a # id => applications'[a] = applications[a]
      BY <2>2
    <3> QED
      BY <2>2, <3>2, <3>4, <3>5 DEF Stays, Own, FinitelyMany
  <2> QED
    BY <1>4, <2>1, <2>2 DEF ServeUpdateApplication
<1>5. ASSUME NEW id, NEW req, ServeCreateApplicationVersion(id, req)
      PROVE  Stays /\ Own' /\ FinitelyMany'
  <2>1. CASE Fails
    BY <1>2, <2>1 DEF Fails
  <2>2. CASE ~Fails
    <3> DEFINE key == <<id, nextVersionNumber[id]>>
    <3>1. /\ applicationVersions' =
               With(applicationVersions, key, Version(nextVersionNumber[id], req))
          /\ applications' = applications
      BY <1>5, <2>2 DEF ServeCreateApplicationVersion
    <3>2. DOMAIN applicationVersions' = DOMAIN applicationVersions \cup {key}
      BY <3>1, WithAdds
    <3>3. IsFiniteSet(DOMAIN applicationVersions \cup {key})
      BY FS_AddElement DEF FinitelyMany
    <3> QED
      BY <3>1, <3>2, <3>3 DEF Stays, Own, FinitelyMany
  <2> QED
    BY <2>1, <2>2
<1>6. ASSUME UNCHANGED Kept PROVE Stays /\ Own' /\ FinitelyMany'
  BY <1>2, <1>6 DEF Kept
<1>7. ASSUME NEW req, ServeCreateCluster(req) \/ \E id : ServeUpdateCluster(id, req)
      PROVE  Stays /\ Own' /\ FinitelyMany'
  BY <1>2, <1>7 DEF ServeCreateCluster, ServeUpdateCluster, Fails
<1>8. CASE UNCHANGED vars
  BY <1>1, <1>2, <1>8 DEF vars
<1>9. ASSUME Next PROVE Stays /\ Own' /\ FinitelyMany'
  BY <1>3, <1>4, <1>5, <1>6, <1>7, <1>9, ReadersKeep DEF Next
<1> QED
  BY <1>1, <1>8, <1>9

\* What is posted, by a call that is handled.
Posting(i) ==
  LET id == calls[i].call.args.applicationID
      n == nextVersionNumber[id]
  IN  /\ calls[i].op = "CreateApplicationVersion" /\ Body(i) \in Bodies
      /\ id \in IDs /\ id \in DOMAIN applications
      /\ <<id, n>> \notin DOMAIN applicationVersions
      /\ applicationVersions' = With(applicationVersions, <<id, n>>, Version(n, Body(i)))
      /\ returned' = Gives([applicationVersion |-> [version |-> n]])

LEMMA PostHandled ==
  ASSUME Shape, IInv, NEW i \in DOMAIN calls, Handle(i),
         calls[i].op = "CreateApplicationVersion"
  PROVE  Fails \/ Posting(i)
<1> DEFINE id == calls[i].call.args.applicationID
           n == nextVersionNumber[id]
<1>1. /\ id \in IDs /\ Body(i) \in Bodies
      /\ ServeCreateApplicationVersion(id, Body(i))
  BY Handling DEF Asks, Implemented
<1>2. CASE ~Fails
  <2>1. /\ id \in DOMAIN applications
        /\ applicationVersions' =
             With(applicationVersions, <<id, n>>, Version(n, Body(i)))
        /\ returned' = Gives([applicationVersion |-> [version |-> n]])
    BY <1>1, <1>2 DEF ServeCreateApplicationVersion
  <2>2. n \in Nat
    BY <2>1 DEF IInv, TypeOK
  <2>3. <<id, n>> \in DOMAIN applicationVersions => n < n
    BY DEF IInv, NumbersAhead
  <2>4. <<id, n>> \notin DOMAIN applicationVersions
    BY <2>2, <2>3
  <2> QED
    BY <1>1, <2>1, <2>4 DEF Posting
<1> QED
  BY <1>2

\* Nothing else is ever stored.
LEMMA VersionsStep ==
  ASSUME Shape, IInv, [WireNext]_wireVars
  PROVE  \/ applicationVersions' = applicationVersions
         \/ \E i \in DOMAIN calls : Handle(i) /\ Posting(i)
<1>1. ASSUME NEW i \in DOMAIN calls, Handle(i)
      PROVE  applicationVersions' = applicationVersions \/ Posting(i)
  <2>1. CASE calls[i].op = "CreateApplicationVersion"
    BY <1>1, <2>1, PostHandled DEF Fails
  <2>2. CASE calls[i].op # "CreateApplicationVersion"
    BY <1>1, <2>2, Handling
    DEF Asks, ServeCreateCluster, ServeListClusters, ServeGetCluster, ServeUpdateCluster,
        ServeListAutoScalingGroups, ServeListLoadBalancers, ServeCreateApplication,
        ServeListApplications, ServeListApplicationVersions,
        ServeGetApplicationVersion, ServeUpdateApplication, Unimplemented, Fails, Reads
  <2> QED
    BY <2>1, <2>2
<1> QED
  BY <1>1 DEF WireNext, wireVars, vars, Call, Refuse, GiveUp

\* The body of a post as the handler has it.
LEMMA PostBody ==
  ASSUME Shape, NEW i \in DOMAIN calls, calls[i].op = "CreateApplicationVersion"
  PROVE  /\ IsMessage(CreateApplicationVersion, calls[i].call.body)
         /\ Body(i) = Same(CreateApplicationVersion, calls[i].call.body)
<1>1. Sends["CreateApplicationVersion"].body = CreateApplicationVersion
  BY DEF Sends, SendCreateApplicationVersion, Post, Send
<1>2. CreateApplicationVersion # NoMessage
  <2>1. "cpu" \in DOMAIN CreateApplicationVersion.fields
    BY PostedFields DEF PostedPlain
  <2> QED
    BY <2>1, NoMessageHasNoFields
<1>3. IsCall("CreateApplicationVersion", calls[i].call)
  BY CallIs
<1> QED
  BY <1>1, <1>2, <1>3 DEF IsCall, Body, SameBody

\* A new answer is what the handler has just returned, and no failure.
LEMMA NewAnswer ==
  ASSUME Shape, NEW i \in DOMAIN calls, Newly(i), calls'[i].result.kind = "answer"
  PROVE  /\ returned' # Failure
         /\ IsOutcome(calls[i].op, returned') =>
              calls'[i].result.message = SameBody(Answers[calls[i].op].message, returned'.message)
<1> DEFINE op == calls[i].op
           r == Result(op, Response(op, returned'))
<1>1. op \in DOMAIN Sends
  BY CallIs
<1>2. calls'[i].result = r /\ r.kind = "answer"
  BY DEF Newly
<1>3. ASSUME IsOutcome(op, returned')
      PROVE  returned'.kind = "answer" /\ r.message = SameBody(Answers[op].message, returned'.message)
  <2>1. returned'.kind # "answer" => r.kind # "answer"
    <3>1. ASSUME returned'.kind # "answer"
          PROVE  r = IF returned'.kind = "status" THEN [kind |-> "status", code |-> returned'.code]
                     ELSE IF returned'.kind = "failure" THEN [kind |-> "status", code |-> ErrorCode]
                     ELSE Undecodable
      BY <1>1, <1>3, <3>1, ErrorResult
    <3> QED
      BY <3>1 DEF Undecodable
  <2>2. returned'.kind = "answer"
    BY <1>2, <2>1
  <2>3. r = Arriving(op, returned')
    BY <1>1, <1>3, <2>2, AnswerResult
  <2>4. Undecodable.kind # "answer"
    BY DEF Undecodable
  <2> QED
    BY <1>2, <2>2, <2>3, <2>4 DEF Arriving
<1>4. IsOutcome(op, Failure) /\ Failure.kind # "answer"
  BY DEF IsOutcome, Failure
<1>5. returned' # Failure
  BY <1>3, <1>4
<1> QED
  BY <1>2, <1>3, <1>5

\* What the caller of a new application was told is there, in its cluster.
Told(i) == calls[i].result.message.application.applicationID

LEMMA NewApplication ==
  ASSUME Shape, NEW i \in DOMAIN calls, Newly(i), calls'[i].result.kind = "answer",
         calls[i].op = "CreateApplication"
  PROVE  /\ Told(i)' \in DOMAIN applications'
         /\ applications'[Told(i)'].clusterID = calls[i].call.body.clusterID
<1> DEFINE op == "CreateApplication"
<1>1. ServeCreateApplication(Body(i))
  BY Handling DEF Newly, Asks, Implemented
<1>2. returned' # Failure
  BY NewAnswer
<1>3. PICK id \in IDs \ DOMAIN applications :
        /\ applications' = With(applications, id, Application(id, Body(i)))
        /\ returned' = Gives([application |-> [applicationID |-> id]])
  BY <1>1, <1>2 DEF ServeCreateApplication, Fails
<1> DEFINE m == [application |-> [applicationID |-> id]]
<1>4. /\ Answers[op].message # NoMessage /\ IsMessage(Answers[op].message, m)
      /\ SameBody(Answers[op].message, m).application.applicationID = id
  BY ApplicationTold
<1>5. returned'.kind = "answer" /\ returned'.message = m /\ "kind" \in DOMAIN returned'
  BY <1>3 DEF Gives
<1> HIDE DEF m
<1>6. IsOutcome(op, returned')
  BY <1>4, <1>5 DEF IsOutcome
<1>7. calls'[i].result.message = SameBody(Answers[op].message, m)
  BY <1>5, <1>6, NewAnswer
<1>8. Told(i)' = id
  BY <1>4, <1>7 DEF Told
<1>9. id \in DOMAIN applications' /\ applications'[id] = Application(id, Body(i))
  BY <1>3 DEF With
<1>10. Application(id, Body(i)).clusterID = Body(i).clusterID
  BY DEF Application
<1>11. Body(i).clusterID = calls[i].call.body.clusterID
  BY ClusterAsked DEF Body
<1> QED
  BY <1>8, <1>9, <1>10, <1>11

\* What the caller of a new version was told is stored, as a new one, as it was sent.
LEMMA NewPost ==
  ASSUME Shape, IInv, [WireNext]_wireVars,
         NEW i \in DOMAIN calls, Newly(i), calls'[i].result.kind = "answer",
         calls[i].op = "CreateApplicationVersion"
  PROVE  /\ Posting(i)
         /\ Posted(i)' \notin DOMAIN applicationVersions
         /\ Posted(i)' \in DOMAIN applicationVersions'
         /\ applicationVersions'[Posted(i)'] =
                Version(Posted(i)'[2], Same(CreateApplicationVersion, calls[i].call.body))
<1> DEFINE op == "CreateApplicationVersion"
           id == calls[i].call.args.applicationID
           n == nextVersionNumber[id]
           m == [applicationVersion |-> [version |-> n]]
<1>1. Posting(i)
  BY PostHandled, NewAnswer DEF Newly, Fails
<1>2. /\ <<id, n>> \notin DOMAIN applicationVersions
      /\ applicationVersions' = With(applicationVersions, <<id, n>>, Version(n, Body(i)))
      /\ returned' = Gives(m)
  BY <1>1 DEF Posting
<1>3. /\ Answers[op].message # NoMessage /\ IsMessage(Answers[op].message, m)
      /\ SameBody(Answers[op].message, m).applicationVersion.version = n
  <2> HIDE DEF n
  <2> QED
    BY NumberTold
<1>4. returned'.kind = "answer" /\ returned'.message = m /\ "kind" \in DOMAIN returned'
  BY <1>2 DEF Gives
<1> HIDE DEF m
<1>5. IsOutcome(op, returned')
  BY <1>3, <1>4 DEF IsOutcome
<1>6. calls'[i].result.message = SameBody(Answers[op].message, m)
  BY <1>4, <1>5, NewAnswer
<1>7. calls'[i].call = calls[i].call
  BY CallsStep DEF Proceeds, Lasts
<1> HIDE DEF n
<1>8. Posted(i)' = <<id, n>>
  BY <1>3, <1>6, <1>7 DEF Posted
<1>9. Body(i) = Same(CreateApplicationVersion, calls[i].call.body)
  BY PostBody
<1>10. /\ <<id, n>> \in DOMAIN applicationVersions'
       /\ applicationVersions'[<<id, n>>] = Version(n, Body(i))
  BY <1>2 DEF With
<1>11. <<id, n>>[2] = n
  OBVIOUS
<1> HIDE DEF id
<1> QED
  BY <1>1, <1>2, <1>8, <1>9, <1>10, <1>11

\* What a reader was told of a version is what is stored of it.
Stored == \A k \in DOMAIN applicationVersions :
            IsA3(ReadApplicationVersionDetail, applicationVersions[k])
Key(j) == <<calls[j].call.args.applicationID, calls[j].call.args.version>>

LEMMA NewRead ==
  ASSUME Shape, Stored, [WireNext]_wireVars,
         NEW i \in DOMAIN calls, Newly(i), calls'[i].result.kind = "answer",
         calls[i].op = "GetApplicationVersion"
  PROVE  /\ Key(i) \in DOMAIN applicationVersions
         /\ Detail(i)' = Same3(ReadApplicationVersionDetail, applicationVersions[Key(i)])
<1> DEFINE op == "GetApplicationVersion"
           v == applicationVersions[Key(i)]
           m == [applicationVersion |-> v]
<1>1. ServeGetApplicationVersion(calls[i].call.args.applicationID,
                                 calls[i].call.args.version)
  BY Handling DEF Newly, Asks, Implemented
<1>2. returned' # Failure
  BY NewAnswer
<1>3. Key(i) \in DOMAIN applicationVersions /\ returned' = Gives(m)
  BY <1>1, <1>2 DEF ServeGetApplicationVersion, Fails, Reads, Key
<1>4. IsA3(ReadApplicationVersionDetail, v)
  BY <1>3 DEF Stored
<1> HIDE DEF v
<1>5. /\ Answers[op].message # NoMessage /\ IsMessage(Answers[op].message, m)
      /\ SameBody(Answers[op].message, m).applicationVersion
            = Same3(ReadApplicationVersionDetail, v)
  BY <1>4, VersionTold
<1>6. returned'.kind = "answer" /\ returned'.message = m /\ "kind" \in DOMAIN returned'
  BY <1>3 DEF Gives
<1> HIDE DEF m
<1>7. IsOutcome(op, returned')
  BY <1>5, <1>6 DEF IsOutcome
<1>8. calls'[i].result.message = SameBody(Answers[op].message, m)
  BY <1>6, <1>7, NewAnswer
<1> QED
  BY <1>3, <1>5, <1>8 DEF Detail, v

\* A set in some order, each element with something of it.
LEMMA Ordered ==
  ASSUME NEW S, IsFiniteSet(S), NEW s \in Orders(S)
  PROVE  \E n \in Nat : DOMAIN s = 1..n /\ (\A k \in 1..n : s[k] \in S)
                        /\ \A e \in S : \E k \in 1..n : s[k] = e
<1>1. Cardinality(S) \in Nat
  BY FS_CardinalityType
<1> QED
  BY <1>1 DEF Orders

\* A listing of applications has all that are there, of the cluster asked for.
LEMMA NewApplications ==
  ASSUME Shape, IInv, Own, FinitelyMany,
         NEW i \in DOMAIN calls, Newly(i), calls'[i].result.kind = "answer",
         calls[i].op = "ListApplications",
         NEW a \in DOMAIN applications,
         calls[i].call.query.clusterID \in {None, applications[a].clusterID}
  PROVE  a \in Each(calls'[i].result.message.applications, "applicationID")
<1> DEFINE op == "ListApplications"
           cluster == calls[i].call.query.clusterID
           S == {id \in DOMAIN applications :
                    cluster = None \/ applications[id].clusterID = cluster}
<1>1. ServeListApplications(cluster)
  BY Handling DEF Newly, Asks, Implemented
<1>2. PICK s \in Orders(S) :
        Reads([applications |-> [k \in DOMAIN s |-> applications[s[k]]],
               nextCursor |-> None])
  BY <1>1 DEF ServeListApplications
<1>3. IsFiniteSet(S)
  BY FS_Subset DEF FinitelyMany
<1>4. a \in S /\ \A id \in S : applications[id] \in Applications
  BY DEF IInv, TypeOK
<1> HIDE DEF S
<1>5. PICK n \in Nat : /\ DOMAIN s = 1..n /\ (\A k \in 1..n : s[k] \in S)
                       /\ \A e \in S : \E k \in 1..n : s[k] = e
  BY <1>3, Ordered
<1> DEFINE list == [k \in DOMAIN s |-> applications[s[k]]]
           m == [applications |-> list, nextCursor |-> None]
<1>6. list \in [1..n -> Applications]
  BY <1>4, <1>5
<1>7. list \in Seq(Applications) /\ DOMAIN list = 1..n
  BY <1>5, <1>6, SequenceOf
<1>8. a \in Each(list, "applicationID")
  <2>1. PICK k \in 1..n : s[k] = a
    BY <1>4, <1>5
  <2>2. list[k]["applicationID"] = a /\ k \in DOMAIN list
    BY <1>5, <2>1 DEF Own
  <2> HIDE DEF list
  <2> QED
    BY <2>2 DEF Each
<1> HIDE DEF list
<1>9. /\ Answers[op].message # NoMessage /\ IsMessage(Answers[op].message, m)
      /\ Each(SameBody(Answers[op].message, m).applications, "applicationID")
            = Each(list, "applicationID")
  BY <1>7, ApplicationsTold
<1>10. returned'.kind = "answer" /\ returned'.message = m /\ "kind" \in DOMAIN returned'
  BY <1>2 DEF Reads, Gives, list
<1> HIDE DEF m
<1>11. IsOutcome(op, returned')
  BY <1>9, <1>10 DEF IsOutcome
<1>12. calls'[i].result.message = SameBody(Answers[op].message, m)
  BY <1>10, <1>11, NewAnswer
<1> QED
  BY <1>8, <1>9, <1>12

\* A listing of versions has all that the application has.
LEMMA NewVersions ==
  ASSUME Shape, IInv, FinitelyMany,
         NEW i \in DOMAIN calls, Newly(i), calls'[i].result.kind = "answer",
         calls[i].op = "ListApplicationVersions",
         NEW key \in DOMAIN applicationVersions,
         calls[i].call.args.applicationID = key[1]
  PROVE  key[2] \in Each(calls'[i].result.message.versions, "version")
<1> DEFINE op == "ListApplicationVersions"
           id == calls[i].call.args.applicationID
           S == {k \in DOMAIN applicationVersions : k[1] = id}
<1>1. ServeListApplicationVersions(id)
  BY Handling DEF Newly, Asks, Implemented
<1>2. returned' # Failure
  BY NewAnswer
<1>3. PICK s \in Orders(S) :
        Reads([versions |-> [k \in DOMAIN s |-> Status(applicationVersions[s[k]])],
               nextCursor |-> None])
  BY <1>1, <1>2 DEF ServeListApplicationVersions, Fails
<1>4. IsFiniteSet(S)
  BY FS_Subset DEF FinitelyMany
<1>5. ASSUME NEW k \in DOMAIN applicationVersions
      PROVE  /\ Status(applicationVersions[k]) \in Statuses
             /\ Status(applicationVersions[k]).version = k[2]
  <2>1. PICK b \in Bodies : applicationVersions[k] = Version(k[2], b)
    BY DEF IInv, TypeOK
  <2>2. k[2] \in Nat \ {0}
    BY DEF IInv, TypeOK
  <2>3. /\ applicationVersions[k].version = k[2]
        /\ applicationVersions[k].image = b.image
        /\ applicationVersions[k].activeNodeCount = 0
        /\ applicationVersions[k].created = 1
    BY <2>1 DEF Version
  <2> QED
    BY <2>2, <2>3 DEF Status, Statuses
<1>6. key \in S /\ S \subseteq DOMAIN applicationVersions
  OBVIOUS
<1> HIDE DEF S
<1>7. PICK n \in Nat : /\ DOMAIN s = 1..n /\ (\A k \in 1..n : s[k] \in S)
                       /\ \A e \in S : \E k \in 1..n : s[k] = e
  BY <1>4, Ordered
<1> DEFINE Row(k) == Status(applicationVersions[s[k]])
           list == [k \in DOMAIN s |-> Row(k)]
           m == [versions |-> list, nextCursor |-> None]
<1>8. /\ \A k \in 1..n : Row(k) \in Statuses
      /\ \E k \in 1..n : Row(k).version = key[2]
  BY <1>5, <1>6, <1>7
<1>9. returned'.kind = "answer" /\ returned'.message = m /\ "kind" \in DOMAIN returned'
  BY <1>3 DEF Reads, Gives
<1> HIDE DEF Row
<1>10. list \in [1..n -> Statuses]
  BY <1>7, <1>8
<1>11. list \in Seq(Statuses) /\ DOMAIN list = 1..n
  BY <1>7, <1>10, SequenceOf
<1>12. key[2] \in Each(list, "version")
  BY <1>7, <1>8 DEF Each
<1> HIDE DEF list
<1>13. /\ Answers[op].message # NoMessage /\ IsMessage(Answers[op].message, m)
       /\ Each(SameBody(Answers[op].message, m).versions, "version")
             = Each(list, "version")
  BY <1>11, VersionsTold
<1> HIDE DEF m
<1>14. IsOutcome(op, returned')
  BY <1>9, <1>13 DEF IsOutcome
<1>15. calls'[i].result.message = SameBody(Answers[op].message, m)
  BY <1>9, <1>14, NewAnswer
<1> QED
  BY <1>12, <1>13, <1>15

-----------------------------------------------------------------------------
(***************************************************************************)
(* What the callers know.  Each of these holds again after a step: of an   *)
(* answer there was before it because what it tells of stays, and of a new *)
(* one because the handler has just read or written it.                    *)
(***************************************************************************)
CreatedThere ==
  \A i \in Answered("CreateApplication") :
      /\ Told(i) \in DOMAIN applications
      /\ applications[Told(i)].clusterID = calls[i].call.body.clusterID

PostedThere ==
  \A i \in Posts :
      /\ Posted(i) \in DOMAIN applicationVersions
      /\ Same(CreateApplicationVersion, calls[i].call.body) \in Bodies
      /\ applicationVersions[Posted(i)] =
            Version(Posted(i)[2], Same(CreateApplicationVersion, calls[i].call.body))

PostedOnce == \A i, j \in Posts : Posted(i) = Posted(j) => i = j

ReadThere ==
  \A j \in Answered("GetApplicationVersion") :
      /\ Key(j) \in DOMAIN applicationVersions
      /\ Detail(j) = Same3(ReadApplicationVersionDetail, applicationVersions[Key(j)])

\* The posts that have come to the server, of an application.
Came(a) ==
  {i \in DOMAIN calls :
      /\ calls[i].op = "CreateApplicationVersion"
      /\ calls[i].call.args.applicationID = a
      /\ Refusal(Sent(i)) = Admitted /\ calls[i].arrived}
Kin(a) == {k \in DOMAIN applicationVersions : k[1] = a}
Counted == \A a \in IDs : Cardinality(Kin(a)) <= Cardinality(Came(a))

\* What was answered before is answered alike.
LEMMA AnswersStay ==
  ASSUME Proceeds, NEW op, NEW i \in Answered(op)'
  PROVE  /\ i \in DOMAIN calls /\ calls[i].op = op /\ calls'[i].call = calls[i].call
         /\ calls'[i].before = calls[i].before /\ calls'[i].result.kind = "answer"
         /\ i \in Answered(op) => calls'[i].result = calls[i].result
         /\ i \in Answered(op) \/ Newly(i)
<1>1. /\ i \in DOMAIN calls /\ calls[i].op = op
      /\ i \in Answered(op) \/ Newly(i)
  BY DEF Proceeds
<1>2. Lasts(i)
  BY <1>1 DEF Proceeds
<1>3. calls'[i].result.kind = "answer"
  BY DEF Answered
<1>4. i \in Answered(op) => calls[i].result # NotYet
  BY DEF Answered
<1> QED
  BY <1>1, <1>2, <1>3, <1>4 DEF Lasts

LEMMA CreatedStep ==
  ASSUME Shape, Proceeds, Stays, CreatedThere
  PROVE  CreatedThere'
<1> SUFFICES ASSUME NEW i \in Answered("CreateApplication")'
             PROVE  /\ Told(i)' \in DOMAIN applications'
                    /\ applications'[Told(i)'].clusterID = calls'[i].call.body.clusterID
  BY DEF CreatedThere
<1>1. /\ i \in DOMAIN calls /\ calls[i].op = "CreateApplication"
      /\ calls'[i].call = calls[i].call /\ calls'[i].result.kind = "answer"
      /\ i \in Answered("CreateApplication") => calls'[i].result = calls[i].result
      /\ i \in Answered("CreateApplication") \/ Newly(i)
  BY AnswersStay
<1>2. CASE i \in Answered("CreateApplication")
  <2>1. Told(i)' = Told(i)
    BY <1>1, <1>2 DEF Told
  <2>2. /\ Told(i) \in DOMAIN applications
        /\ applications[Told(i)].clusterID = calls[i].call.body.clusterID
    BY <1>2 DEF CreatedThere
  <2> QED
    BY <1>1, <2>1, <2>2 DEF Stays
<1>3. CASE Newly(i)
  BY <1>1, <1>3, NewApplication
<1> QED
  BY <1>1, <1>2, <1>3

LEMMA PostedStep ==
  ASSUME Shape, IInv, [WireNext]_wireVars, Proceeds, Held, PostedThere, PostedOnce
  PROVE  PostedThere' /\ PostedOnce'
<1>1. ASSUME NEW i \in Posts'
      PROVE  /\ i \in DOMAIN calls /\ calls'[i].call = calls[i].call
             /\ calls[i].op = "CreateApplicationVersion"
             /\ calls'[i].result.kind = "answer"
             /\ i \in Posts => Posted(i)' = Posted(i)
             /\ i \in Posts \/ Newly(i)
  <2>1. i \in Answered("CreateApplicationVersion")'
    BY <1>1 DEF Posts
  <2>2. /\ i \in DOMAIN calls /\ calls'[i].call = calls[i].call
        /\ calls[i].op = "CreateApplicationVersion"
        /\ calls'[i].result.kind = "answer"
        /\ i \in Posts => calls'[i].result = calls[i].result
        /\ i \in Posts \/ Newly(i)
    BY <2>1, AnswersStay DEF Posts
  <2> QED
    BY <2>2 DEF Posted
<1>2. ASSUME NEW i \in Posts', Newly(i)
      PROVE  /\ Posted(i)' \notin DOMAIN applicationVersions
             /\ Posted(i)' \in DOMAIN applicationVersions'
             /\ Same(CreateApplicationVersion, calls[i].call.body) \in Bodies
             /\ applicationVersions'[Posted(i)'] =
                  Version(Posted(i)'[2], Same(CreateApplicationVersion, calls[i].call.body))
  <2>1. Posting(i) /\ Posted(i)' \notin DOMAIN applicationVersions
        /\ Posted(i)' \in DOMAIN applicationVersions'
        /\ applicationVersions'[Posted(i)'] =
             Version(Posted(i)'[2], Same(CreateApplicationVersion, calls[i].call.body))
    BY <1>1, <1>2, NewPost
  <2>2. Body(i) \in Bodies
    BY <2>1 DEF Posting
  <2> QED
    BY <1>1, <2>1, <2>2, PostBody
<1>3. ASSUME NEW i \in Posts
      PROVE  /\ Posted(i) \in DOMAIN applicationVersions
             /\ Same(CreateApplicationVersion, calls[i].call.body) \in Bodies
             /\ Posted(i) \in DOMAIN applicationVersions'
             /\ applicationVersions'[Posted(i)] =
                  Version(Posted(i)[2], Same(CreateApplicationVersion, calls[i].call.body))
  BY <1>3 DEF PostedThere, Held
<1>4. PostedThere'
  <2> SUFFICES ASSUME NEW i \in Posts'
               PROVE  /\ Posted(i)' \in DOMAIN applicationVersions'
                      /\ Same(CreateApplicationVersion, calls'[i].call.body) \in Bodies
                      /\ applicationVersions'[Posted(i)'] =
                            Version(Posted(i)'[2],
                                    Same(CreateApplicationVersion, calls'[i].call.body))
    BY DEF PostedThere
  <2> QED
    BY <1>1, <1>2, <1>3
\* Two that are new are one: only one call is handled in a step.
<1>5. ASSUME NEW i \in Posts', NEW j \in Posts', Newly(i), Newly(j)
      PROVE  i = j
  <2>1. /\ i \in DOMAIN calls /\ j \in DOMAIN calls
        /\ ~calls[i].arrived /\ ~calls[j].arrived
        /\ Respond(i, Response(Heard(Sent(i)).op, returned'))
    BY <1>1, <1>5 DEF Newly, Handle
  <2>2. PICK r : Settles(i, TRUE, r)
    BY <2>1, ResponseSettles
  <2>3. calls[j].result = NotYet /\ calls'[j].result # NotYet
    BY <1>5 DEF Newly, Posts, Answered
  <2>4. j # i => calls'[j] = calls[j]
    BY <2>1, <2>2 DEF Settles
  <2> QED
    BY <2>3, <2>4
<1>6. PostedOnce'
  <2> SUFFICES ASSUME NEW i \in Posts', NEW j \in Posts', Posted(i)' = Posted(j)'
               PROVE  i = j
    BY DEF PostedOnce
  <2>1. CASE i \in Posts /\ j \in Posts
    BY <1>1, <2>1 DEF PostedOnce
  <2>2. CASE i \in Posts /\ Newly(j)
    BY <1>1, <1>2, <1>3, <2>2
  <2>3. CASE Newly(i) /\ j \in Posts
    BY <1>1, <1>2, <1>3, <2>3
  <2>4. CASE Newly(i) /\ Newly(j)
    BY <1>5, <2>4
  <2> QED
    BY <1>1, <2>1, <2>2, <2>3, <2>4
<1> QED
  BY <1>4, <1>6

LEMMA StoredStep ==
  ASSUME Shape, IInv, [WireNext]_wireVars, Stored
  PROVE  Stored'
<1>1. CASE applicationVersions' = applicationVersions
  BY <1>1 DEF Stored
<1>2. ASSUME NEW i \in DOMAIN calls, Posting(i) PROVE Stored'
  <2> DEFINE id == calls[i].call.args.applicationID
             n == nextVersionNumber[id]
             m == calls[i].call.body
  <2>1. /\ calls[i].op = "CreateApplicationVersion" /\ Body(i) \in Bodies
        /\ applicationVersions' = With(applicationVersions, <<id, n>>, Version(n, Body(i)))
    BY <1>2 DEF Posting
  <2>2. IsMessage(CreateApplicationVersion, m) /\ Body(i) = Same(CreateApplicationVersion, m)
    BY <2>1, PostBody
  <2>3. Same(CreateApplicationVersion, m) \in Bodies
    BY <2>1, <2>2
  <2> HIDE DEF m
  <2>4. IsA3(ReadApplicationVersionDetail, Version(n, Same(CreateApplicationVersion, m)))
    <3> HIDE DEF n
    <3> QED
      BY <2>2, <2>3, VersionStored
  <2>5. IsA3(ReadApplicationVersionDetail, Version(n, Body(i)))
    BY <2>2, <2>4
  <2> DEFINE v == Version(n, Body(i))
             key == <<id, n>>
  <2> HIDE DEF v, key
  <2>6. \A k \in DOMAIN applicationVersions' :
          applicationVersions'[k] = IF k = key THEN v ELSE applicationVersions[k]
    BY <2>1 DEF With, v, key
  <2>7. DOMAIN applicationVersions' = DOMAIN applicationVersions \cup {key}
    BY <2>1 DEF With, key
  <2>8. IsA3(ReadApplicationVersionDetail, v)
    BY <2>5 DEF v
  <2> QED
    BY <2>6, <2>7, <2>8 DEF Stored
<1> QED
  BY <1>1, <1>2, VersionsStep

LEMMA ReadStep ==
  ASSUME Shape, [WireNext]_wireVars, Proceeds, Held, Stored, ReadThere
  PROVE  ReadThere'
<1> SUFFICES ASSUME NEW j \in Answered("GetApplicationVersion")'
             PROVE  /\ Key(j)' \in DOMAIN applicationVersions'
                    /\ Detail(j)' = Same3(ReadApplicationVersionDetail,
                                          applicationVersions'[Key(j)'])
  BY DEF ReadThere
<1>1. /\ j \in DOMAIN calls /\ calls[j].op = "GetApplicationVersion"
      /\ calls'[j].call = calls[j].call /\ calls'[j].result.kind = "answer"
      /\ j \in Answered("GetApplicationVersion") => calls'[j].result = calls[j].result
      /\ j \in Answered("GetApplicationVersion") \/ Newly(j)
  BY AnswersStay
<1>2. Key(j)' = Key(j)
  BY <1>1 DEF Key
<1>3. /\ Key(j) \in DOMAIN applicationVersions
      /\ Detail(j)' = Same3(ReadApplicationVersionDetail, applicationVersions[Key(j)])
  <2>1. CASE j \in Answered("GetApplicationVersion")
    BY <1>1, <2>1 DEF ReadThere, Detail
  <2>2. CASE Newly(j)
    BY <1>1, <2>2, NewRead
  <2> QED
    BY <1>1, <2>1, <2>2
<1>4. /\ Key(j) \in DOMAIN applicationVersions'
      /\ applicationVersions'[Key(j)] = applicationVersions[Key(j)]
  BY <1>3 DEF Held
<1> QED
  BY <1>2, <1>3, <1>4

\* A version more is a call more that has come.
LEMMA CountedStep ==
  ASSUME Shape, IInv, [WireNext]_wireVars, Proceeds, FinitelyMany, Counted
  PROVE  Counted'
<1> SUFFICES ASSUME NEW a \in IDs
             PROVE  Cardinality(Kin(a)') <= Cardinality(Came(a)')
  BY DEF Counted
<1>1. Came(a) \subseteq Came(a)'
  BY DEF Proceeds, Lasts, Came, Sent
<1>2. IsFiniteSet(Came(a)') /\ IsFiniteSet(Came(a))
  <2>1. Shape' /\ DOMAIN calls' = 1..Len(calls') /\ Len(calls') \in Nat
    BY LenProperties DEF Proceeds, Shape, IsSequence
  <2>2. IsFiniteSet(DOMAIN calls')
    BY <2>1, FS_Interval
  <2>3. Came(a)' \subseteq DOMAIN calls'
    BY DEF Came
  <2>4. IsFiniteSet(Came(a)')
    BY <2>2, <2>3, FS_Subset
  <2> QED
    BY <1>1, <2>4, FS_Subset
<1>3. IsFiniteSet(Kin(a))
  BY FS_Subset DEF FinitelyMany, Kin
<1>4. /\ Cardinality(Came(a)) \in Nat /\ Cardinality(Came(a)') \in Nat
      /\ Cardinality(Kin(a)) \in Nat
  BY <1>2, <1>3, FS_CardinalityType
<1>5. Cardinality(Came(a)) <= Cardinality(Came(a)')
  BY <1>1, <1>2, FS_Subset
<1>6. Cardinality(Kin(a)) <= Cardinality(Came(a))
  BY DEF Counted
<1>7. CASE Kin(a)' = Kin(a)
  BY <1>4, <1>5, <1>6, <1>7
<1>8. ASSUME NEW i \in DOMAIN calls, Handle(i), Posting(i)
      PROVE  Cardinality(Kin(a)') <= Cardinality(Came(a)')
  <2> DEFINE id == calls[i].call.args.applicationID
             key == <<id, nextVersionNumber[id]>>
  <2>1. /\ DOMAIN applicationVersions' = DOMAIN applicationVersions \cup {key}
        /\ key \notin DOMAIN applicationVersions /\ key[1] = id
        /\ calls[i].op = "CreateApplicationVersion"
    BY <1>8 DEF Posting, With
  <2>2. CASE a # id
    <3>1. Kin(a)' = Kin(a)
      BY <2>1, <2>2 DEF Kin
    <3> QED
      BY <3>1, <1>7
  <2>3. CASE a = id
    <3>1. Kin(a)' = Kin(a) \cup {key} /\ key \notin Kin(a)
      BY <2>1, <2>3 DEF Kin
    <3>2. Cardinality(Kin(a)') = Cardinality(Kin(a)) + 1
      <4> HIDE DEF key
      <4> QED
        BY <1>3, <3>1, FS_AddElement
    <3>3. ~calls[i].arrived /\ Refusal(Sent(i)) = Admitted
          /\ Respond(i, Response(Heard(Sent(i)).op, returned'))
      BY <1>8 DEF Handle
    <3>4. PICK r : Settles(i, TRUE, r)
      BY <3>3, ResponseSettles
    <3>5. i \in Came(a)' /\ i \notin Came(a)
      BY <2>1, <2>3, <3>3, <3>4 DEF Settles, Came, Sent
    <3>6. Cardinality(Came(a) \cup {i}) = Cardinality(Came(a)) + 1
      BY <1>2, <3>5, FS_AddElement
    <3>7. Cardinality(Came(a) \cup {i}) <= Cardinality(Came(a)')
      <4>1. Came(a) \cup {i} \subseteq Came(a)'
        BY <1>1, <3>5
      <4> QED
        BY <1>2, <4>1, FS_Subset
    <3> QED
      BY <1>4, <1>6, <3>2, <3>6, <3>7
  <2> QED
    BY <2>2, <2>3
<1>9. CASE applicationVersions' = applicationVersions
  BY <1>7, <1>9 DEF Kin
<1> QED
  BY <1>8, <1>9, VersionsStep

LEMMA SeesStep ==
  ASSUME Shape, IInv, Own, FinitelyMany, [WireNext]_wireVars, Proceeds,
         CreatedThere, PostedThere, SeesEarlier
  PROVE  SeesEarlier'
\* Who was answered before a call was made was answered before this step.
<1>1. ASSUME NEW op, NEW j \in DOMAIN calls, NEW i \in Answered(op)' \cap calls'[j].before
      PROVE  /\ i \in Answered(op) \cap calls[j].before
             /\ calls'[i].result = calls[i].result /\ calls'[i].call = calls[i].call
  <2>1. i \in calls[j].before /\ calls[j].before \subseteq Finished
    BY <1>1 DEF Proceeds, Lasts, Shape
  <2>2. i \in DOMAIN calls /\ calls[i].result # NotYet
    BY <2>1 DEF Finished
  <2>3. i \in Answered(op)' /\ (i \in Answered(op) \/ Newly(i))
    BY <1>1, AnswersStay
  <2>4. i \in Answered(op)
    BY <2>2, <2>3, <1>1, AnswersStay DEF Newly
  <2> QED
    BY <1>1, <2>1, <2>4, AnswersStay
<1>2. ASSUME NEW j \in Answered("ListApplications")',
             NEW i \in Answered("CreateApplication")' \cap calls'[j].before,
             calls'[j].call.query.clusterID \in {None, calls'[i].call.body.clusterID}
      PROVE  calls'[i].result.message.application.applicationID \in
                Each(calls'[j].result.message.applications, "applicationID")
  <2>1. /\ j \in DOMAIN calls /\ calls[j].op = "ListApplications"
        /\ calls'[j].call = calls[j].call /\ calls'[j].result.kind = "answer"
        /\ j \in Answered("ListApplications") => calls'[j].result = calls[j].result
        /\ j \in Answered("ListApplications") \/ Newly(j)
    BY <1>2, AnswersStay
  <2>2. /\ i \in Answered("CreateApplication") \cap calls[j].before
        /\ calls'[i].result = calls[i].result /\ calls'[i].call = calls[i].call
    BY <1>1, <1>2, <2>1
  <2>3. calls[j].call.query.clusterID \in {None, calls[i].call.body.clusterID}
    BY <1>2, <2>1, <2>2
  <2>4. CASE j \in Answered("ListApplications")
    BY <2>1, <2>2, <2>3, <2>4 DEF SeesEarlier
  <2>5. CASE Newly(j)
    <3>1. /\ Told(i) \in DOMAIN applications
          /\ applications[Told(i)].clusterID = calls[i].call.body.clusterID
      BY <2>2 DEF CreatedThere
    <3>2. Told(i) \in Each(calls'[j].result.message.applications, "applicationID")
      BY <2>1, <2>3, <2>5, <3>1, NewApplications
    <3> QED
      BY <2>2, <3>2 DEF Told
  <2> QED
    BY <2>1, <2>4, <2>5
<1>3. ASSUME NEW j \in Answered("ListApplicationVersions")',
             NEW i \in Posts' \cap calls'[j].before,
             calls'[j].call.args.applicationID = Posted(i)'[1]
      PROVE  Posted(i)'[2] \in Each(calls'[j].result.message.versions, "version")
  <2>1. /\ j \in DOMAIN calls /\ calls[j].op = "ListApplicationVersions"
        /\ calls'[j].call = calls[j].call /\ calls'[j].result.kind = "answer"
        /\ j \in Answered("ListApplicationVersions") => calls'[j].result = calls[j].result
        /\ j \in Answered("ListApplicationVersions") \/ Newly(j)
    BY <1>3, AnswersStay
  <2>2. /\ i \in Posts \cap calls[j].before
        /\ calls'[i].result = calls[i].result /\ calls'[i].call = calls[i].call
    BY <1>1, <1>3, <2>1 DEF Posts
  <2>3. Posted(i)' = Posted(i)
    BY <2>2 DEF Posted
  <2>4. calls[j].call.args.applicationID = Posted(i)[1]
    BY <1>3, <2>1, <2>3
  <2>5. CASE j \in Answered("ListApplicationVersions")
    BY <2>1, <2>2, <2>3, <2>4, <2>5 DEF SeesEarlier
  <2>6. CASE Newly(j)
    <3>1. Posted(i) \in DOMAIN applicationVersions
      BY <2>2 DEF PostedThere
    <3> QED
      BY <2>1, <2>3, <2>4, <2>6, <3>1, NewVersions
  <2> QED
    BY <2>1, <2>5, <2>6
<1> QED
  BY <1>2, <1>3 DEF SeesEarlier

-----------------------------------------------------------------------------
(***************************************************************************)
(* What the clients see, whatever they call and give up.                   *)
(***************************************************************************)
MockInv == IInv /\ Own /\ FinitelyMany
Knowing ==
  /\ CreatedThere /\ PostedThere /\ PostedOnce
  /\ Stored /\ ReadThere /\ Counted /\ SeesEarlier

LEMMA WireInitInv == WireInit => MockInv /\ Knowing
<1> SUFFICES ASSUME WireInit PROVE MockInv /\ Knowing
  OBVIOUS
<1>1. Init /\ DOMAIN calls = {} /\ DOMAIN applicationVersions = {}
  BY DEF WireInit, Init
<1>2. IInv
  BY <1>1, InitIInv
<1>3. Own /\ IsFiniteSet(DOMAIN applications)
  <2>1. CASE applications = <<>>
    BY <2>1, FS_EmptySet DEF Own
  <2>2. ASSUME NEW req, applications = With(<<>>, AnID, Application(AnID, req))
        PROVE  Own /\ IsFiniteSet(DOMAIN applications)
    <3>1. DOMAIN applications = {AnID} /\ applications[AnID] = Application(AnID, req)
      BY <2>2 DEF With
    <3>2. Application(AnID, req).applicationID = AnID
      BY DEF Application
    <3> QED
      BY <3>1, <3>2, FS_Singleton DEF Own
  <2> QED
    BY <1>1, <2>1, <2>2 DEF Init
<1>4. MockInv
  BY <1>1, <1>2, <1>3, FS_EmptySet DEF MockInv, FinitelyMany
<1>5. /\ \A op : Answered(op) = {}
      /\ \A a : Kin(a) = {} /\ Came(a) = {}
  BY <1>1 DEF Answered, Kin, Came
<1>6. Counted
  BY <1>5, FS_EmptySet DEF Counted
<1>7. Knowing
  BY <1>1, <1>5, <1>6
  DEF Knowing, CreatedThere, PostedThere, PostedOnce, Stored, ReadThere, SeesEarlier, Posts
<1> QED
  BY <1>4, <1>7

LEMMA KnowingStep ==
  Shape /\ MockInv /\ Knowing /\ [WireNext]_wireVars => MockInv' /\ Knowing'
<1> SUFFICES ASSUME Shape, MockInv, Knowing, [WireNext]_wireVars
             PROVE  MockInv' /\ Knowing'
  OBVIOUS
<1>1. [Next]_vars
  BY WireStepIsStep
<1>2. IInv /\ Own /\ FinitelyMany
  BY DEF MockInv
<1>3. IInv' /\ Stays /\ Own' /\ FinitelyMany' /\ Held
  BY <1>1, <1>2, NextIInv, ApplicationsStay
<1>4. Proceeds
  BY CallsStep
<1>5. /\ CreatedThere /\ PostedThere /\ PostedOnce
      /\ Stored /\ ReadThere /\ Counted /\ SeesEarlier
  BY DEF Knowing
<1>6. CreatedThere'
  BY <1>3, <1>4, <1>5, CreatedStep
<1>7. PostedThere' /\ PostedOnce'
  BY <1>2, <1>3, <1>4, <1>5, PostedStep
<1>8. Stored'
  BY <1>2, <1>5, StoredStep
<1>9. ReadThere'
  BY <1>3, <1>4, <1>5, ReadStep
<1>10. Counted'
  BY <1>2, <1>4, <1>5, CountedStep
<1>11. SeesEarlier'
  BY <1>2, <1>4, <1>5, SeesStep
<1> QED
  BY <1>3, <1>6, <1>7, <1>8, <1>9, <1>10, <1>11 DEF MockInv, Knowing

\* The inductive invariant: what every answer told is so on the server, no two posts
\* were told one version, and there are no more versions than posts that came.
THEOREM WireKnowing == WireSpec => [](Shape /\ MockInv /\ Knowing)
  BY WireShape, WireInitInv, KnowingStep, PTL DEF WireSpec

\* Every answered post has a version of its own, and an application has no more of them
\* than posts were admitted for it, though calls are given up and served late.
THEOREM WireEachNumbered == WireSpec => []EachNumbered
<1>1. Shape /\ MockInv /\ Knowing => EachNumbered
  <2> SUFFICES ASSUME Shape, MockInv, Knowing PROVE EachNumbered
    OBVIOUS
  <2>1. \A i \in Posts : Posted(i) \in DOMAIN applicationVersions
    BY DEF Knowing, PostedThere
  <2>2. ASSUME NEW a \in DOMAIN applications
        PROVE  Cardinality({k \in DOMAIN applicationVersions : k[1] = a}) <=
               Cardinality({i \in DOMAIN calls :
                               /\ calls[i].op = "CreateApplicationVersion"
                               /\ calls[i].call.args.applicationID = a
                               /\ Refusal(Sent(i)) = Admitted})
    <3> DEFINE sent == {i \in DOMAIN calls :
                          /\ calls[i].op = "CreateApplicationVersion"
                          /\ calls[i].call.args.applicationID = a
                          /\ Refusal(Sent(i)) = Admitted}
    <3>1. a \in IDs
      BY DEF MockInv, IInv, TypeOK
    <3>2. Cardinality(Kin(a)) <= Cardinality(Came(a))
      BY <3>1 DEF Knowing, Counted
    <3>3. DOMAIN calls = 1..Len(calls) /\ Len(calls) \in Nat
      BY LenProperties DEF Shape, IsSequence
    <3>4. IsFiniteSet(DOMAIN calls)
      BY <3>3, FS_Interval
    <3>5. IsFiniteSet(sent)
      BY <3>4, FS_Subset
    <3>6. Came(a) \subseteq sent
      BY DEF Came
    <3>7. IsFiniteSet(Kin(a))
      BY FS_Subset DEF MockInv, FinitelyMany, Kin
    <3> HIDE DEF sent
    <3>8. IsFiniteSet(Came(a)) /\ Cardinality(Came(a)) <= Cardinality(sent)
      BY <3>5, <3>6, FS_Subset
    <3>9. /\ Cardinality(Came(a)) \in Nat /\ Cardinality(sent) \in Nat
          /\ Cardinality(Kin(a)) \in Nat
      BY <3>5, <3>7, <3>8, FS_CardinalityType
    <3>10. Cardinality(Kin(a)) <= Cardinality(sent)
      BY <3>2, <3>8, <3>9
    <3> QED
      BY <3>10 DEF Kin, sent
  <2> QED
    BY <2>1, <2>2 DEF EachNumbered, Knowing, PostedOnce
<1> QED
  BY <1>1, WireKnowing, PTL

\* A version reads as it was posted, whoever reads it and when: both encodings and
\* the mock between them leave it what it was.
THEOREM WireReadsBack == WireSpec => []ReadsBack
<1>1. Shape /\ MockInv /\ Knowing => ReadsBack
  <2> SUFFICES ASSUME Shape, MockInv, Knowing,
                      NEW i \in Posts, NEW j \in Answered("GetApplicationVersion"),
                      Posted(i) = Key(j)
               PROVE  AsSent(calls[i].call.body, Detail(j))
    BY DEF ReadsBack, Key, AsSent
  <2> DEFINE m == calls[i].call.body
             n == Posted(i)[2]
  <2>1. i \in DOMAIN calls /\ calls[i].op = "CreateApplicationVersion"
    BY DEF Posts, Answered
  <2>2. IsMessage(CreateApplicationVersion, m)
    BY <2>1, PostBody
  <2>3. /\ Same(CreateApplicationVersion, m) \in Bodies
        /\ applicationVersions[Posted(i)] = Version(n, Same(CreateApplicationVersion, m))
    BY DEF Knowing, PostedThere
  <2>4. Detail(j) = Same3(ReadApplicationVersionDetail, applicationVersions[Posted(i)])
    BY DEF Knowing, ReadThere
  <2> HIDE DEF m, n
  <2>5. AsSent(m, Same3(ReadApplicationVersionDetail,
                        Version(n, Same(CreateApplicationVersion, m))))
    BY <2>2, <2>3, VersionStored
  <2>6. AsSent(m, Detail(j))
    BY <2>3, <2>4, <2>5
  <2> QED
    BY <2>6 DEF m
<1> QED
  BY <1>1, WireKnowing, PTL

\* What a caller was told is created is in every listing that is asked for after that.
THEOREM WireSeesEarlier == WireSpec => []SeesEarlier
  BY WireKnowing, PTL DEF Knowing

=============================================================================
