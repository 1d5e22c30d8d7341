------------------------------ MODULE InfraSpec ------------------------------
(***************************************************************************)
(* Settings of auto scaling groups and load balancers: the request made of *)
(* a YAML entry, the YAML entry that dump makes of an object, and the      *)
(* comparison of the two that decides whether an object is recreated       *)
(* (autoscaling.go, loadbalancer.go, DumpClusterConfig).  InfraSync takes  *)
(* the settings of an object as one value; the theorems about the          *)
(* comparison (InfraSyncProofs) say in which sense it may.                 *)
(*                                                                         *)
(* An entry and an object have the same fields.  The interfaces are a      *)
(* sequence, a name server list and an IP pool are values, for they are    *)
(* compared element by element in their order.                             *)
(***************************************************************************)
EXTENDS Naturals, Sequences, FiniteSets

CONSTANTS
  None,   \* an optional setting that is not set, a nil pointer
  Zero    \* 0 and "", which an optional setting is compared as when it is not set

OrZero(x) == IF x = None THEN Zero ELSE x

\* The settings of an interface that are compared as they are, and those that may
\* be left out.
ASGPlain == {"upstream", "connectsToLB", "ipPool"}
ASGOptional == {"netmaskLen", "defaultGateway", "packetFilterID"}
LBPlain == {"upstream", "ipPool"}
LBOptional ==
  {"netmaskLen", "defaultGateway", "vip", "virtualRouterID", "packetFilterID"}

ASGSettings == {"zone", "workerServiceClassPath", "minNodes", "maxNodes", "nameServers"}
LBSettings == {"serviceClassPath", "nameServers"}

-----------------------------------------------------------------------------
(* The comparison. *)

Indexes(ifaces) == {ifaces[n].index : n \in DOMAIN ifaces}

\* A map that is filled from a list: the last interface of an index stays.
ByIndex(ifaces) ==
  [i \in Indexes(ifaces) |->
    ifaces[CHOOSE n \in DOMAIN ifaces :
             /\ ifaces[n].index = i
             /\ \A m \in DOMAIN ifaces : ifaces[m].index = i => m <= n]]

InterfaceDiffers(plain, optional, current, desired) ==
  \/ \E f \in plain : current[f] # desired[f]
  \/ \E f \in optional : OrZero(current[f]) # OrZero(desired[f])

\* Only the interfaces of the YAML are looked at, after their number.
InterfacesDiffer(plain, optional, current, desired) ==
  \/ Len(current) # Len(desired)
  \/ \E i \in Indexes(desired) :
       \/ i \notin Indexes(current)
       \/ InterfaceDiffers(plain, optional, ByIndex(current)[i], ByIndex(desired)[i])

CompareASG(current, desired) ==
  \/ \E f \in ASGSettings : current[f] # desired[f]
  \/ InterfacesDiffer(ASGPlain, ASGOptional, current.interfaces, desired.interfaces)

CompareLB(current, desired) ==
  \/ \E f \in LBSettings : current[f] # desired[f]
  \/ InterfacesDiffer(LBPlain, LBOptional, current.interfaces, desired.interfaces)

-----------------------------------------------------------------------------
(* The requests, which the service stores as they are, and the dump. *)

ASGInterface(i) ==
  [index |-> i.index, upstream |-> i.upstream, connectsToLB |-> i.connectsToLB,
   ipPool |-> i.ipPool, netmaskLen |-> i.netmaskLen,
   defaultGateway |-> i.defaultGateway, packetFilterID |-> i.packetFilterID]

LBInterface(i) ==
  [index |-> i.index, upstream |-> i.upstream, ipPool |-> i.ipPool,
   netmaskLen |-> i.netmaskLen, defaultGateway |-> i.defaultGateway, vip |-> i.vip,
   virtualRouterID |-> i.virtualRouterID, packetFilterID |-> i.packetFilterID]

BuildCreateASG(cfg) ==
  [zone |-> cfg.zone, workerServiceClassPath |-> cfg.workerServiceClassPath,
   minNodes |-> cfg.minNodes, maxNodes |-> cfg.maxNodes,
   nameServers |-> cfg.nameServers,
   interfaces |-> [n \in DOMAIN cfg.interfaces |-> ASGInterface(cfg.interfaces[n])]]

BuildCreateLB(cfg) ==
  [serviceClassPath |-> cfg.serviceClassPath, nameServers |-> cfg.nameServers,
   interfaces |-> [n \in DOMAIN cfg.interfaces |-> LBInterface(cfg.interfaces[n])]]

\* dump copies the same settings the other way.
DumpASG(asg) ==
  [zone |-> asg.zone, workerServiceClassPath |-> asg.workerServiceClassPath,
   minNodes |-> asg.minNodes, maxNodes |-> asg.maxNodes,
   nameServers |-> asg.nameServers,
   interfaces |-> [n \in DOMAIN asg.interfaces |-> ASGInterface(asg.interfaces[n])]]

DumpLB(lb) ==
  [serviceClassPath |-> lb.serviceClassPath, nameServers |-> lb.nameServers,
   interfaces |-> [n \in DOMAIN lb.interfaces |-> LBInterface(lb.interfaces[n])]]

-----------------------------------------------------------------------------
(* What the comparison is for. *)

\* No two interfaces have one index: the service refuses others, the loader does not.
OncePerIndex(ifaces) ==
  \A m, n \in DOMAIN ifaces : ifaces[m].index = ifaces[n].index => m = n

\* The same interfaces in any order, but for zero and unset.
SameInterfaces(plain, optional, current, desired) ==
  /\ Indexes(current) = Indexes(desired)
  /\ \A m \in DOMAIN current, n \in DOMAIN desired :
       current[m].index = desired[n].index =>
         ~InterfaceDiffers(plain, optional, current[m], desired[n])

SameASG(current, desired) ==
  /\ \A f \in ASGSettings : current[f] = desired[f]
  /\ SameInterfaces(ASGPlain, ASGOptional, current.interfaces, desired.interfaces)

SameLB(current, desired) ==
  /\ \A f \in LBSettings : current[f] = desired[f]
  /\ SameInterfaces(LBPlain, LBOptional, current.interfaces, desired.interfaces)

=============================================================================
