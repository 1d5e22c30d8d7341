------------------------------ MODULE Cluster ------------------------------
(***************************************************************************)
(* What apply promises about the ASGs and LBs of a cluster, whoever runs   *)
(* it, however often and with however many failures: an object goes only   *)
(* if a YAML file there has been outdates it, an ASG only once its LBs are *)
(* gone, and what comes has the settings of a YAML file, LBs in an ASG     *)
(* that stays.  No commands, plans, prompts or IDs are seen here.          *)
(***************************************************************************)
EXTENDS Naturals, Sequences

CONSTANTS
  ASGs,     \* names of auto scaling groups
  LBs,      \* load balancers
  Parent,   \* the ASG of each
  Values,   \* settings
  Refused,  \* settings the service does not accept
  None,     \* no settings
  History   \* the contents the YAML file takes, in order

VARIABLES
  yaml,     \* index in History of the YAML file as it is now
  status,   \* "absent", "ready" or "deleting"
  setting   \* settings an object was last created with

Objects == ASGs \cup LBs

Init ==
  /\ yaml = 1
  /\ status = [o \in Objects |-> "absent"]
  /\ setting = [o \in Objects |-> None]

\* A YAML c has other settings for o, or for its ASG.
Outdates(c, o) ==
  /\ o \in DOMAIN c
  /\ \/ setting[o] # c[o]
     \/ o \in LBs /\ Parent[o] \in DOMAIN c /\ setting[Parent[o]] # c[Parent[o]]

Edit ==
  /\ yaml < Len(History)
  /\ yaml' = yaml + 1
  /\ UNCHANGED <<status, setting>>

Retire(o) ==
  /\ status[o] = "ready"
  /\ \E i \in 1..yaml : Outdates(History[i], o)
  /\ \A l \in LBs : Parent[l] = o => status[l] = "absent"
  /\ status' = [status EXCEPT ![o] = "deleting"]
  /\ UNCHANGED <<yaml, setting>>

Gone(o) ==
  /\ status[o] = "deleting"
  /\ status' = [status EXCEPT ![o] = "absent"]
  /\ UNCHANGED <<yaml, setting>>

Build(o, v) ==
  /\ status[o] = "absent"
  /\ v \notin Refused
  /\ \E i \in 1..yaml : o \in DOMAIN History[i] /\ History[i][o] = v
  /\ o \in LBs => status[Parent[o]] = "ready"
  /\ status' = [status EXCEPT ![o] = "ready"]
  /\ setting' = [setting EXCEPT ![o] = v]
  /\ UNCHANGED yaml

Next ==
  \/ Edit
  \/ \E o \in Objects : Retire(o) \/ Gone(o) \/ \E v \in Values : Build(o, v)

Spec == Init /\ [][Next]_<<yaml, status, setting>>

-----------------------------------------------------------------------------
\* What follows for the cluster, of any program that keeps the promise.

\* Every LB is in an ASG that is not on its way out.
Anchored == \A l \in LBs : status[l] # "absent" => status[Parent[l]] = "ready"

\* Whatever is in the cluster has settings that a YAML file gave it, the service accepted.
Declared ==
  \A o \in Objects :
    status[o] # "absent" =>
      /\ setting[o] \notin Refused
      /\ \E i \in 1..yaml : o \in DOMAIN History[i] /\ History[i][o] = setting[o]
=============================================================================
