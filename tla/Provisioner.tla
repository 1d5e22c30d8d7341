---------------------------- MODULE Provisioner ----------------------------
(***************************************************************************)
(* The whole command: apply (and plan, which is an apply that is answered  *)
(* with no) for the ASGs and LBs of a cluster and for its applications, in *)
(* the order CreatePlan and Apply take them, next to the activate command. *)
(*                                                                         *)
(* One half of a slot's state is what InfraSync says, the other what       *)
(* AppSync says.  The two halves start together and are decided together;  *)
(* in between one of them waits: CreatePlan plans ASGs and LBs before it   *)
(* lists the applications, Apply has every LB created before it turns to   *)
(* the applications, and a failure of one half ends the other.             *)
(***************************************************************************)
EXTENDS Naturals, Sequences, FiniteSets

CONSTANTS
  None, Slots,
  Values, Images, Users, Keys, Manual, CpuMode, Apps,          \* see AppSync
  DeployImages, PageSize, MaxVersions, MaxFaults, MaxDeploys, MaxRemoves,
  ASGs, LBs, Parent, Sizes, Refused, Zero, MaxLapses, MaxGlitches,   \* see InfraSync
  History,    \* the applications of the YAML files, in order
  Clusters    \* their ASGs and LBs

ASSUME SameLength == Len(History) = Len(Clusters)

VARIABLES
  yaml,                                  \* shared by the two halves
  versions, exists, born, active, file, fileOk, run, count,   \* of AppSync
  status, setting, made, infra, lapses   \* of InfraSync

App == INSTANCE AppSync

Infra == INSTANCE InfraSync WITH
  Values <- Sizes, MaxFaults <- MaxLapses, History <- Clusters,
  born <- made, run <- infra, count <- lapses

ASSUME HalvesAssumption ==
  /\ App!ValuesAssumption /\ App!NoneAssumption /\ App!HistoryAssumption /\ App!BoundsAssumption
  /\ Infra!ObjectsAssumption /\ Infra!HistoryAssumption /\ Infra!RefusedAssumption
  /\ Infra!BoundsAssumption

appVars == <<versions, exists, born, active, file, fileOk, run, count>>
infraVars == <<status, setting, made, infra, lapses>>
vars == <<yaml, appVars, infraVars>>

Init == App!Init /\ Infra!Init

-----------------------------------------------------------------------------
Ended == {"idle", "failed"}

Free(s) == run[s].pc \in Ended /\ infra[s].pc \in Ended

\* One half goes on, or fails and takes the other, which has nothing in progress,
\* with it.
AppGoesOn(s) ==
  IF run'[s].pc = "failed" /\ infra[s].pc \notin Ended
  THEN Infra!Abandon(s) ELSE UNCHANGED infraVars

InfraGoesOn(s) ==
  IF infra'[s].pc = "failed" /\ run[s].pc \notin Ended
  THEN App!Abandon(s) ELSE UNCHANGED appVars

\* ApplyCmd.Run: loadConfig.
Start(s) == Free(s) /\ App!Start(s) /\ Infra!Start(s)

\* createProvisioner, which loads the state file.
LoadState(s) == App!LoadState(s) /\ AppGoesOn(s)

\* CreatePlan, down to planLBChanges.
PlanInfra(s) ==
  /\ run[s].pc = "list"
  /\ Infra!ListASGs(s) \/ Infra!PlanASGs(s) \/ \E n \in ASGs : Infra!PlanLBs(s, n)
  /\ InfraGoesOn(s)

\* CreatePlan, from listAllApplications on.
PlanApps(s) ==
  /\ infra[s].pc = "planLB" /\ infra[s].todo = {}
  /\ App!ListForPlan(s) \/ \E a \in Apps : App!PlanCreate(s, a) \/ App!PlanUpdate(s, a)
  /\ AppGoesOn(s)

\* hasChanges.  What one half has no changes in, Apply goes through without effect.
Decide(s) == App!Decide(s) /\ Infra!Decide(s)

\* The prompt: a half in "approve" has changes, unless Apply is already at the other.
Asked(s) ==
  /\ run[s].pc = "approve" \/ infra[s].pc = "approve"
  /\ run[s].pc \in Ended \cup {"approve"} /\ infra[s].pc \in Ended \cup {"approve"}

Cancel(s) ==
  /\ Asked(s)
  /\ IF run[s].pc = "approve" THEN App!Cancel(s) ELSE UNCHANGED appVars
  /\ IF infra[s].pc = "approve" THEN Infra!Cancel(s) ELSE UNCHANGED infraVars

\* Mutated form of Approve: Apply takes both halves at once.
ApproveBoth(s) ==
  /\ Asked(s)
  /\ IF run[s].pc = "approve" THEN App!Approve(s) ELSE UNCHANGED appVars
  /\ IF infra[s].pc = "approve" THEN Infra!Approve(s) ELSE UNCHANGED infraVars

\* Apply begins with what has changes of the ASGs and LBs.
Approve(s) ==
  /\ Asked(s)
  /\ IF infra[s].pc = "approve"
     THEN Infra!Approve(s) /\ UNCHANGED appVars
     ELSE App!Approve(s) /\ UNCHANGED infraVars

\* Apply, down to the creation of the LBs.
ApplyInfra(s) ==
  /\ \/ Infra!Advance(s)
     \/ \E n \in ASGs : Infra!DeleteASG(s, n) \/ Infra!WaitASG(s, n) \/ Infra!CreateASG(s, n)
     \/ \E l \in LBs : Infra!DeleteLB(s, l) \/ Infra!WaitLB(s, l) \/ Infra!CreateLB(s, l)
  /\ InfraGoesOn(s)

\* The last LB is created, and Apply turns to the applications.
FinishInfra(s) ==
  /\ Infra!FinishApply(s)
  /\ IF run[s].pc = "approve" THEN App!Approve(s) ELSE UNCHANGED appVars

\* Apply, from listAllApplications on, and the activate command.
ApplyApps(s) ==
  /\ infra[s].pc \in Ended
  /\ \/ App!ListForApply(s)
     \/ \E a \in Apps :
          App!ApplyNoop(s, a) \/ App!CreateApplication(s, a) \/ App!ReadBase(s, a)
     \/ App!PostVersion(s) \/ App!Activate(s)
     \/ App!FinishApply(s) \/ App!SaveTruncate(s) \/ App!SaveWrite(s)
     \/ \E a \in Apps : App!FindApplication(s, a)
     \/ App!ResolveLatest(s) \/ App!SetActive(s)
  /\ UNCHANGED infraVars

StartActivate(s) == Free(s) /\ App!StartActivate(s) /\ UNCHANGED infraVars

\* A call of either half fails, or the process is killed.
Fail(s) ==
  \/ /\ infra[s].pc \notin Ended /\ run[s].pc \in Ended \cup {"list", "approve"}
     /\ Infra!Fail(s) /\ InfraGoesOn(s)
  \/ /\ infra[s].pc \in Ended \/ run[s].pc \in {"load", "plan"}
     /\ App!Fail(s) /\ AppGoesOn(s)

\* What others do.
Edit == App!Edit /\ Infra!Edit

Others ==
  \/ /\ \A s \in Slots : infra[s].pc \in Ended
     /\ App!LoseFile \/ App!RepairFile
     /\ UNCHANGED infraVars
  \/ /\ \E a \in Apps : App!Remove(a) \/ \E img \in DeployImages : App!Deploy(a, img)
     /\ UNCHANGED infraVars
  \/ \E o \in Infra!Objects : Infra!Gone(o) /\ UNCHANGED appVars

-----------------------------------------------------------------------------
Command(s) ==
  \/ LoadState(s) \/ PlanInfra(s) \/ PlanApps(s) \/ Decide(s)
  \/ ApplyInfra(s) \/ FinishInfra(s) \/ ApplyApps(s)

Next ==
  \/ \E s \in Slots :
       Command(s) \/ Start(s) \/ StartActivate(s) \/ Approve(s) \/ Cancel(s) \/ Fail(s)
  \/ Edit
  \/ Others

Spec == Init /\ [][Next]_vars

\* Scheduling: a command that is running goes on; the service carries deletions out;
\* and the operator, who may prefer other commands for a while, in the end edits the
\* YAML file as planned, gives up a truncated state file, runs apply again and
\* approves its plan.
Fairness ==
  /\ \A s \in Slots : WF_vars(Command(s)) /\ SF_vars(Start(s)) /\ SF_vars(Approve(s))
  /\ \A o \in Infra!Objects : WF_vars(Infra!Gone(o) /\ UNCHANGED appVars)
  /\ WF_vars(Edit)
  /\ SF_vars(App!RepairFile /\ (\A s \in Slots : infra[s].pc \in Ended) /\ UNCHANGED infraVars)

FairSpec == Spec /\ Fairness

-----------------------------------------------------------------------------
\* Safety.

InPlace(o, c) == status[o] = "ready" /\ setting[o] = c[o]

\* With one command at a time, when Apply is at the applications the ASGs and LBs
\* of the same YAML are all there, with its settings and not on their way out: the
\* versions that are posted meet the infrastructure they were written for, also after
\* applies that failed or were killed half way.  (For Steady see InfraSync.)
AppsLast ==
  \A s \in Slots : run[s].pc \in {"relist", "apply", "post", "activate", "save", "write"} =>
    \A o \in DOMAIN Clusters[run[s].cfg] : Infra!Steady(o) => InPlace(o, Clusters[run[s].cfg])

\* With one command at a time, "No changes to apply" means that there is nothing left to
\* do: each application's newest version has all that the YAML spells out, but for
\* an image the CI posted while the plan was made, and every ASG and LB is in place.
\* (Deleting an application in the console meanwhile is a change of its own.)
NoChangesIsDone ==
  [][\A s \in Slots :
       (/\ run[s].pc = "plan" /\ run'[s].pc = "idle" /\ infra'[s].pc = "idle"
        /\ count.removes = 0) =>
       /\ \A a \in DOMAIN History[run[s].cfg] :
            versions[a] # <<>> /\
            App!InSync(App!Newest(a), [History[run[s].cfg][a] EXCEPT !.inheritImage = TRUE])
       /\ \A o \in DOMAIN Clusters[run[s].cfg] :
            Infra!Steady(o) => InPlace(o, Clusters[run[s].cfg])]_vars

\* An operator who repeats apply until it succeeds ends up with all of the last
\* YAML, infrastructure and applications, whatever failed in between, at which
\* call of which half, and whatever the CI posted.
EventuallyDone ==
  <>[](/\ \A a \in DOMAIN History[yaml] :
            versions[a] # <<>> /\ App!InSync(App!Newest(a), History[yaml][a])
       /\ \A o \in DOMAIN Clusters[yaml] : InPlace(o, Clusters[yaml]))
=============================================================================
