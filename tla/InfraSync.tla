----------------------------- MODULE InfraSync -----------------------------
(***************************************************************************)
(* The infrastructure half of the provisioner: CreatePlan and Apply for    *)
(* the auto scaling groups (ASGs) of a cluster and the load balancers      *)
(* (LBs) attached to them.                                                 *)
(*                                                                         *)
(* The API cannot update either, so Apply recreates what differs from the  *)
(* YAML: it deletes LBs, waits until they are gone, deletes ASGs, waits    *)
(* for those, creates ASGs, then LBs.  The service accepts a deletion and  *)
(* carries it out later; until then the object is still read and listed.   *)
(* What exists and is not in the YAML is left alone.                       *)
(*                                                                         *)
(* The settings compareASG and compareLB look at are those the create      *)
(* requests send, so all of them together are one value here: InfraSpec    *)
(* has them one by one, and its theorems show in which sense one value     *)
(* will do.  An ID is a name and the number of the creation it is from.    *)
(* None is no settings, and no name.                                       *)
(***************************************************************************)
EXTENDS InfraSpec

CONSTANTS
  ASGs,        \* names of auto scaling groups
  LBs,         \* load balancers, each a name within one ASG
  Parent,      \* Parent[l]: name of the ASG that l is attached to
  Values,      \* what the settings of an object may be
  Refused,     \* settings the loader accepts and the service does not
  Slots,       \* processes that execute apply commands
  History,     \* the contents the YAML file takes, in order
  MaxFaults,   \* bound: commands that fail, time out or are killed
  MaxGlitches  \* bound: polls that fail though the object still exists

Objects == ASGs \cup LBs

ASSUME ObjectsAssumption ==
  ASGs \cap LBs = {} /\ Parent \in [LBs -> ASGs] /\ None \notin ASGs

ASSUME HistoryAssumption ==
  /\ Len(History) \in Nat \ {0}
  /\ \A i \in 1..Len(History) :
       /\ DOMAIN History[i] \subseteq Objects
       /\ \A o \in DOMAIN History[i] : History[i][o] \in Values

ASSUME RefusedAssumption == Refused \subseteq Values

ASSUME BoundsAssumption == MaxFaults \in Nat /\ MaxGlitches \in Nat

VARIABLES
  yaml,      \* index in History of the YAML file as it is now
  status,    \* status[o]: whether the service has o, and if so whether o is being deleted
  setting,   \* setting[o]: the settings o was last created with
  born,      \* born[o]: how often the name o was created, the number in its ID
  run,       \* run[s]: what slot s is executing
  count      \* how often each bounded event has happened

service == <<status, setting, born>>
vars == <<yaml, status, setting, born, run, count>>

Statuses == {"absent", "ready", "deleting"}
Kinds == {"none", "create", "recreate", "noop", "skip"}
Phases == {"idle", "failed", "list", "planASG", "planLB", "approve",
           "deleteLB", "waitLB", "deleteASG", "waitASG", "createASG", "createLB"}
Ended == {"idle", "failed"}

Runs ==
  [pc   : Phases,
   cfg  : 1..Len(History),                       \* the YAML file that was loaded
   ids  : [ASGs -> Nat],                         \* currentASGs, then asgNameToID; 0 for none
   plan : [Objects -> [kind : Kinds, id : Nat]], \* actions, with ExistingID, 0 for nil
   todo : SUBSET Objects,                        \* what the loop at hand has still to do
   at   : ASGs \cup {None}]                      \* the ASG whose deletion is awaited

Nothing == [kind |-> "none", id |-> 0]

At(pc) ==
  [pc |-> pc, cfg |-> 1, ids |-> [n \in ASGs |-> 0], plan |-> [o \in Objects |-> Nothing],
   todo |-> {}, at |-> None]

Counters == [faults : 0..MaxFaults, glitches : 0..MaxGlitches]

Typed ==
  /\ yaml \in 1..Len(History)
  /\ status \in [Objects -> Statuses]
  /\ setting \in [Objects -> Values \cup {None}]
  /\ born \in [Objects -> Nat]
  /\ run \in [Slots -> Runs]
  /\ count \in Counters

\* What exists has an ID, and what is planned to be recreated names the one to delete.
Identified ==
  /\ \A o \in Objects : status[o] # "absent" => born[o] # 0
  /\ \A s \in Slots, o \in Objects : run[s].plan[o].kind = "recreate" => run[s].plan[o].id # 0

\* The variables keep their types: no action reaches Apply without the ID it needs, a case
\* that sync.go:196 and sync.go:226 look out for.
TypeOK == Typed /\ Identified

\* An empty cluster.
Init ==
  /\ yaml = 1
  /\ status = [o \in Objects |-> "absent"]
  /\ setting = [o \in Objects |-> None]
  /\ born = [o \in Objects |-> 0]
  /\ run = [s \in Slots |-> At("idle")]
  /\ count = [faults |-> 0, glitches |-> 0]

-----------------------------------------------------------------------------
\* The service.

Attached(n) == {l \in LBs : Parent[l] = n /\ status[l] # "absent"}

Alive(o, id) == status[o] # "absent" /\ born[o] = id

\* Names are unique in a cluster, and in an ASG.
Created(o, v) ==
  /\ status[o] = "absent"
  /\ status' = [status EXCEPT ![o] = "ready"]
  /\ setting' = [setting EXCEPT ![o] = v]
  /\ born' = [born EXCEPT ![o] = @ + 1]

Deleted(o) ==
  /\ status' = [status EXCEPT ![o] = "deleting"]
  /\ UNCHANGED <<setting, born>>

\* A deletion that was accepted is carried out.
Gone(o) ==
  /\ status[o] = "deleting"
  /\ status' = [status EXCEPT ![o] = "absent"]
  /\ UNCHANGED <<yaml, setting, born, run, count>>

Cfg(s) == History[run[s].cfg]
Wanted(s) == DOMAIN Cfg(s)

Becomes(s, r) == run' = [run EXCEPT ![s] = r]
End(s, pc) == Becomes(s, At(pc))

-----------------------------------------------------------------------------
\* CreatePlan.

\* The IDs by name in the result of listAllASGs, what is being deleted included.
IDs == [n \in ASGs |-> IF status[n] = "absent" THEN 0 ELSE born[n]]

\* loadConfig.
Start(s) ==
  /\ run[s].pc \in Ended
  /\ Becomes(s, [At("list") EXCEPT !.cfg = yaml])
  /\ UNCHANGED <<yaml, service, count>>

\* The first listAllASGs of CreatePlan, whose result planLBChanges is given.
ListASGs(s) ==
  /\ run[s].pc = "list"
  /\ Becomes(s, [run[s] EXCEPT !.pc = "planASG", !.ids = IDs])
  /\ UNCHANGED <<yaml, service, count>>

Action(kind, id) == [kind |-> kind, id |-> id]

\* Mutated form of ASGAction: an ASG never compares as equal to its YAML.
ASGActionAlways(s, n) ==
  IF n \in Wanted(s)
  THEN IF status[n] = "absent" THEN Action("create", 0) ELSE Action("recreate", born[n])
  ELSE IF status[n] = "absent" THEN Nothing ELSE Action("skip", 0)

\* Mutated form of ASGAction: ExistingID is not set.
ASGActionUnnamed(s, n) ==
  IF n \in Wanted(s)
  THEN IF status[n] = "absent" THEN Action("create", 0)
       ELSE IF setting[n] # Cfg(s)[n] THEN Action("recreate", 0)
       ELSE Action("noop", 0)
  ELSE IF status[n] = "absent" THEN Nothing ELSE Action("skip", 0)

\* planASGChanges, for one name.
ASGAction(s, n) ==
  IF n \in Wanted(s)
  THEN IF status[n] = "absent" THEN Action("create", 0)
       ELSE IF setting[n] # Cfg(s)[n] THEN Action("recreate", born[n])
       ELSE Action("noop", 0)
  ELSE IF status[n] = "absent" THEN Nothing ELSE Action("skip", 0)

\* Mutated form of LBAction: it is not told which ASGs are recreated.
LBActionAlone(s, l) ==
  IF l \in Wanted(s)
  THEN IF status[l] = "absent" THEN Action("create", 0)
       ELSE IF setting[l] # Cfg(s)[l] THEN Action("recreate", born[l])
       ELSE Action("noop", 0)
  ELSE IF status[l] = "absent" THEN Nothing ELSE Action("skip", 0)

\* planLBChanges, for one LB of an ASG that was listed.
LBAction(s, l) ==
  IF l \in Wanted(s)
  THEN IF status[l] = "absent" THEN Action("create", 0)
       ELSE IF run[s].plan[Parent[l]].kind = "recreate" \/ setting[l] # Cfg(s)[l]
            THEN Action("recreate", born[l])
            ELSE Action("noop", 0)
  ELSE IF status[l] = "absent" THEN Nothing ELSE Action("skip", 0)

\* planASGChanges lists the ASGs again.  An LB of an ASG that the first listing
\* did not have is planned to be created.
PlanASGs(s) ==
  /\ run[s].pc = "planASG"
  /\ Becomes(s, [run[s] EXCEPT
       !.pc = "planLB",
       !.plan = [o \in Objects |->
                   IF o \in ASGs THEN ASGAction(s, o)
                   ELSE IF o \in Wanted(s) /\ run[s].ids[Parent[o]] = 0
                        THEN Action("create", 0) ELSE Nothing],
       !.todo = {n \in ASGs : run[s].ids[n] # 0}])
  /\ UNCHANGED <<yaml, service, count>>

\* listAllLBs for one of the ASGs of the first listing, which fails when the
\* ASG is gone.
PlanLBs(s, n) ==
  /\ run[s].pc = "planLB" /\ n \in run[s].todo
  /\ IF Alive(n, run[s].ids[n])
     THEN Becomes(s, [run[s] EXCEPT
            !.plan = [o \in Objects |->
                        IF o \in LBs /\ Parent[o] = n THEN LBAction(s, o) ELSE @[o]],
            !.todo = @ \ {n}])
     ELSE End(s, "failed")
  /\ UNCHANGED <<yaml, service, count>>

\* printPlan and hasChanges.  Without changes here Apply, if it runs at all, has
\* only applications to work on.
Decide(s) ==
  /\ run[s].pc = "planLB" /\ run[s].todo = {}
  /\ IF \E o \in Objects : run[s].plan[o].kind \in {"create", "recreate"}
     THEN Becomes(s, [run[s] EXCEPT !.pc = "approve"])
     ELSE End(s, "idle")
  /\ UNCHANGED <<yaml, service, count>>

Cancel(s) ==
  /\ run[s].pc = "approve"
  /\ End(s, "idle")
  /\ UNCHANGED <<yaml, service, count>>

-----------------------------------------------------------------------------
\* Apply.

\* Mutated form of Work: what is recreated is deleted, and not created.
WorkOnce(r, pc) ==
  {o \in IF pc \in {"deleteASG", "createASG"} THEN ASGs ELSE LBs :
     r.plan[o].kind = IF pc \in {"createASG", "createLB"} THEN "create" ELSE "recreate"}

\* What the loop of phase pc goes through.
Work(r, pc) ==
  {o \in IF pc \in {"deleteASG", "createASG"} THEN ASGs ELSE LBs :
     \/ r.plan[o].kind = "recreate"
     \/ r.plan[o].kind = "create" /\ pc \in {"createASG", "createLB"}}

Enter(r, pc) == [r EXCEPT !.pc = pc, !.todo = Work(r, pc)]

\* The prompt is answered with yes, and Apply lists the ASGs.
Approve(s) ==
  /\ run[s].pc = "approve"
  /\ Becomes(s, Enter([run[s] EXCEPT !.ids = IDs], "deleteLB"))
  /\ UNCHANGED <<yaml, service, count>>

\* Mutated form of After: the LBs are not waited for.
AfterAtOnce ==
  [deleteLB |-> "deleteASG", waitLB |-> "deleteASG", deleteASG |-> "createASG",
   createASG |-> "createLB"]

After ==
  [deleteLB |-> "waitLB", waitLB |-> "deleteASG", deleteASG |-> "createASG",
   createASG |-> "createLB"]

\* A loop of Apply is through.
Advance(s) ==
  /\ run[s].pc \in DOMAIN After /\ run[s].todo = {}
  /\ Becomes(s, Enter(run[s], After[run[s].pc]))
  /\ UNCHANGED <<yaml, service, count>>

\* The last loop is through; the applications follow.
FinishApply(s) ==
  /\ run[s].pc = "createLB" /\ run[s].todo = {}
  /\ End(s, "idle")
  /\ UNCHANGED <<yaml, service, count>>

Turn(s, pc, o) == run[s].pc = pc /\ o \in run[s].todo

\* Mutated form of Target: the name is looked up again.
TargetByName(s, o) == born[o]

\* ExistingID of an action.
Target(s, o) == run[s].plan[o].id

\* DeleteLoadBalancer, which a second deletion does not disturb.
DeleteLB(s, l) ==
  /\ Turn(s, "deleteLB", l)
  /\ \/ /\ Alive(l, Target(s, l))
        /\ Deleted(l)
        /\ Becomes(s, [run[s] EXCEPT !.todo = @ \ {l}])
     \/ /\ ~Alive(l, Target(s, l))
        /\ End(s, "failed")
        /\ UNCHANGED service
  /\ UNCHANGED <<yaml, count>>

\* An answer that ends the polling: the object is not there, or the call failed in
\* any way (a refusal of the credentials too, see DeniedEndsWait in Exchange).  A
\* poll that finds the object changes nothing.
PolledGone(o, id) ==
  \/ ~Alive(o, id) /\ UNCHANGED count
  \/ /\ Alive(o, id) /\ count.glitches < MaxGlitches
     /\ count' = [count EXCEPT !.glitches = @ + 1]

\* waitForLBDeletion.
WaitLB(s, l) ==
  /\ Turn(s, "waitLB", l)
  /\ PolledGone(l, Target(s, l))
  /\ Becomes(s, [run[s] EXCEPT !.todo = @ \ {l}])
  /\ UNCHANGED <<yaml, service>>

\* DeleteAutoScalingGroup; the service keeps an ASG that has LBs.
DeleteASG(s, n) ==
  /\ Turn(s, "deleteASG", n)
  /\ \/ /\ Alive(n, Target(s, n)) /\ Attached(n) = {}
        /\ Deleted(n)
        /\ Becomes(s, [run[s] EXCEPT !.pc = "waitASG", !.todo = @ \ {n}, !.at = n])
     \/ /\ ~Alive(n, Target(s, n)) \/ Attached(n) # {}
        /\ End(s, "failed")
        /\ UNCHANGED service
  /\ UNCHANGED <<yaml, count>>

\* waitForASGDeletion, and the next turn of the loop.
WaitASG(s, n) ==
  /\ run[s].pc = "waitASG" /\ run[s].at = n
  /\ PolledGone(n, Target(s, n))
  /\ Becomes(s, [run[s] EXCEPT !.pc = "deleteASG", !.at = None, !.ids[n] = 0])
  /\ UNCHANGED <<yaml, service>>

\* CreateAutoScalingGroup; a name that is taken is refused, and so are settings
\* that Load, which looks at applications only, lets through.
CreateASG(s, n) ==
  /\ Turn(s, "createASG", n)
  /\ \/ /\ Cfg(s)[n] \notin Refused /\ Created(n, Cfg(s)[n])
        /\ Becomes(s, [run[s] EXCEPT !.todo = @ \ {n}, !.ids[n] = born[n] + 1])
     \/ /\ Cfg(s)[n] \in Refused \/ status[n] # "absent"
        /\ End(s, "failed")
        /\ UNCHANGED service
  /\ UNCHANGED <<yaml, count>>

\* CreateLoadBalancer, in an ASG that is there and stays.  The ASG of the YAML
\* may have no ID, when no ASG of that name was listed or created.
CreateLB(s, l) ==
  LET n == Parent[l]
      ready == Alive(n, run[s].ids[n]) /\ status[n] = "ready"
  IN
  /\ Turn(s, "createLB", l)
  /\ \/ /\ ready /\ Cfg(s)[l] \notin Refused /\ Created(l, Cfg(s)[l])
        /\ Becomes(s, [run[s] EXCEPT !.todo = @ \ {l}])
     \/ /\ ~ready \/ Cfg(s)[l] \in Refused \/ status[l] # "absent"
        /\ End(s, "failed")
        /\ UNCHANGED service
  /\ UNCHANGED <<yaml, count>>

-----------------------------------------------------------------------------
\* Failures and the environment.

\* A call fails, a wait exceeds its ten minutes, or the process is killed.
Fail(s) ==
  /\ run[s].pc \notin Ended
  /\ count.faults < MaxFaults
  /\ count' = [count EXCEPT !.faults = @ + 1]
  /\ End(s, "failed")
  /\ UNCHANGED <<yaml, service>>

\* What the command does besides fails: before it lists the ASGs it loads the state
\* file and resolves the cluster's name, and after the LBs it reads the applications.
Abandon(s) ==
  /\ run[s].pc = "list" \/ (run[s].pc = "planLB" /\ run[s].todo = {})
  /\ End(s, "failed")
  /\ UNCHANGED <<yaml, service, count>>

\* The operator edits the YAML file.
Edit ==
  /\ yaml < Len(History)
  /\ yaml' = yaml + 1
  /\ UNCHANGED <<service, run, count>>

-----------------------------------------------------------------------------
Command(s) ==
  \/ ListASGs(s) \/ PlanASGs(s) \/ Decide(s) \/ Advance(s) \/ FinishApply(s)
  \/ \E n \in ASGs : PlanLBs(s, n) \/ DeleteASG(s, n) \/ WaitASG(s, n) \/ CreateASG(s, n)
  \/ \E l \in LBs : DeleteLB(s, l) \/ WaitLB(s, l) \/ CreateLB(s, l)

Next ==
  \/ \E s \in Slots : Command(s) \/ Start(s) \/ Approve(s) \/ Cancel(s) \/ Abandon(s) \/ Fail(s)
  \/ \E o \in Objects : Gone(o)
  \/ Edit

Spec == Init /\ [][Next]_vars

\* Scheduling: a command that is running goes on, what it does besides does not fail
\* each time, the service carries out the deletions it accepted, and the operator,
\* who may prefer otherwise for a while, in the end edits the YAML file as planned,
\* runs apply again and approves.
Fairness ==
  /\ \A s \in Slots : /\ WF_vars(Command(s)) /\ SF_vars(ListASGs(s)) /\ SF_vars(Decide(s))
                       /\ SF_vars(Start(s)) /\ SF_vars(Approve(s))
  /\ \A o \in Objects : WF_vars(Gone(o))
  /\ WF_vars(Edit)

FairSpec == Spec /\ Fairness

-----------------------------------------------------------------------------
\* Safety.

Differs(o, c) == setting[o] # c[o]

\* Why a YAML c lets apply delete o: o is not what it says, or o is an LB of an
\* ASG that is not.
Outdated(o, c) ==
  /\ o \in DOMAIN c
  /\ \/ Differs(o, c)
     \/ o \in LBs /\ Parent[o] \in DOMAIN c /\ Differs(Parent[o], c)

\* Whatever other commands delete, create or wait for between a plan, its approval
\* and its execution, what a command deletes is outdated by its own YAML at that
\* very moment: never an object another command has just brought up to date, never
\* one that the YAML does not name.
OnlyOutdatedDeleted ==
  [][\A o \in Objects :
       status[o] = "ready" /\ status'[o] = "deleting" =>
         \E s \in Slots : run'[s] # run[s] /\ Outdated(o, Cfg(s))]_vars

\* With one command at a time, when it is the turn of an ASG to be deleted no LB of
\* the YAML is attached to it any more: planning an LB to be recreated with its
\* ASG, deleting the LBs before and waiting for them is what this takes.
\* (A poll that fails ends the wait too early, so none may have failed.)
ManagedGoneFirst ==
  \A s \in Slots, n \in ASGs :
    Turn(s, "deleteASG", n) /\ count.glitches = 0 => Attached(n) \cap Wanted(s) = {}

\* The YAML files never return to settings that o had in an earlier one, nor its ASG.
Returns(o) ==
  \E i, j, k \in 1..Len(History) :
    /\ i < j /\ j < k /\ \A m \in {i, j, k} : o \in DOMAIN History[m]
    /\ History[i][o] = History[k][o] /\ History[i][o] # History[j][o]

\* A YAML file still names the LB l, and no longer the ASG it is attached to.
Dropped(l) ==
  \E j, k \in 1..Len(History) :
    /\ j < k /\ l \in DOMAIN History[j] \cap DOMAIN History[k]
    /\ Parent[l] \in DOMAIN History[j] \ DOMAIN History[k]

Steady(o) == ~Returns(o) /\ (o \in LBs => ~Returns(Parent[o]) /\ ~Dropped(o))

\* When an apply completes, or finds nothing to do, with no other command in
\* progress, all that the YAML names is there to stay, with its settings: what
\* was deleted to be recreated is back, even after an apply that was killed half
\* way, or one that took an object for gone too early.
\* (Save what the YAML gives settings back that it had before, and LBs whose ASG it
\* drops: what an interrupted apply is deleting for it then passes as up to date.)
ApplyDone ==
  [][\A s \in Slots :
       run[s].pc \in {"planLB", "createLB"} /\ run'[s].pc = "idle" =>
         \A o \in Wanted(s) : Steady(o) => status[o] = "ready" /\ ~Differs(o, Cfg(s))]_vars

\* An operator who repeats apply until it succeeds gets the ASGs and LBs of the
\* last YAML, whichever calls failed between the deletions and the creations.
EventuallyBuilt ==
  <>[](\A o \in DOMAIN History[yaml] : status[o] = "ready" /\ ~Differs(o, History[yaml]))

-----------------------------------------------------------------------------
\* Refinement.

Promise == INSTANCE Cluster

\* All that others see of any number of interleaved, failing and repeated applies is
\* the promise of Cluster: nothing vanishes that no YAML file outdates, no ASG goes
\* under an LB, and what is created is what a YAML file says.
KeepsPromise == Promise!Spec

-----------------------------------------------------------------------------
\* What the documentation says, and the code does not do.

\* README.md:380, the LBs are deleted before the ASG they depend on is.  Those that
\* are not in the YAML are skipped, also when their ASG is to be recreated.
LBsDeletedFirst ==
  \A s \in Slots, n \in ASGs : Turn(s, "deleteASG", n) => Attached(n) = {}
=============================================================================
