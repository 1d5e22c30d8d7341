-------------------------- MODULE ProvisionerProofs --------------------------
(***************************************************************************)
(* The whole command does to the applications what AppSync allows, and to  *)
(* the ASGs and LBs what InfraSync allows, so that what is proved of the   *)
(* halves holds of the whole.                                              *)
(***************************************************************************)
EXTENDS Provisioner, TLAPS

-----------------------------------------------------------------------------
\* The steps of the whole are steps of each half, or leave it alone.

LEMMA AppAlone == UNCHANGED <<yaml, appVars>> => UNCHANGED App!vars
BY DEF appVars, App!vars

LEMMA InfraAlone == UNCHANGED <<yaml, infraVars>> => UNCHANGED Infra!vars
BY DEF infraVars, Infra!vars

\* A step of one half takes the other along, in a step of its own, or not at all.
LEMMA AppGoesOnInfra ==
  ASSUME NEW s \in Slots, AppGoesOn(s), yaml' = yaml
  PROVE  [Infra!Next]_(Infra!vars)
<1>1. CASE Infra!Abandon(s)
  BY <1>1 DEF Infra!Next
<1>2. CASE UNCHANGED infraVars
  BY <1>2, InfraAlone
<1> QED
  BY <1>1, <1>2 DEF AppGoesOn

LEMMA InfraGoesOnApp ==
  ASSUME NEW s \in Slots, InfraGoesOn(s), yaml' = yaml
  PROVE  [App!Next]_(App!vars)
<1>1. CASE App!Abandon(s)
  BY <1>1 DEF App!Next
<1>2. CASE UNCHANGED appVars
  BY <1>2, AppAlone
<1> QED
  BY <1>1, <1>2 DEF InfraGoesOn

LEMMA CommandSteps ==
  ASSUME NEW s \in Slots, Command(s)
  PROVE  [App!Next]_(App!vars) /\ [Infra!Next]_(Infra!vars)
<1>0. CASE LoadState(s)
  <2>1. App!Next /\ yaml' = yaml
    BY <1>0 DEF LoadState, App!Next, App!Command, App!LoadState
  <2> QED
    BY <1>0, <2>1, AppGoesOnInfra DEF LoadState
<1>1. CASE PlanInfra(s)
  <2>1. Infra!Next /\ yaml' = yaml
    BY <1>1 DEF PlanInfra, Infra!Next, Infra!Command, Infra!ListASGs, Infra!PlanASGs,
       Infra!PlanLBs
  <2> QED
    BY <1>1, <2>1, InfraGoesOnApp DEF PlanInfra
<1>2. CASE PlanApps(s)
  <2>1. App!Next /\ yaml' = yaml
    BY <1>2 DEF PlanApps, App!Next, App!Command, App!ListForPlan, App!PlanCreate, App!PlanUpdate
  <2> QED
    BY <1>2, <2>1, AppGoesOnInfra DEF PlanApps
<1>3. CASE Decide(s)
  BY <1>3 DEF Decide, App!Next, App!Command, Infra!Next, Infra!Command
<1>4. CASE ApplyInfra(s)
  <2>1. Infra!Next
    BY <1>4 DEF ApplyInfra, Infra!Next, Infra!Command
  <2>2. yaml' = yaml
    BY <1>4 DEF ApplyInfra, Infra!Advance, Infra!DeleteASG, Infra!WaitASG, Infra!CreateASG,
       Infra!DeleteLB, Infra!WaitLB, Infra!CreateLB
  <2> QED
    BY <1>4, <2>1, <2>2, InfraGoesOnApp DEF ApplyInfra
<1>5. CASE FinishInfra(s)
  <2>1. Infra!Next /\ yaml' = yaml
    BY <1>5 DEF FinishInfra, Infra!Next, Infra!Command, Infra!FinishApply
  <2>2. [App!Next]_(App!vars)
    BY <1>5, <2>1, AppAlone DEF FinishInfra, App!Next
  <2> QED
    BY <2>1, <2>2
<1>6. CASE ApplyApps(s)
  <2>1. App!Next
    BY <1>6 DEF ApplyApps, App!Next, App!Command
  <2>2. yaml' = yaml
    BY <1>6 DEF ApplyApps, App!ListForApply, App!ApplyNoop, App!CreateApplication, App!ReadBase,
       App!PostVersion, App!Activate, App!FinishApply, App!SaveTruncate, App!SaveWrite,
       App!FindApplication, App!ResolveLatest, App!SetActive
  <2>3. [Infra!Next]_(Infra!vars)
    BY <1>6, <2>2, InfraAlone DEF ApplyApps
  <2> QED
    BY <2>1, <2>3
<1> QED
  BY <1>0, <1>1, <1>2, <1>3, <1>4, <1>5, <1>6 DEF Command

LEMMA OperatorSteps ==
  ASSUME NEW s \in Slots, Start(s) \/ StartActivate(s) \/ Approve(s) \/ Cancel(s) \/ Fail(s)
  PROVE  [App!Next]_(App!vars) /\ [Infra!Next]_(Infra!vars)
<1>1. CASE Start(s)
  BY <1>1 DEF Start, App!Next, Infra!Next
<1>2. CASE StartActivate(s)
  <2>1. App!Next /\ yaml' = yaml
    BY <1>2 DEF StartActivate, App!Next, App!StartActivate
  <2> QED
    BY <1>2, <2>1, InfraAlone DEF StartActivate
<1>3. CASE Approve(s)
  <2>1. CASE Infra!Approve(s) /\ UNCHANGED appVars
    <3>1. Infra!Next /\ yaml' = yaml
      BY <2>1 DEF Infra!Next, Infra!Approve
    <3> QED
      BY <2>1, <3>1, AppAlone
  <2>2. CASE App!Approve(s) /\ UNCHANGED infraVars
    <3>1. App!Next /\ yaml' = yaml
      BY <2>2 DEF App!Next, App!Approve
    <3> QED
      BY <2>2, <3>1, InfraAlone
  <2> QED
    BY <1>3, <2>1, <2>2 DEF Approve
<1>4. CASE Cancel(s)
  <2>1. App!Cancel(s) => App!Next /\ yaml' = yaml
    BY DEF App!Next, App!Cancel
  <2>2. Infra!Cancel(s) => Infra!Next /\ yaml' = yaml
    BY DEF Infra!Next, Infra!Cancel
  <2>3. (App!Cancel(s) \/ UNCHANGED appVars) /\ (Infra!Cancel(s) \/ UNCHANGED infraVars)
        /\ (App!Cancel(s) \/ Infra!Cancel(s))
    BY <1>4 DEF Cancel, Asked
  <2> QED
    BY <2>1, <2>2, <2>3, AppAlone, InfraAlone
<1>5. CASE Fail(s)
  <2>1. CASE Infra!Fail(s) /\ InfraGoesOn(s)
    <3>1. Infra!Next /\ yaml' = yaml
      BY <2>1 DEF Infra!Next, Infra!Fail
    <3> QED
      BY <2>1, <3>1, InfraGoesOnApp
  <2>2. CASE App!Fail(s) /\ AppGoesOn(s)
    <3>1. App!Next /\ yaml' = yaml
      BY <2>2 DEF App!Next, App!Fail
    <3> QED
      BY <2>2, <3>1, AppGoesOnInfra
  <2> QED
    BY <1>5, <2>1, <2>2 DEF Fail
<1> QED
  BY <1>1, <1>2, <1>3, <1>4, <1>5

LEMMA OtherSteps ==
  Edit \/ Others => [App!Next]_(App!vars) /\ [Infra!Next]_(Infra!vars)
<1>1. ASSUME Edit PROVE App!Next /\ Infra!Next
  BY <1>1 DEF Edit, App!Next, Infra!Next
<1>2. ASSUME App!LoseFile \/ App!RepairFile, UNCHANGED infraVars
      PROVE  App!Next /\ UNCHANGED Infra!vars
  BY <1>2, InfraAlone DEF App!Next, App!LoseFile, App!RepairFile, App!NoFile
<1>3. ASSUME NEW a \in Apps, App!Remove(a) \/ \E img \in DeployImages : App!Deploy(a, img),
             UNCHANGED infraVars
      PROVE  App!Next /\ UNCHANGED Infra!vars
  BY <1>3, InfraAlone DEF App!Next, App!Remove, App!Deploy
<1>4. ASSUME NEW o \in Infra!Objects, Infra!Gone(o), UNCHANGED appVars
      PROVE  Infra!Next /\ UNCHANGED App!vars
  BY <1>4, AppAlone DEF Infra!Next, Infra!Gone
<1> QED
  BY <1>1, <1>2, <1>3, <1>4 DEF Others

LEMMA Steps == [Next]_vars => [App!Next]_(App!vars) /\ [Infra!Next]_(Infra!vars)
<1>1. CASE UNCHANGED vars
  BY <1>1, AppAlone, InfraAlone DEF vars
<1> QED
  BY <1>1, CommandSteps, OperatorSteps, OtherSteps DEF Next

\* Whatever the two halves of a command do to one another's timing (sync.go:97-167 and
\* 170-381), each does only what its own specification allows.
THEOREM HalvesFollowed == Spec => App!Spec /\ Infra!Spec
<1>1. Init => App!Init /\ Infra!Init
  BY DEF Init
<1> QED
  BY <1>1, Steps, PTL DEF Spec, App!Spec, Infra!Spec

-----------------------------------------------------------------------------
\* What is proved of the halves, read with the names of Provisioner: the modules with
\* the proofs are instances of their own, of the same definitions.

InfraFacts == INSTANCE InfraSyncProofs WITH
  Values <- Sizes, MaxFaults <- MaxLapses, History <- Clusters,
  born <- made, run <- infra, count <- lapses
AppFacts == INSTANCE AppSyncProofs

LEMMA SameInfraInit ==
  ASSUME Infra!Init PROVE InfraFacts!Init
  BY Zenon
  DEF Infra!Init, InfraFacts!Init, Infra!Objects, InfraFacts!Objects, Infra!At, InfraFacts!At,
      Infra!Nothing, InfraFacts!Nothing

LEMMA SameInfraNext ==
  ASSUME Infra!Next PROVE InfraFacts!Next
  BY Zenon
  DEF Infra!Next, InfraFacts!Next, Infra!Command, InfraFacts!Command, Infra!ListASGs,
      InfraFacts!ListASGs, Infra!PlanASGs,
      InfraFacts!PlanASGs, Infra!Becomes, InfraFacts!Becomes, Infra!Objects, InfraFacts!Objects,
      Infra!ASGAction, InfraFacts!ASGAction, Infra!Wanted, InfraFacts!Wanted, Infra!Cfg,
      InfraFacts!Cfg, Infra!Action, InfraFacts!Action, Infra!Nothing, InfraFacts!Nothing,
      Infra!service, InfraFacts!service, Infra!Decide, InfraFacts!Decide, Infra!End,
      InfraFacts!End, Infra!At, InfraFacts!At, Infra!Advance, InfraFacts!Advance, Infra!After,
      InfraFacts!After, Infra!Enter, InfraFacts!Enter, Infra!Work, InfraFacts!Work,
      Infra!FinishApply, InfraFacts!FinishApply, Infra!PlanLBs, InfraFacts!PlanLBs, Infra!Alive,
      InfraFacts!Alive, Infra!LBAction, InfraFacts!LBAction, Infra!DeleteASG,
      InfraFacts!DeleteASG, Infra!Turn, InfraFacts!Turn, Infra!Target, InfraFacts!Target,
      Infra!Attached, InfraFacts!Attached, Infra!Deleted, InfraFacts!Deleted, Infra!WaitASG,
      InfraFacts!WaitASG, Infra!PolledGone, InfraFacts!PolledGone, Infra!CreateASG,
      InfraFacts!CreateASG, Infra!Created, InfraFacts!Created, Infra!DeleteLB,
      InfraFacts!DeleteLB, Infra!WaitLB, InfraFacts!WaitLB, Infra!CreateLB, InfraFacts!CreateLB,
      Infra!Start, InfraFacts!Start, Infra!Ended, InfraFacts!Ended, Infra!IDs, InfraFacts!IDs,
      Infra!Approve, InfraFacts!Approve, Infra!Cancel, InfraFacts!Cancel, Infra!Abandon,
      InfraFacts!Abandon, Infra!Fail, InfraFacts!Fail, Infra!Gone, InfraFacts!Gone, Infra!Edit,
      InfraFacts!Edit

LEMMA SameAppInit ==
  ASSUME App!Init PROVE AppFacts!Init
  BY Zenon
  DEF App!Init, AppFacts!Init, App!EmptyFile, AppFacts!EmptyFile, App!NoEntry, AppFacts!NoEntry,
      App!At, AppFacts!At, App!NilVersion, AppFacts!NilVersion, App!Settings, AppFacts!Settings,
      App!NoEnv, AppFacts!NoEnv

LEMMA SameAppNext ==
  ASSUME App!Next PROVE AppFacts!Next
  BY Zenon
  DEF App!Next, AppFacts!Next, App!Command, AppFacts!Command, App!LoadState,
      AppFacts!LoadState, App!ListForPlan,
      AppFacts!ListForPlan, App!Becomes, AppFacts!Becomes, App!IDs, AppFacts!IDs, App!Wanted,
      AppFacts!Wanted, App!Cfg, AppFacts!Cfg, App!server, AppFacts!server, App!disk,
      AppFacts!disk, App!PlanCreate, AppFacts!PlanCreate, App!Planned, AppFacts!Planned,
      App!PlanUpdate, AppFacts!PlanUpdate, App!Alive, AppFacts!Alive, App!Latest,
      AppFacts!Latest, App!NilVersion, AppFacts!NilVersion, App!Settings, AppFacts!Settings,
      App!NoEnv, AppFacts!NoEnv, App!Read, AppFacts!Read, App!Masked, AppFacts!Masked,
      App!LatestOf, AppFacts!LatestOf, App!Changed, AppFacts!Changed, App!SettingChanges,
      AppFacts!SettingChanges, App!ImageChanged, AppFacts!ImageChanged, App!EnvChanged,
      AppFacts!EnvChanged, App!Names, AppFacts!Names, App!SecretVersionChanged,
      AppFacts!SecretVersionChanged, App!PasswordChanged, AppFacts!PasswordChanged, App!End,
      AppFacts!End, App!At, AppFacts!At, App!EmptyFile, AppFacts!EmptyFile, App!NoEntry,
      AppFacts!NoEntry, App!Decide, AppFacts!Decide, App!ListForApply, AppFacts!ListForApply,
      App!ApplyNoop, AppFacts!ApplyNoop, App!Turn, AppFacts!Turn, App!CreateApplication,
      AppFacts!CreateApplication, App!ReadBase, AppFacts!ReadBase, App!PostVersion,
      AppFacts!PostVersion, App!Store, AppFacts!Store, App!StoredEnv, AppFacts!StoredEnv,
      App!BuildRequest, AppFacts!BuildRequest, App!BuildImage, AppFacts!BuildImage,
      App!PasswordAction, AppFacts!PasswordAction, App!BuildEnv, AppFacts!BuildEnv, App!Newest,
      AppFacts!Newest, App!Applied, AppFacts!Applied, App!Recorded, AppFacts!Recorded,
      App!RecordPw, AppFacts!RecordPw, App!RecordSec, AppFacts!RecordSec, App!Modifies,
      AppFacts!Modifies, App!Activate, AppFacts!Activate, App!FinishApply, AppFacts!FinishApply,
      App!SaveTruncate, AppFacts!SaveTruncate, App!SaveWrite, AppFacts!SaveWrite,
      App!FindApplication, AppFacts!FindApplication, App!ResolveLatest, AppFacts!ResolveLatest,
      App!SetActive, AppFacts!SetActive, App!Start, AppFacts!Start, App!Ended, AppFacts!Ended,
      App!StartActivate, AppFacts!StartActivate, App!Approve, AppFacts!Approve, App!Cancel,
      AppFacts!Cancel, App!Abandon, AppFacts!Abandon, App!Fail, AppFacts!Fail, App!LoseFile,
      AppFacts!LoseFile, App!NoFile, AppFacts!NoFile, App!RepairFile, AppFacts!RepairFile,
      App!Edit, AppFacts!Edit, App!Remove, AppFacts!Remove, App!Deploy, AppFacts!Deploy

LEMMA SameInfra == Infra!Spec => InfraFacts!Spec
<1>1. [Infra!Next]_(Infra!vars) => [InfraFacts!Next]_(InfraFacts!vars)
  BY SameInfraNext DEF Infra!vars, InfraFacts!vars
<1> QED
  BY <1>1, SameInfraInit, PTL DEF Infra!Spec, InfraFacts!Spec

LEMMA SameApp == App!Spec => AppFacts!Spec
<1>1. [App!Next]_(App!vars) => [AppFacts!Next]_(AppFacts!vars)
  BY SameAppNext DEF App!vars, AppFacts!vars
<1> QED
  BY <1>1, SameAppInit, PTL DEF App!Spec, AppFacts!Spec

LEMMA InfraAssumed ==
  /\ InfraFacts!ObjectsAssumption /\ InfraFacts!HistoryAssumption
  /\ InfraFacts!RefusedAssumption /\ InfraFacts!BoundsAssumption
BY HalvesAssumption
DEF Infra!ObjectsAssumption, Infra!HistoryAssumption, Infra!RefusedAssumption,
    Infra!BoundsAssumption, InfraFacts!ObjectsAssumption, InfraFacts!HistoryAssumption,
    InfraFacts!RefusedAssumption, InfraFacts!BoundsAssumption, Infra!Objects, InfraFacts!Objects

LEMMA AppAssumed ==
  /\ AppFacts!ValuesAssumption /\ AppFacts!NoneAssumption
  /\ AppFacts!HistoryAssumption /\ AppFacts!BoundsAssumption
BY HalvesAssumption, Zenon
DEF App!ValuesAssumption, App!NoneAssumption, App!HistoryAssumption, App!BoundsAssumption,
    AppFacts!ValuesAssumption, AppFacts!NoneAssumption, AppFacts!HistoryAssumption,
    AppFacts!BoundsAssumption, App!ApplicationSpec, AppFacts!ApplicationSpec,
    App!EnvVarConfig, AppFacts!EnvVarConfig, App!Opt, AppFacts!Opt, App!EnvOf, AppFacts!EnvOf,
    App!Settings, AppFacts!Settings, App!Validate, AppFacts!Validate,
    App!ModeSettings, AppFacts!ModeSettings, App!Names, AppFacts!Names

\* The types of the two halves.
LEMMA HalvesTyped == Spec => [](AppFacts!TypeOK /\ InfraFacts!TypeOK)
<1>1. AppFacts!Spec => []AppFacts!TypeOK
  BY AppFacts!TypeCorrect, AppAssumed
<1>2. InfraFacts!Spec => []InfraFacts!TypeOK
  BY InfraFacts!InfraTypeCorrect, InfraAssumed
<1> QED
  BY <1>1, <1>2, SameApp, SameInfra, HalvesFollowed, PTL

-----------------------------------------------------------------------------
\* One command at a time: how its two halves take turns.

OneCommand == \A s, t \in Slots : s = t

Building == {"deleteLB", "waitLB", "deleteASG", "waitASG", "createASG", "createLB"}
Later == {"relist", "apply", "post", "activate", "save", "write"}
Activating == {"find", "latest", "set"}

BuiltFor(i) == \A o \in DOMAIN Clusters[i] : Infra!Steady(o) => InPlace(o, Clusters[i])

SameYAML(s) == run[s].cfg = infra[s].cfg

\* Where the halves of a command are to each other.
Ordered(s) ==
  \/ run[s].pc \in Ended
  \/ run[s].pc = "load" /\ infra[s].pc = "list" /\ SameYAML(s)
  \/ run[s].pc = "list" /\ infra[s].pc \in {"list", "planASG", "planLB"} /\ SameYAML(s)
  \/ run[s].pc = "plan" /\ infra[s].pc = "planLB" /\ SameYAML(s)
  \/ run[s].pc = "approve" /\ infra[s].pc \in {"approve"} \cup Building /\ SameYAML(s)
  \/ run[s].pc \in {"approve"} \cup Later /\ infra[s].pc \in Ended /\ BuiltFor(run[s].cfg)
  \/ run[s].pc \in Activating /\ infra[s].pc \in Ended

OrderInv == \A s \in Slots : Ordered(s)

Typed ==
  /\ run \in [Slots -> AppFacts!Runs] /\ infra \in [Slots -> InfraFacts!Runs]
  /\ status \in [Infra!Objects -> Infra!Statuses]

\* Where the steps of the applications lead.
LEMMA AppBecomes ==
  ASSUME Typed, NEW s \in Slots
  PROVE  /\ \A r : App!Becomes(s, r) => run'[s] = r
         /\ \A pc : App!End(s, pc) => run'[s].pc = pc
         /\ run[s] \in AppFacts!Runs
  BY DEF Typed, App!Becomes, App!End, App!At

LEMMA InfraBecomes ==
  ASSUME Typed, NEW s \in Slots
  PROVE  /\ \A r : Infra!Becomes(s, r) => infra'[s] = r
         /\ \A pc : Infra!End(s, pc) => infra'[s].pc = pc
         /\ infra[s] \in InfraFacts!Runs
  BY DEF Typed, Infra!Becomes, Infra!End, Infra!At

LEMMA AppStarts ==
  ASSUME Typed, NEW s \in Slots
  PROVE  /\ App!Start(s) => run'[s].pc = "load" /\ run'[s].cfg = yaml
         /\ App!StartActivate(s) => run'[s].pc = "find"
<1>1. \A opts : /\ [App!At("load") EXCEPT !.cfg = yaml, !.opts = opts].pc = "load"
                /\ [App!At("load") EXCEPT !.cfg = yaml, !.opts = opts].cfg = yaml
  BY DEF App!At
<1>2. [App!At("find") EXCEPT !.cfg = yaml].pc = "find"
  BY DEF App!At
<1> QED
  BY <1>1, <1>2, AppBecomes DEF App!Start, App!StartActivate

LEMMA AppLoads ==
  ASSUME Typed, NEW s \in Slots, App!LoadState(s)
  PROVE  /\ run[s].pc = "load"
         /\ run'[s].pc = "failed" \/ (run'[s].pc = "list" /\ run'[s].cfg = run[s].cfg)
<1>1. \A m : /\ [run[s] EXCEPT !.pc = "list", !.mem = m].pc = "list"
             /\ [run[s] EXCEPT !.pc = "list", !.mem = m].cfg = run[s].cfg
  BY AppBecomes DEF AppFacts!Runs
<1> QED
  BY <1>1, AppBecomes DEF App!LoadState

LEMMA AppPlans ==
  ASSUME Typed, NEW s \in Slots,
         App!ListForPlan(s) \/ \E a \in Apps : App!PlanCreate(s, a) \/ App!PlanUpdate(s, a)
  PROVE  /\ run[s].pc \in {"list", "plan"}
         /\ run'[s].pc = "failed" \/ (run'[s].pc = "plan" /\ run'[s].cfg = run[s].cfg)
<1>0. run[s] \in AppFacts!Runs
  BY AppBecomes
<1>1. CASE App!ListForPlan(s)
  <2>1. \A r : r = [run[s] EXCEPT !.pc = "plan", !.known = App!IDs, !.todo = App!Wanted(s)] =>
                 r.pc = "plan" /\ r.cfg = run[s].cfg
    BY <1>0 DEF AppFacts!Runs
  <2> QED
    BY <1>1, <2>1, AppBecomes DEF App!ListForPlan
<1>2. ASSUME NEW a \in Apps, App!PlanCreate(s, a) \/ App!PlanUpdate(s, a)
      PROVE  /\ run[s].pc = "plan"
             /\ run'[s].pc = "failed" \/ (run'[s].pc = "plan" /\ run'[s].cfg = run[s].cfg)
  <2>1. run[s].pc = "plan"
    BY <1>2 DEF App!PlanCreate, App!PlanUpdate
  <2>2. \A kind : App!Planned(s, a, kind) => run'[s].pc = "plan" /\ run'[s].cfg = run[s].cfg
    <3>1. \A kind : \A r : r = [run[s] EXCEPT !.plan[a] = kind, !.todo = @ \ {a}] =>
                             r.pc = "plan" /\ r.cfg = run[s].cfg
      BY <1>0, <2>1 DEF AppFacts!Runs
    <3>2. ASSUME NEW kind, App!Planned(s, a, kind)
          PROVE  run'[s] = [run[s] EXCEPT !.plan[a] = kind, !.todo = @ \ {a}]
      BY <3>2, AppBecomes, Zenon DEF App!Planned
    <3> QED
      BY <3>1, <3>2
  <2>3. App!End(s, "failed") => run'[s].pc = "failed"
    BY AppBecomes
  <2> QED
    BY <1>2, <2>1, <2>2, <2>3 DEF App!PlanCreate, App!PlanUpdate
<1> QED
  BY <1>1, <1>2 DEF App!ListForPlan

LEMMA AppAnswers ==
  ASSUME Typed, NEW s \in Slots
  PROVE  /\ App!Decide(s) =>
              /\ run[s].pc = "plan"
              /\ run'[s].pc = "idle" \/ (run'[s].pc = "approve" /\ run'[s].cfg = run[s].cfg)
         /\ App!Approve(s) => /\ run[s].pc = "approve"
                              /\ run'[s].pc = "relist" /\ run'[s].cfg = run[s].cfg
         /\ App!Cancel(s) => run'[s].pc = "idle"
         /\ App!Abandon(s) \/ App!Fail(s) => run'[s].pc = "failed"
<1>0. run[s] \in AppFacts!Runs
  BY AppBecomes
<1>1. /\ [run[s] EXCEPT !.pc = "approve"].pc = "approve"
      /\ [run[s] EXCEPT !.pc = "approve"].cfg = run[s].cfg
      /\ [run[s] EXCEPT !.pc = "relist"].pc = "relist"
      /\ [run[s] EXCEPT !.pc = "relist"].cfg = run[s].cfg
  BY <1>0 DEF AppFacts!Runs
<1>2. App!Decide(s) =>
        /\ run[s].pc = "plan"
        /\ run'[s].pc = "idle" \/ (run'[s].pc = "approve" /\ run'[s].cfg = run[s].cfg)
  BY <1>1, AppBecomes, Zenon DEF App!Decide
<1>3. App!Approve(s) =>
        run[s].pc = "approve" /\ run'[s].pc = "relist" /\ run'[s].cfg = run[s].cfg
  BY <1>1, AppBecomes, Zenon DEF App!Approve
<1> QED
  BY <1>2, <1>3, AppBecomes DEF App!Cancel, App!Abandon, App!Fail

\* Apply from the second listing on, and the activate command.
Applying(s) ==
  \/ App!ListForApply(s)
  \/ \E a \in Apps : App!ApplyNoop(s, a) \/ App!CreateApplication(s, a) \/ App!ReadBase(s, a)
  \/ App!PostVersion(s) \/ App!Activate(s)
  \/ App!FinishApply(s) \/ App!SaveTruncate(s) \/ App!SaveWrite(s)
  \/ \E a \in Apps : App!FindApplication(s, a)
  \/ App!ResolveLatest(s) \/ App!SetActive(s)

LEMMA AppApplies ==
  ASSUME Typed, NEW s \in Slots
  PROVE  Applying(s) =>
           \/ run'[s].pc \in Ended
           \/ run[s].pc \in Later /\ run'[s].pc \in Later /\ run'[s].cfg = run[s].cfg
           \/ run[s].pc \in Activating /\ run'[s].pc \in Activating
<1> DEFINE Stays(r) == /\ run[s].pc \in Later /\ r.pc \in Later
                       /\ r.cfg = run[s].cfg
           Looks(r) == run[s].pc \in Activating /\ r.pc \in Activating
<1>0. run[s] \in AppFacts!Runs
  BY AppBecomes
<1>1. \A pc \in Ended : App!End(s, pc) => run'[s].pc \in Ended
  BY AppBecomes
<1>a. /\ \A r : App!Becomes(s, r) /\ Stays(r) => Stays(run'[s])
      /\ \A r : App!Becomes(s, r) /\ Looks(r) => Looks(run'[s])
  BY AppBecomes, Zenon
<1>b. App!End(s, "idle") \/ App!End(s, "failed") => run'[s].pc \in Ended
  BY <1>1 DEF Ended
<1>2. ASSUME App!ListForApply(s) PROVE Stays(run'[s])
  <2>1. Stays([run[s] EXCEPT !.pc = "apply", !.known = App!IDs, !.todo = App!Wanted(s)])
    BY <1>0, <1>2 DEF App!ListForApply, AppFacts!Runs, Later
  <2> QED
    BY <1>2, <1>a, <2>1, Zenon DEF App!ListForApply
<1>3. ASSUME NEW a \in Apps, App!ApplyNoop(s, a) PROVE Stays(run'[s])
  <2>1. Stays([run[s] EXCEPT !.todo = @ \ {a}])
    BY <1>0, <1>3 DEF App!ApplyNoop, App!Turn, AppFacts!Runs, Later
  <2> QED
    BY <1>3, <1>a, <2>1, Zenon DEF App!ApplyNoop
<1>4. ASSUME NEW a \in Apps, App!CreateApplication(s, a) \/ App!ReadBase(s, a)
      PROVE  run'[s].pc \in Ended \/ Stays(run'[s])
  <2>0. run[s].pc = "apply"
    BY <1>4, Zenon DEF App!CreateApplication, App!ReadBase, App!Turn
  <2>1. \A id, b : Stays([run[s] EXCEPT !.pc = "post", !.app = a, !.id = id, !.base = b])
    BY <1>0, <2>0 DEF AppFacts!Runs, Later
  <2>2. CASE App!CreateApplication(s, a)
    BY <1>a, <1>b, <2>1, <2>2, Zenon DEF App!CreateApplication
  <2>3. CASE App!ReadBase(s, a)
    BY <1>a, <1>b, <2>1, <2>3, Zenon DEF App!ReadBase
  <2> QED
    BY <1>4, <2>2, <2>3
<1>5. ASSUME App!PostVersion(s) \/ App!Activate(s)
      PROVE  run'[s].pc \in Ended \/ Stays(run'[s])
  <2>1. run[s].pc \in {"post", "activate"}
    BY <1>5, Zenon DEF App!PostVersion, App!Activate
  <2>2. Stays(App!Applied(s))
    BY <1>0, <2>1 DEF App!Applied, AppFacts!Runs, Later
  <2>3. \A n : Stays([run[s] EXCEPT !.pc = "activate", !.made = n])
    BY <1>0, <2>1 DEF AppFacts!Runs, Later
  <2> HIDE DEF Stays
  <2>4. CASE App!PostVersion(s)
    BY <1>a, <1>b, <2>2, <2>3, <2>4, Zenon DEF App!PostVersion
  <2>5. CASE App!Activate(s)
    BY <1>a, <1>b, <2>2, <2>5, Zenon DEF App!Activate
  <2> QED
    BY <1>5, <2>4, <2>5
<1>6. ASSUME App!FinishApply(s) \/ App!SaveTruncate(s) \/ App!SaveWrite(s)
      PROVE  run'[s].pc \in Ended \/ Stays(run'[s])
  <2>1. run[s].pc \in Later
    BY <1>6 DEF App!FinishApply, App!SaveTruncate, App!SaveWrite, Later
  <2>2. Stays([run[s] EXCEPT !.pc = "save"]) /\ Stays([run[s] EXCEPT !.pc = "write"])
    BY <1>0, <2>1 DEF AppFacts!Runs, Later
  <2> HIDE DEF Stays
  <2> QED
    BY <1>a, <1>b, <1>6, <2>2, Zenon DEF App!FinishApply, App!SaveTruncate, App!SaveWrite
<1>7. ASSUME (\E a \in Apps : App!FindApplication(s, a)) \/ App!ResolveLatest(s) \/ App!SetActive(s)
      PROVE  run'[s].pc \in Ended \/ Looks(run'[s])
  <2>1. run[s].pc \in Activating
    BY <1>7 DEF App!FindApplication, App!ResolveLatest, App!SetActive, Activating
  <2>2. \A a, id : Looks([run[s] EXCEPT !.pc = "latest", !.app = a, !.id = id])
    BY <1>0, <2>1 DEF AppFacts!Runs, Activating
  <2>3. \A a, id, n : Looks([run[s] EXCEPT !.pc = "set", !.app = a, !.id = id, !.made = n])
    BY <1>0, <2>1 DEF AppFacts!Runs, Activating
  <2>4. \A n : Looks([run[s] EXCEPT !.pc = "set", !.made = n])
    BY <1>0, <2>1 DEF AppFacts!Runs, Activating
  <2> HIDE DEF Looks
  <2>5. ASSUME NEW a \in Apps, App!FindApplication(s, a)
        PROVE  run'[s].pc \in Ended \/ Looks(run'[s])
    BY <1>a, <1>b, <2>2, <2>3, <2>5, Zenon DEF App!FindApplication
  <2>6. CASE App!ResolveLatest(s)
    BY <1>a, <1>b, <2>4, <2>6, Zenon DEF App!ResolveLatest
  <2>7. CASE App!SetActive(s)
    BY <1>b, <2>7, Zenon DEF App!SetActive
  <2> QED
    BY <1>7, <2>5, <2>6, <2>7
<1> QED
  BY <1>2, <1>3, <1>4, <1>5, <1>6, <1>7 DEF Applying

\* Where the steps of the ASGs and LBs lead.
LEMMA InfraStarts ==
  ASSUME Typed, NEW s \in Slots
  PROVE  Infra!Start(s) => infra'[s].pc = "list" /\ infra'[s].cfg = yaml
<1>1. /\ [Infra!At("list") EXCEPT !.cfg = yaml].pc = "list"
      /\ [Infra!At("list") EXCEPT !.cfg = yaml].cfg = yaml
  BY DEF Infra!At
<1> QED
  BY <1>1, InfraBecomes, Zenon DEF Infra!Start

LEMMA InfraPlans ==
  ASSUME Typed, NEW s \in Slots,
         Infra!ListASGs(s) \/ Infra!PlanASGs(s) \/ \E n \in ASGs : Infra!PlanLBs(s, n)
  PROVE  \/ infra'[s].pc = "failed"
         \/ infra'[s].pc \in {"planASG", "planLB"} /\ infra'[s].cfg = infra[s].cfg
<1> DEFINE Plans(r) == r.pc \in {"planASG", "planLB"} /\ r.cfg = infra[s].cfg
<1>0. infra[s] \in InfraFacts!Runs
  BY InfraBecomes
<1>1. /\ \A r : Infra!Becomes(s, r) /\ Plans(r) => Plans(infra'[s])
      /\ Infra!End(s, "failed") => infra'[s].pc = "failed"
  BY InfraBecomes, Zenon
<1>4. CASE Infra!ListASGs(s)
  <2>1. \A i : Plans([infra[s] EXCEPT !.pc = "planASG", !.ids = i])
    BY <1>0 DEF InfraFacts!Runs
  <2> HIDE DEF Plans
  <2>2. Plans(infra'[s])
    BY <1>1, <1>4, <2>1, Zenon DEF Infra!ListASGs
  <2> QED
    BY <2>2 DEF Plans
<1>2. CASE Infra!PlanASGs(s)
  <2>1. \A p, d : Plans([infra[s] EXCEPT !.pc = "planLB", !.plan = p, !.todo = d])
    BY <1>0 DEF InfraFacts!Runs
  <2> HIDE DEF Plans
  <2>2. Plans(infra'[s])
    BY <1>1, <1>2, <2>1, Zenon DEF Infra!PlanASGs
  <2> QED
    BY <2>2 DEF Plans
<1>3. ASSUME NEW n \in ASGs, Infra!PlanLBs(s, n)
      PROVE  Plans(infra'[s]) \/ infra'[s].pc = "failed"
  <2>1. infra[s].pc = "planLB"
    BY <1>3 DEF Infra!PlanLBs
  <2>2. \A p, d : Plans([infra[s] EXCEPT !.plan = p, !.todo = d])
    BY <1>0, <2>1 DEF InfraFacts!Runs
  <2> HIDE DEF Plans
  <2> QED
    BY <1>1, <1>3, <2>2, Zenon DEF Infra!PlanLBs
<1> QED
  BY <1>2, <1>3, <1>4

LEMMA InfraAnswers ==
  ASSUME Typed, NEW s \in Slots
  PROVE  /\ Infra!Decide(s) =>
              /\ infra[s].pc = "planLB"
              /\ infra'[s].pc = "idle" \/ (infra'[s].pc = "approve" /\ infra'[s].cfg = infra[s].cfg)
         /\ Infra!Approve(s) => infra'[s].pc = "deleteLB" /\ infra'[s].cfg = infra[s].cfg
         /\ Infra!FinishApply(s) => infra[s].pc = "createLB" /\ infra'[s].pc = "idle"
         /\ Infra!Abandon(s) \/ Infra!Fail(s) => infra'[s].pc = "failed"
<1>0. infra[s] \in InfraFacts!Runs
  BY InfraBecomes
<1>1. /\ [infra[s] EXCEPT !.pc = "approve"].pc = "approve"
      /\ [infra[s] EXCEPT !.pc = "approve"].cfg = infra[s].cfg
  BY <1>0 DEF InfraFacts!Runs
<1>2. Infra!Decide(s) =>
        /\ infra[s].pc = "planLB"
        /\ infra'[s].pc = "idle" \/ (infra'[s].pc = "approve" /\ infra'[s].cfg = infra[s].cfg)
  BY <1>1, InfraBecomes, Zenon DEF Infra!Decide
<1>3. LET e == Infra!Enter([infra[s] EXCEPT !.ids = Infra!IDs], "deleteLB")
      IN  e.pc = "deleteLB" /\ e.cfg = infra[s].cfg
  BY <1>0 DEF Infra!Enter, InfraFacts!Runs
<1>4. Infra!Approve(s) => infra'[s].pc = "deleteLB" /\ infra'[s].cfg = infra[s].cfg
  BY <1>3, InfraBecomes, Zenon DEF Infra!Approve
<1> QED
  BY <1>2, <1>4, InfraBecomes, Zenon DEF Infra!FinishApply, Infra!Abandon, Infra!Fail

\* The loops of Apply for ASGs and LBs.
Loops(s) ==
  \/ Infra!Advance(s)
  \/ \E n \in ASGs : Infra!DeleteASG(s, n) \/ Infra!WaitASG(s, n) \/ Infra!CreateASG(s, n)
  \/ \E l \in LBs : Infra!DeleteLB(s, l) \/ Infra!WaitLB(s, l) \/ Infra!CreateLB(s, l)

LEMMA InfraBuilds ==
  ASSUME Typed, NEW s \in Slots, Loops(s)
  PROVE  /\ infra[s].pc \in Building
         /\ infra'[s].pc = "failed" \/ (infra'[s].pc \in Building /\ infra'[s].cfg = infra[s].cfg)
<1> DEFINE Builds(r) == r.pc \in Building /\ r.cfg = infra[s].cfg
           Goal == /\ infra[s].pc \in Building
                   /\ infra'[s].pc = "failed" \/ Builds(infra'[s])
<1>0. infra[s] \in InfraFacts!Runs
  BY InfraBecomes
<1>1. /\ \A r : Infra!Becomes(s, r) /\ Builds(r) => Builds(infra'[s])
      /\ Infra!End(s, "failed") => infra'[s].pc = "failed"
  BY InfraBecomes, Zenon
<1>2. ASSUME Infra!Advance(s) PROVE Goal
  <2>1. infra[s].pc \in Building /\ Infra!After[infra[s].pc] \in Building
    BY <1>2 DEF Infra!Advance, Infra!After, Building
  <2>2. \A pc \in Building : \A d : Builds([infra[s] EXCEPT !.pc = pc, !.todo = d])
    BY <1>0 DEF InfraFacts!Runs
  <2> HIDE DEF Builds
  <2> QED
    BY <1>1, <1>2, <2>1, <2>2, Zenon DEF Infra!Advance, Infra!Enter
<1>3. infra[s].pc \in Building =>
        \A o : Builds([infra[s] EXCEPT !.todo = @ \ {o}])
  BY <1>0 DEF InfraFacts!Runs
<1>4. /\ \A o : Builds([infra[s] EXCEPT !.pc = "waitASG", !.todo = @ \ {o}, !.at = o])
      /\ \A n : Builds([infra[s] EXCEPT !.pc = "deleteASG", !.at = None, !.ids[n] = 0])
  BY <1>0 DEF InfraFacts!Runs, Building
<1>5. infra[s].pc = "createASG" =>
        \A n : Builds([infra[s] EXCEPT !.todo = @ \ {n}, !.ids[n] = made[n] + 1])
  BY <1>0 DEF InfraFacts!Runs, Building
<1>6. \A l \in LBs : Infra!DeleteLB(s, l) \/ Infra!WaitLB(s, l) \/ Infra!CreateLB(s, l) =>
        infra[s].pc \in Building
  BY Zenon DEF Infra!DeleteLB, Infra!WaitLB, Infra!CreateLB, Infra!Turn, Building
<1>7. \A n \in ASGs : Infra!DeleteASG(s, n) \/ Infra!WaitASG(s, n) \/ Infra!CreateASG(s, n) =>
        infra[s].pc \in Building
  BY Zenon DEF Infra!DeleteASG, Infra!WaitASG, Infra!CreateASG, Infra!Turn, Building
<1>8. \A n \in ASGs : Infra!CreateASG(s, n) => infra[s].pc = "createASG"
  BY Zenon DEF Infra!CreateASG, Infra!Turn
<1> HIDE DEF Builds
<1>9. ASSUME NEW l \in LBs, Infra!DeleteLB(s, l) \/ Infra!WaitLB(s, l) \/ Infra!CreateLB(s, l)
      PROVE  Goal
  <2>1. CASE Infra!DeleteLB(s, l)
    BY <1>1, <1>3, <1>6, <2>1, Zenon DEF Infra!DeleteLB
  <2>2. CASE Infra!WaitLB(s, l)
    BY <1>1, <1>3, <1>6, <2>2, Zenon DEF Infra!WaitLB
  <2>3. CASE Infra!CreateLB(s, l)
    BY <1>1, <1>3, <1>6, <2>3, Zenon DEF Infra!CreateLB
  <2> QED
    BY <1>9, <2>1, <2>2, <2>3
<1>10. ASSUME NEW n \in ASGs, Infra!DeleteASG(s, n) \/ Infra!WaitASG(s, n) \/ Infra!CreateASG(s, n)
       PROVE  Goal
  <2>1. CASE Infra!DeleteASG(s, n)
    BY <1>1, <1>4, <1>7, <2>1, Zenon DEF Infra!DeleteASG
  <2>2. CASE Infra!WaitASG(s, n)
    BY <1>1, <1>4, <1>7, <2>2, Zenon DEF Infra!WaitASG
  <2>3. CASE Infra!CreateASG(s, n)
    BY <1>1, <1>5, <1>7, <1>8, <2>3, Zenon DEF Infra!CreateASG
  <2> QED
    BY <1>10, <2>1, <2>2, <2>3
<1> QED
  BY <1>2, <1>9, <1>10 DEF Loops, Builds

-----------------------------------------------------------------------------
\* What CompletedApply says, in the words of this module.

LEMMA SameSteady ==
  ASSUME NEW o \in Infra!Objects
  PROVE  Infra!Steady(o) => InfraFacts!Steady(o)
BY Zenon
DEF Infra!Steady, InfraFacts!Steady, Infra!Returns, InfraFacts!Returns,
    Infra!Dropped, InfraFacts!Dropped

Finished ==
  \A s \in Slots :
    infra[s].pc \in {"planLB", "createLB"} /\ infra'[s].pc = "idle" => BuiltFor(infra[s].cfg)

LEMMA FinishedBuilt == ASSUME OneCommand PROVE Spec => [][Finished]_vars
<1> DEFINE Completes ==
      \A s \in Slots :
        infra[s].pc \in {"planLB", "createLB"} /\ infra'[s].pc = "idle" =>
          \A o \in InfraFacts!Wanted(s) :
            InfraFacts!Steady(o) => status[o] = "ready" /\ ~InfraFacts!Differs(o, InfraFacts!Cfg(s))
<1>1. InfraFacts!Spec => [][Completes]_(InfraFacts!vars)
  <2>1. InfraFacts!OneCommand
    BY DEF OneCommand, InfraFacts!OneCommand
  <2> QED
    BY <2>1, InfraFacts!CompletedApply, InfraAssumed DEF InfraFacts!ApplyDone
<1>2. Completes /\ InfraFacts!TypeOK => Finished
  <2> SUFFICES ASSUME Completes, InfraFacts!TypeOK, NEW s \in Slots,
                      infra[s].pc \in {"planLB", "createLB"}, infra'[s].pc = "idle",
                      NEW o \in DOMAIN Clusters[infra[s].cfg], Infra!Steady(o)
               PROVE  InPlace(o, Clusters[infra[s].cfg])
    BY DEF Finished, BuiltFor
  <2>1. infra[s].cfg \in 1..Len(Clusters)
    BY DEF InfraFacts!TypeOK, InfraFacts!Typed, InfraFacts!Runs
  <2>2. o \in Infra!Objects
    BY <2>1, InfraAssumed DEF InfraFacts!HistoryAssumption, InfraFacts!Objects, Infra!Objects
  <2>3. o \in InfraFacts!Wanted(s) /\ InfraFacts!Steady(o)
    BY <2>2, SameSteady DEF InfraFacts!Wanted, InfraFacts!Cfg
  <2> QED
    BY <2>3 DEF InPlace, InfraFacts!Differs, InfraFacts!Cfg
<1>3. InfraFacts!TypeOK /\ [Completes]_(InfraFacts!vars) => [Finished]_vars
  <2>1. UNCHANGED InfraFacts!vars => Finished
    BY DEF InfraFacts!vars, Finished
  <2> QED
    BY <1>2, <2>1
<1> HIDE DEF Completes
<1> QED
  BY <1>1, <1>3, HalvesTyped, SameInfra, HalvesFollowed, PTL

-----------------------------------------------------------------------------
\* Each step keeps the halves in order.

\* A step that leaves the service as it is, or only lets go what was being deleted.
LEMMA BuiltStays ==
  ASSUME NEW i \in 1..Len(Clusters), BuiltFor(i), status \in [Infra!Objects -> Infra!Statuses],
         \/ UNCHANGED <<status, setting>>
         \/ \E o \in Infra!Objects : Infra!Gone(o)
  PROVE  BuiltFor(i)'
<1> SUFFICES ASSUME NEW o \in DOMAIN Clusters[i], Infra!Steady(o)
             PROVE  status'[o] = status[o] /\ setting'[o] = setting[o]
  BY DEF BuiltFor, InPlace
<1>1. status[o] = "ready"
  BY DEF BuiltFor, InPlace
<1>2. o \in Infra!Objects
  BY InfraAssumed DEF InfraFacts!HistoryAssumption, InfraFacts!Objects, Infra!Objects
<1>3. ASSUME NEW g \in Infra!Objects, Infra!Gone(g)
      PROVE  status'[o] = status[o] /\ setting' = setting
  BY <1>1, <1>2, <1>3 DEF Infra!Gone
<1> QED
  BY <1>3

LEMMA Configured ==
  ASSUME Typed, NEW s \in Slots
  PROVE  run[s].cfg \in 1..Len(Clusters)
BY SameLength DEF Typed, AppFacts!Runs

\* Nothing happens to a command that the service and its state do not show.
LEMMA QuietOrder ==
  ASSUME Typed, NEW s \in Slots, Ordered(s), run'[s] = run[s], infra'[s] = infra[s],
         \/ UNCHANGED <<status, setting>>
         \/ \E o \in Infra!Objects : Infra!Gone(o)
  PROVE  Ordered(s)'
<1>0. PICK i \in 1..Len(Clusters) : i = run[s].cfg
  BY Configured
<1>1. BuiltFor(run[s].cfg) => BuiltFor(i)'
  BY <1>0, BuiltStays DEF Typed
<1>2. i = run'[s].cfg
  BY <1>0
<1> QED
  BY <1>1, <1>2 DEF Ordered, SameYAML

LEMMA LoadStateOrder ==
  ASSUME Typed, NEW s \in Slots, Ordered(s), LoadState(s)
  PROVE  Ordered(s)'
<1>1. /\ run[s].pc = "load"
      /\ run'[s].pc = "failed" \/ (run'[s].pc = "list" /\ run'[s].cfg = run[s].cfg)
  BY AppLoads DEF LoadState
<1>2. CASE run'[s].pc = "failed"
  BY <1>2 DEF Ordered, Ended
<1>3. CASE run'[s].pc # "failed"
  <2>1. infra'[s] = infra[s]
    BY <1>3 DEF LoadState, AppGoesOn, infraVars
  <2>2. infra[s].pc = "list" /\ SameYAML(s)
    BY <1>1 DEF Ordered, Ended, Later, Activating
  <2> QED
    BY <1>1, <1>3, <2>1, <2>2 DEF Ordered, SameYAML
<1> QED
  BY <1>2, <1>3

LEMMA PlanInfraOrder ==
  ASSUME Typed, NEW s \in Slots, Ordered(s), PlanInfra(s)
  PROVE  Ordered(s)'
<1>1. \/ infra'[s].pc = "failed"
      \/ infra'[s].pc \in {"planASG", "planLB"} /\ infra'[s].cfg = infra[s].cfg
  BY InfraPlans DEF PlanInfra
<1>2. run[s].pc = "list" /\ SameYAML(s)
  BY DEF PlanInfra, Ordered, Ended, Later, Activating
<1>3. CASE infra'[s].pc = "failed"
  BY <1>2, <1>3, AppAnswers DEF PlanInfra, InfraGoesOn, Ended, Ordered
<1>4. CASE infra'[s].pc # "failed"
  <2>1. run'[s] = run[s]
    BY <1>4 DEF PlanInfra, InfraGoesOn, appVars
  <2> QED
    BY <1>1, <1>2, <1>4, <2>1 DEF Ordered, SameYAML
<1> QED
  BY <1>3, <1>4

LEMMA PlanAppsOrder ==
  ASSUME Typed, NEW s \in Slots, Ordered(s), PlanApps(s)
  PROVE  Ordered(s)'
<1>1. /\ run[s].pc \in {"list", "plan"}
      /\ run'[s].pc = "failed" \/ (run'[s].pc = "plan" /\ run'[s].cfg = run[s].cfg)
  BY AppPlans DEF PlanApps
<1>2. CASE run'[s].pc = "failed"
  BY <1>2 DEF Ordered, Ended
<1>3. CASE run'[s].pc # "failed"
  <2>1. infra'[s] = infra[s] /\ infra[s].pc = "planLB"
    BY <1>3 DEF PlanApps, AppGoesOn, infraVars
  <2>2. SameYAML(s)
    BY <1>1 DEF Ordered, Ended, Later, Activating
  <2> QED
    BY <1>1, <1>3, <2>1, <2>2 DEF Ordered, SameYAML
<1> QED
  BY <1>2, <1>3

LEMMA DecideOrder ==
  ASSUME Typed, NEW s \in Slots, Ordered(s), Finished, Decide(s)
  PROVE  Ordered(s)'
<1>1. /\ run[s].pc = "plan"
      /\ run'[s].pc = "idle" \/ (run'[s].pc = "approve" /\ run'[s].cfg = run[s].cfg)
  BY AppAnswers DEF Decide
<1>2. /\ infra[s].pc = "planLB"
      /\ infra'[s].pc = "idle" \/ (infra'[s].pc = "approve" /\ infra'[s].cfg = infra[s].cfg)
  BY InfraAnswers DEF Decide
<1>3. SameYAML(s)
  BY <1>1 DEF Ordered, Ended, Later, Activating
<1>4. CASE run'[s].pc = "idle"
  BY <1>4 DEF Ordered, Ended
<1>5. CASE run'[s].pc = "approve" /\ infra'[s].pc = "approve"
  BY <1>1, <1>2, <1>3, <1>5 DEF Ordered, SameYAML
<1>6. CASE run'[s].pc = "approve" /\ infra'[s].pc = "idle"
  <2>0. PICK i \in 1..Len(Clusters) : i = run[s].cfg
    BY Configured
  <2>1. BuiltFor(i)
    BY <1>2, <1>3, <1>6, <2>0 DEF Finished, SameYAML
  <2>2. UNCHANGED <<status, setting>>
    BY DEF Decide, Infra!Decide, Infra!service
  <2>3. BuiltFor(i)'
    BY <2>1, <2>2, BuiltStays DEF Typed
  <2>4. i = run'[s].cfg
    BY <1>1, <1>6, <2>0
  <2> QED
    BY <1>6, <2>3, <2>4 DEF Ordered, Ended
<1> QED
  BY <1>1, <1>2, <1>4, <1>5, <1>6

LEMMA ApplyInfraOrder ==
  ASSUME Typed, NEW s \in Slots, Ordered(s), ApplyInfra(s)
  PROVE  Ordered(s)'
<1>1. /\ infra[s].pc \in Building
      /\ infra'[s].pc = "failed" \/ (infra'[s].pc \in Building /\ infra'[s].cfg = infra[s].cfg)
  BY InfraBuilds DEF ApplyInfra, Loops
<1>2. run[s].pc \in Ended \/ (run[s].pc = "approve" /\ SameYAML(s))
  BY <1>1 DEF Ordered, Ended, Building
<1>3. CASE infra'[s].pc = "failed" /\ run[s].pc \notin Ended
  BY <1>3, AppAnswers DEF ApplyInfra, InfraGoesOn, Ordered, Ended
<1>4. CASE infra'[s].pc # "failed" \/ run[s].pc \in Ended
  <2>1. run'[s] = run[s]
    BY <1>4 DEF ApplyInfra, InfraGoesOn, appVars
  <2> QED
    BY <1>1, <1>2, <1>4, <2>1 DEF Ordered, SameYAML
<1> QED
  BY <1>3, <1>4

LEMMA FinishInfraOrder ==
  ASSUME Typed, NEW s \in Slots, Ordered(s), Finished, FinishInfra(s)
  PROVE  Ordered(s)'
<1>1. infra[s].pc = "createLB" /\ infra'[s].pc = "idle"
  BY InfraAnswers DEF FinishInfra
<1>2. run[s].pc \in Ended \/ (run[s].pc = "approve" /\ SameYAML(s))
  BY <1>1 DEF Ordered, Ended, Building
<1>3. CASE run[s].pc = "approve" /\ SameYAML(s)
  <2>0. PICK i \in 1..Len(Clusters) : i = run[s].cfg
    BY Configured
  <2>1. BuiltFor(i)
    BY <1>1, <1>3, <2>0 DEF Finished, SameYAML
  <2>2. UNCHANGED <<status, setting>>
    BY DEF FinishInfra, Infra!FinishApply, Infra!service
  <2>3. BuiltFor(i)'
    BY <2>1, <2>2, BuiltStays DEF Typed
  <2>4. run'[s].pc = "relist" /\ i = run'[s].cfg
    BY <1>3, <2>0, AppAnswers DEF FinishInfra
  <2> QED
    BY <1>1, <2>3, <2>4 DEF Ordered, Ended, Later
<1>4. CASE run[s].pc \in Ended
  <2>1. run'[s] = run[s]
    BY <1>4 DEF FinishInfra, appVars, Ended
  <2> QED
    BY <1>4, <2>1 DEF Ordered
<1> QED
  BY <1>2, <1>3, <1>4

LEMMA ApplyAppsOrder ==
  ASSUME Typed, NEW s \in Slots, Ordered(s), ApplyApps(s)
  PROVE  Ordered(s)'
<1>1. \/ run'[s].pc \in Ended
      \/ run[s].pc \in Later /\ run'[s].pc \in Later /\ run'[s].cfg = run[s].cfg
      \/ run[s].pc \in Activating /\ run'[s].pc \in Activating
  BY AppApplies DEF ApplyApps, Applying
<1>2. infra[s].pc \in Ended /\ infra'[s] = infra[s] /\ UNCHANGED <<status, setting>>
  BY DEF ApplyApps, infraVars
<1>3. CASE run[s].pc \in Later /\ run'[s].pc \in Later /\ run'[s].cfg = run[s].cfg
  <2>0. PICK i \in 1..Len(Clusters) : i = run[s].cfg
    BY Configured
  <2>1. BuiltFor(i)
    BY <1>3, <2>0 DEF Ordered, Ended, Later, Activating
  <2>2. BuiltFor(i)'
    BY <1>2, <2>1, BuiltStays DEF Typed
  <2>3. i = run'[s].cfg
    BY <1>3, <2>0
  <2> QED
    BY <1>2, <1>3, <2>2, <2>3 DEF Ordered
<1> QED
  BY <1>1, <1>2, <1>3 DEF Ordered

LEMMA StartOrder ==
  ASSUME Typed, NEW s \in Slots, Start(s) \/ StartActivate(s)
  PROVE  Ordered(s)'
<1>1. CASE Start(s)
  BY <1>1, AppStarts, InfraStarts DEF Start, Ordered, SameYAML
<1>2. CASE StartActivate(s)
  <2>1. run'[s].pc = "find"
    BY <1>2, AppStarts DEF StartActivate
  <2>2. infra'[s].pc \in Ended
    BY <1>2 DEF StartActivate, Free, infraVars
  <2> QED
    BY <2>1, <2>2 DEF Ordered, Activating
<1> QED
  BY <1>1, <1>2

LEMMA AnswerOrder ==
  ASSUME Typed, NEW s \in Slots, Ordered(s), Approve(s) \/ Cancel(s) \/ Fail(s)
  PROVE  Ordered(s)'
<1>1. CASE Approve(s)
  <2>1. CASE infra[s].pc = "approve"
    <3>1. infra'[s].pc = "deleteLB" /\ infra'[s].cfg = infra[s].cfg /\ run'[s] = run[s]
      BY <1>1, <2>1, InfraAnswers DEF Approve, appVars
    <3>2. run[s].pc \in Ended \cup {"approve"}
      BY <1>1 DEF Approve, Asked
    <3>3. run[s].pc \in Ended \/ SameYAML(s)
      BY <2>1, <3>2 DEF Ordered, Ended
    <3> QED
      BY <3>1, <3>2, <3>3 DEF Ordered, SameYAML, Building
  <2>2. CASE infra[s].pc # "approve"
    <3>0. PICK i \in 1..Len(Clusters) : i = run[s].cfg
      BY Configured
    <3>1. infra'[s] = infra[s] /\ UNCHANGED <<status, setting>> /\ App!Approve(s)
      BY <1>1, <2>2 DEF Approve, infraVars
    <3>2. run[s].pc = "approve" /\ run'[s].pc = "relist" /\ i = run'[s].cfg
      BY <3>0, <3>1, AppAnswers
    <3>3. infra[s].pc \in Ended
      BY <1>1, <2>2 DEF Approve, Asked
    <3>4. BuiltFor(i)
      BY <3>0, <3>2, <3>3 DEF Ordered, Ended, Building, Activating
    <3>5. BuiltFor(i)'
      BY <3>1, <3>4, BuiltStays DEF Typed
    <3> QED
      BY <3>1, <3>2, <3>3, <3>5 DEF Ordered, Later
  <2> QED
    BY <2>1, <2>2
<1>2. CASE Cancel(s)
  <2>1. CASE run[s].pc = "approve"
    BY <1>2, <2>1, AppAnswers DEF Cancel, Ordered, Ended
  <2>2. CASE run[s].pc # "approve"
    BY <1>2, <2>2 DEF Cancel, Asked, Ordered, appVars
  <2> QED
    BY <2>1, <2>2
<1>3. CASE Fail(s)
  <2>1. CASE infra[s].pc \notin Ended /\ Infra!Fail(s) /\ InfraGoesOn(s)
    <3>1. infra'[s].pc = "failed"
      BY <2>1, InfraAnswers
    <3>2. CASE run[s].pc \in Ended
      BY <2>1, <3>2 DEF InfraGoesOn, Ordered, appVars
    <3>3. CASE run[s].pc \notin Ended
      BY <2>1, <3>1, <3>3, AppAnswers DEF InfraGoesOn, Ordered, Ended
    <3> QED
      BY <3>2, <3>3
  <2>2. CASE App!Fail(s)
    BY <2>2, AppAnswers DEF Ordered, Ended
  <2> QED
    BY <1>3, <2>1, <2>2 DEF Fail
<1> QED
  BY <1>1, <1>2, <1>3

LEMMA OthersOrder ==
  ASSUME Typed, NEW s \in Slots, Ordered(s), Edit \/ Others \/ UNCHANGED vars
  PROVE  Ordered(s)'
<1>1. CASE Edit \/ UNCHANGED vars
  <2>1. run' = run /\ infra' = infra /\ UNCHANGED <<status, setting>>
    BY <1>1 DEF Edit, App!Edit, Infra!Edit, Infra!service, vars, appVars, infraVars
  <2> QED
    BY <2>1, QuietOrder
<1>2. CASE (App!LoseFile \/ App!RepairFile) /\ UNCHANGED infraVars
  <2>1. run' = run /\ infra' = infra /\ UNCHANGED <<status, setting>>
    BY <1>2 DEF App!LoseFile, App!RepairFile, App!NoFile, infraVars
  <2> QED
    BY <2>1, QuietOrder
<1>3. ASSUME NEW a \in Apps, App!Remove(a) \/ (\E img \in DeployImages : App!Deploy(a, img)),
             UNCHANGED infraVars
      PROVE  Ordered(s)'
  <2>1. run' = run /\ infra' = infra /\ UNCHANGED <<status, setting>>
    BY <1>3 DEF App!Remove, App!Deploy, infraVars
  <2> QED
    BY <2>1, QuietOrder
<1>4. ASSUME NEW o \in Infra!Objects, Infra!Gone(o), UNCHANGED appVars
      PROVE  Ordered(s)'
  <2>1. run' = run /\ infra' = infra
    BY <1>4 DEF Infra!Gone, appVars
  <2> QED
    BY <1>4, <2>1, QuietOrder
<1> QED
  BY <1>1, <1>2, <1>3, <1>4 DEF Others

LEMMA OrderInit == Init => OrderInv
BY DEF Init, App!Init, App!At, OrderInv, Ordered, Ended

LEMMA OrderNext ==
  ASSUME OneCommand, Typed, OrderInv, Finished, [Next]_vars
  PROVE  OrderInv'
<1> SUFFICES ASSUME NEW s \in Slots PROVE Ordered(s)'
  BY DEF OrderInv
<1>0. Ordered(s)
  BY DEF OrderInv
<1>1. ASSUME NEW t \in Slots,
             Command(t) \/ Start(t) \/ StartActivate(t) \/ Approve(t) \/ Cancel(t) \/ Fail(t)
      PROVE  Ordered(s)'
  <2>1. t = s
    BY DEF OneCommand
  <2> QED
    BY <1>0, <1>1, <2>1, LoadStateOrder, PlanInfraOrder, PlanAppsOrder, DecideOrder, ApplyInfraOrder,
       FinishInfraOrder, ApplyAppsOrder, StartOrder, AnswerOrder DEF Command
<1> QED
  BY <1>0, <1>1, OthersOrder DEF Next

LEMMA HalvesOrdered == ASSUME OneCommand PROVE Spec => [](OrderInv /\ Typed)
<1>1. AppFacts!TypeOK /\ InfraFacts!TypeOK => Typed
  BY DEF AppFacts!TypeOK, AppFacts!Typed, InfraFacts!TypeOK, InfraFacts!Typed, Typed, InfraFacts!Objects, Infra!Objects,
         InfraFacts!Statuses, Infra!Statuses
<1>2. UNCHANGED vars => Finished
  BY DEF vars, infraVars, Finished
<1>3. Typed /\ OrderInv /\ [Finished]_vars /\ [Next]_vars => OrderInv'
  BY <1>2, OrderNext
<1>4. Spec => [][Finished]_vars
  BY FinishedBuilt
<1> QED
  BY <1>1, <1>3, <1>4, OrderInit, HalvesTyped, PTL DEF Spec

\* With one command at a time the applications come last: what Apply posts meets the
\* ASGs and LBs of the same YAML, all there and not on their way out.
THEOREM InfrastructureFirst == ASSUME OneCommand PROVE Spec => []AppsLast
<1>1. OrderInv => AppsLast
  BY DEF OrderInv, Ordered, AppsLast, BuiltFor, Ended, Later, Activating
<1> QED
  BY <1>1, HalvesOrdered, PTL

-----------------------------------------------------------------------------
\* What NoChangesMeant says, in the words of this module.

LEMMA SameNumbers == App!NumbersMoveOn => AppFacts!NumbersMoveOn
BY Zenon DEF App!NumbersMoveOn, AppFacts!NumbersMoveOn, App!Names, AppFacts!Names

LEMMA SameInSync ==
  ASSUME NEW v, NEW c, AppFacts!InSync(v, c)
  PROVE  App!InSync(v, c)
<1>1. AppFacts!EnvInSync(v, c) => App!EnvInSync(v, c)
  BY Zenon DEF App!EnvInSync, AppFacts!EnvInSync, App!Names, AppFacts!Names
<1> QED
  BY <1>1, Zenon DEF App!InSync, AppFacts!InSync, App!Settings, AppFacts!Settings

LEMMA SameNewest ==
  ASSUME NEW a
  PROVE  AppFacts!Newest(a) = App!Newest(a)
BY Zenon
DEF App!Newest, AppFacts!Newest, App!NilVersion, AppFacts!NilVersion, App!Settings,
    AppFacts!Settings, App!NoEnv, AppFacts!NoEnv

Meant ==
  \A s \in Slots :
    run[s].pc = "plan" /\ run'[s].pc = "idle" /\ count.removes = 0 =>
      \A a \in DOMAIN History[run[s].cfg] :
        versions[a] # <<>> /\
        App!InSync(App!Newest(a), [History[run[s].cfg][a] EXCEPT !.inheritImage = TRUE])

LEMMA PlannedMeant ==
  ASSUME OneCommand, App!NumbersMoveOn, MaxVersions <= PageSize
  PROVE  Spec => [][Meant]_vars
<1> DEFINE Nothing == \A s \in Slots : AppFacts!NothingToDo(s)
<1>1. AppFacts!Spec => [][Nothing]_(AppFacts!vars)
  <2>1. AppFacts!OneCommand /\ AppFacts!NumbersMoveOn
    BY SameNumbers DEF OneCommand, AppFacts!OneCommand
  <2> QED
    BY <2>1, AppFacts!NoChangesMeant, AppAssumed
<1>2. Nothing => Meant
  <2> SUFFICES ASSUME NEW s \in Slots, AppFacts!NothingToDo(s),
                      run[s].pc = "plan", run'[s].pc = "idle", count.removes = 0,
                      NEW a \in DOMAIN History[run[s].cfg]
               PROVE  /\ versions[a] # <<>>
                      /\ App!InSync(App!Newest(a),
                           [History[run[s].cfg][a] EXCEPT !.inheritImage = TRUE])
    BY DEF Meant
  <2>1. versions[a] # <<>> /\ AppFacts!Carries(AppFacts!Newest(a), History[run[s].cfg][a])
    BY Zenon DEF AppFacts!NothingToDo, AppFacts!Wanted, AppFacts!Cfg
  <2> QED
    BY <2>1, SameInSync, SameNewest, Zenon DEF AppFacts!Carries
<1>3. [Nothing]_(AppFacts!vars) => [Meant]_vars
  <2>1. UNCHANGED AppFacts!vars => Meant
    BY DEF AppFacts!vars, Meant
  <2> QED
    BY <1>2, <2>1
<1> HIDE DEF Nothing
<1> QED
  BY <1>1, <1>3, SameApp, HalvesFollowed, PTL

\* With one command at a time, where numbers stand for one content and no first page
\* hides a version, a plan that reports no changes is made of a service that has all
\* that the YAML says: the applications, the ASGs and the LBs.
THEOREM NothingLeftToDo ==
  ASSUME OneCommand, App!NumbersMoveOn, MaxVersions <= PageSize
  PROVE  Spec => NoChangesIsDone
<1> DEFINE Done ==
      \A s \in Slots :
        (/\ run[s].pc = "plan" /\ run'[s].pc = "idle" /\ infra'[s].pc = "idle"
         /\ count.removes = 0) =>
        /\ \A a \in DOMAIN History[run[s].cfg] :
             versions[a] # <<>> /\
             App!InSync(App!Newest(a), [History[run[s].cfg][a] EXCEPT !.inheritImage = TRUE])
        /\ \A o \in DOMAIN Clusters[run[s].cfg] :
             Infra!Steady(o) => InPlace(o, Clusters[run[s].cfg])
<1>1. OrderInv /\ Finished /\ Meant => Done
  <2> SUFFICES ASSUME OrderInv, Finished, Meant, NEW s \in Slots,
                      run[s].pc = "plan", run'[s].pc = "idle", infra'[s].pc = "idle",
                      count.removes = 0
               PROVE  /\ \A a \in DOMAIN History[run[s].cfg] :
                           versions[a] # <<>> /\
                           App!InSync(App!Newest(a),
                             [History[run[s].cfg][a] EXCEPT !.inheritImage = TRUE])
                      /\ BuiltFor(run[s].cfg)
    BY DEF BuiltFor
  <2>1. infra[s].pc = "planLB" /\ SameYAML(s)
    BY DEF OrderInv, Ordered, Ended, Later, Activating
  <2>2. BuiltFor(run[s].cfg)
    BY <2>1 DEF Finished, SameYAML
  <2> QED
    BY <2>2, Zenon DEF Meant
<1>2. OrderInv /\ [Finished]_vars /\ [Meant]_vars => [Done]_vars
  BY <1>1
<1>3. (Spec => [][Finished]_vars) /\ (Spec => [][Meant]_vars)
  BY FinishedBuilt, PlannedMeant
<1>4. Spec => [](OrderInv /\ Typed)
  BY HalvesOrdered
<1>5. Spec => [][Done]_vars
  <2> HIDE DEF Done
  <2> QED
    BY <1>2, <1>3, <1>4, PTL
<1> QED
  BY <1>5 DEF NoChangesIsDone
=============================================================================
