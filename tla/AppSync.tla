------------------------------ MODULE AppSync ------------------------------
(***************************************************************************)
(* The application half of the provisioner: CreatePlan and Apply for the   *)
(* applications of a cluster, the state file both read and Apply writes,   *)
(* and the activate command.                                               *)
(*                                                                         *)
(* The AppRun service keeps, for each name, the versions posted so far.    *)
(* A command is a sequence of API calls, each of which is one step here;   *)
(* between two calls other commands, the CI action that posts a version    *)
(* with a new image, and the users of the console may act.  A slot of      *)
(* Slots is a process that executes one command after another, so the      *)
(* number of slots is the number of commands that may be in progress at    *)
(* once.                                                                   *)
(*                                                                         *)
(* Not here: the phases of CreatePlan and Apply for auto scaling groups    *)
(* and load balancers (InfraSync), which come before those for             *)
(* applications and share no state with them, and the resolution of the    *)
(* cluster's name.                                                         *)
(***************************************************************************)
EXTENDS AppSpec, FiniteSets, Sequences

CONSTANTS
  Apps,        \* names of applications
  Slots,       \* processes that execute commands
  History,     \* the contents the YAML file takes, in order
  DeployImages,\* images the CI action may deploy
  PageSize,    \* versions ListApplicationVersions returns at most
  MaxVersions, \* bound: versions of one application
  MaxFaults,   \* bound: commands that fail or are killed, and state files lost
  MaxDeploys,  \* bound: versions posted by the CI action
  MaxRemoves   \* bound: applications deleted by others

ASSUME HistoryAssumption ==
  /\ Len(History) \in Nat \ {0}
  /\ \A i \in 1..Len(History) :
       /\ DOMAIN History[i] \subseteq Apps
       /\ \A a \in DOMAIN History[i] :
            History[i][a] \in ApplicationSpec /\ Validate(History[i][a])

ASSUME BoundsAssumption ==
  /\ DeployImages \subseteq Images
  /\ PageSize \in Nat \ {0}
  /\ MaxVersions \in Nat /\ MaxFaults \in Nat /\ MaxDeploys \in Nat /\ MaxRemoves \in Nat

VARIABLES
  yaml,      \* index in History of the YAML file as it is now
  versions,  \* versions[a]: what the service stores for the application named a
  exists,    \* names that have an application
  born,      \* born[a]: which creation of the name a its application ID is from
  active,    \* active[a]: number of the active version, 0 when there is none
  file,      \* the state file, as last written in full
  fileOk,    \* FALSE while the state file is truncated
  run,       \* run[s]: what slot s is executing
  count      \* how often each bounded event has happened

server == <<versions, exists, born, active>>
disk == <<file, fileOk>>
vars == <<yaml, versions, exists, born, active, file, fileOk, run, count>>

Kinds == {"none", "create", "update", "noop"}

\* Where a command is.  A slot that is idle, or whose
\* last command failed, is free for the next one.
Phases == {"idle", "failed",
           "load", "list", "plan", "approve", "relist", "apply", "post", "activate",
           "save", "write", "find", "latest", "set"}

Ended == {"idle", "failed"}

Runs ==
  [pc      : Phases,
   cfg     : 1..Len(History),       \* the YAML file that was loaded
   opts    : BOOLEAN,               \* --activate
   mem     : [Apps -> Entry],       \* p.state
   known   : [Apps -> Nat],         \* application IDs, 0 for a name not listed
   plan    : [Apps -> Kinds],
   todo    : SUBSET Apps,           \* actions not yet planned, or not yet applied
   app     : Apps \cup {None},      \* the application being worked on
   id      : Nat,                   \* its application ID
   base    : Version,               \* the version read as the base
   made    : Nat,                   \* the version to activate
   dirty   : BOOLEAN]               \* stateModified

EmptyFile == [a \in Apps |-> NoEntry]

At(pc) ==
  [pc |-> pc, cfg |-> 1, opts |-> FALSE, mem |-> EmptyFile, known |-> [a \in Apps |-> 0],
   plan |-> [a \in Apps |-> "none"], todo |-> {}, app |-> None, id |-> 0,
   base |-> NilVersion, made |-> 0, dirty |-> FALSE]

Counters == [faults : 0..MaxFaults, deploys : 0..MaxDeploys, removes : 0..MaxRemoves]

Typed ==
  /\ yaml \in 1..Len(History)
  /\ versions \in [Apps -> Seq(Version)]
  /\ exists \in SUBSET Apps
  /\ born \in [Apps -> Nat]
  /\ active \in [Apps -> Nat]
  /\ file \in [Apps -> Entry]
  /\ fileOk \in BOOLEAN
  /\ run \in [Slots -> Runs]
  /\ count \in Counters

\* A version that is stored has an image, and so has one that is read as a base.
Imaged ==
  /\ \A a \in Apps : \A i \in 1..Len(versions[a]) : versions[a][i].image \in Images
  /\ \A s \in Slots : run[s].base # NilVersion => run[s].base.image \in Images

\* The variables keep their types: whatever a YAML leaves to a base that may not be
\* there (sync.go:723-730), no version is posted without an image.
TypeOK == Typed /\ Imaged

Init ==
  /\ yaml = 1
  /\ versions = [a \in Apps |-> <<>>]
  /\ exists = {}
  /\ born = [a \in Apps |-> 0]
  /\ active = [a \in Apps |-> 0]
  /\ file = EmptyFile
  /\ fileOk = TRUE
  /\ run = [s \in Slots |-> At("idle")]
  /\ count = [faults |-> 0, deploys |-> 0, removes |-> 0]

-----------------------------------------------------------------------------
\* The service.

Newest(a) == IF versions[a] = <<>> THEN NilVersion ELSE versions[a][Len(versions[a])]

Alive(a, id) == a \in exists /\ born[a] = id

\* The numbers getLatestVersion may find.  The service does not say which
\* versions a first page of PageSize has, so the highest of them may be any.
LatestOf(a) ==
  IF Len(versions[a]) <= PageSize THEN {Len(versions[a])} ELSE PageSize..Len(versions[a])

\* getLatestVersion: NilVersion when there are no versions.
Latest(a) == {IF n = 0 THEN NilVersion ELSE Read(versions[a][n]) : n \in LatestOf(a)}

Cfg(s) == History[run[s].cfg]
Wanted(s) == DOMAIN Cfg(s)

Becomes(s, r) == run' = [run EXCEPT ![s] = r]
End(s, pc) == Becomes(s, At(pc))

-----------------------------------------------------------------------------
\* ApplyCmd.Run and CreatePlan.

\* loadConfig.
Start(s) ==
  /\ run[s].pc \in Ended
  /\ \E opts \in BOOLEAN : Becomes(s, [At("load") EXCEPT !.cfg = yaml, !.opts = opts])
  /\ UNCHANGED <<yaml, server, disk, count>>

\* LoadState in createProvisioner; a truncated state file is malformed JSON.
LoadState(s) ==
  /\ run[s].pc = "load"
  /\ IF fileOk THEN Becomes(s, [run[s] EXCEPT !.pc = "list", !.mem = file])
     ELSE End(s, "failed")
  /\ UNCHANGED <<yaml, server, disk, count>>

\* existingByName, with 0 for nil.
IDs == [a \in Apps |-> IF a \in exists THEN born[a] ELSE 0]

\* listAllApplications in CreatePlan.
ListForPlan(s) ==
  /\ run[s].pc = "list"
  /\ Becomes(s, [run[s] EXCEPT !.pc = "plan", !.known = IDs, !.todo = Wanted(s)])
  /\ UNCHANGED <<yaml, server, disk, count>>

Planned(s, a, kind) ==
  Becomes(s, [run[s] EXCEPT !.plan[a] = kind, !.todo = @ \ {a}])

\* An application that was not listed is planned to be created.
PlanCreate(s, a) ==
  /\ run[s].pc = "plan" /\ a \in run[s].todo /\ run[s].known[a] = 0
  /\ Planned(s, a, "create")
  /\ UNCHANGED <<yaml, server, disk, count>>

\* planUpdate.  The reads fail when the application is gone.
PlanUpdate(s, a) ==
  /\ run[s].pc = "plan" /\ a \in run[s].todo /\ run[s].known[a] # 0
  /\ \/ /\ Alive(a, run[s].known[a])
        /\ \E cur \in Latest(a) :
             Planned(s, a, IF cur = NilVersion \/ Changed(cur, Cfg(s)[a], run[s].mem[a])
                           THEN "update" ELSE "noop")
     \/ ~Alive(a, run[s].known[a]) /\ End(s, "failed")
  /\ UNCHANGED <<yaml, server, disk, count>>

\* printPlan, hasChanges and the prompt.  The plan command, and an answer
\* other than yes, end here as well.
Decide(s) ==
  /\ run[s].pc = "plan" /\ run[s].todo = {}
  /\ IF \E a \in Wanted(s) : run[s].plan[a] # "noop"
     THEN Becomes(s, [run[s] EXCEPT !.pc = "approve"])
     ELSE End(s, "idle")
  /\ UNCHANGED <<yaml, server, disk, count>>

Approve(s) ==
  /\ run[s].pc = "approve"
  /\ Becomes(s, [run[s] EXCEPT !.pc = "relist"])
  /\ UNCHANGED <<yaml, server, disk, count>>

Cancel(s) ==
  /\ run[s].pc = "approve"
  /\ End(s, "idle")
  /\ UNCHANGED <<yaml, server, disk, count>>

-----------------------------------------------------------------------------
\* Apply.

\* listAllApplications in Apply.
ListForApply(s) ==
  /\ run[s].pc = "relist"
  /\ Becomes(s, [run[s] EXCEPT !.pc = "apply", !.known = IDs, !.todo = Wanted(s)])
  /\ UNCHANGED <<yaml, server, disk, count>>

Turn(s, a, kind) ==
  run[s].pc = "apply" /\ a \in run[s].todo /\ run[s].plan[a] = kind

ApplyNoop(s, a) ==
  /\ Turn(s, a, "noop")
  /\ Becomes(s, [run[s] EXCEPT !.todo = @ \ {a}])
  /\ UNCHANGED <<yaml, server, disk, count>>

\* CreateApplication in createApplication; a name that is taken is refused.
CreateApplication(s, a) ==
  /\ Turn(s, a, "create")
  /\ \/ /\ a \notin exists
        /\ exists' = exists \cup {a}
        /\ born' = [born EXCEPT ![a] = @ + 1]
        /\ Becomes(s, [run[s] EXCEPT !.pc = "post", !.app = a, !.id = born[a] + 1,
                                     !.base = NilVersion])
     \/ /\ a \in exists
        /\ End(s, "failed")
        /\ UNCHANGED <<exists, born>>
  /\ UNCHANGED <<yaml, versions, active, disk, count>>

\* getLatestVersion in updateApplication.  An application that the second
\* listing does not have is a nil pointer, whose use ends the process.
ReadBase(s, a) ==
  /\ Turn(s, a, "update")
  /\ \/ /\ run[s].known[a] # 0 /\ Alive(a, run[s].known[a])
        /\ \E b \in Latest(a) :
             Becomes(s, [run[s] EXCEPT !.pc = "post", !.app = a, !.id = run[s].known[a],
                                       !.base = b])
     \/ /\ run[s].known[a] = 0 \/ ~Alive(a, run[s].known[a])
        /\ End(s, "failed")
  /\ UNCHANGED <<yaml, server, disk, count>>

\* The loop of Apply goes on to the next action once the state is recorded.
Applied(s) ==
  LET r == run[s]
      a == r.app
      c == Cfg(s)[a]
  IN  [r EXCEPT !.pc = "apply", !.todo = @ \ {a}, !.app = None, !.id = 0,
                !.base = NilVersion, !.made = 0,
                !.mem[a] = Recorded(@, c, r.plan[a]),
                !.dirty = @ \/ Modifies(r.mem[a], c, r.plan[a])]

\* CreateApplicationVersion.
PostVersion(s) ==
  LET a == run[s].app IN
  /\ run[s].pc = "post"
  /\ \/ /\ Alive(a, run[s].id)
        /\ Len(versions[a]) < MaxVersions
        /\ versions' = [versions EXCEPT ![a] =
                          Append(@, Store(BuildRequest(Cfg(s)[a], run[s].base), Newest(a)))]
        /\ Becomes(s, IF run[s].opts
                      THEN [run[s] EXCEPT !.pc = "activate", !.made = Len(versions[a]) + 1]
                      ELSE Applied(s))
     \/ /\ ~Alive(a, run[s].id)
        /\ End(s, "failed")
        /\ UNCHANGED versions
  /\ UNCHANGED <<yaml, exists, born, active, disk, count>>

\* UpdateApplication with the version that was posted (apply --activate).
Activate(s) ==
  LET a == run[s].app IN
  /\ run[s].pc = "activate"
  /\ \/ /\ Alive(a, run[s].id)
        /\ active' = [active EXCEPT ![a] = run[s].made]
        /\ Becomes(s, Applied(s))
     \/ /\ ~Alive(a, run[s].id)
        /\ End(s, "failed")
        /\ UNCHANGED active
  /\ UNCHANGED <<yaml, versions, exists, born, disk, count>>

\* The end of the loop: the state file is saved if it was modified.
FinishApply(s) ==
  /\ run[s].pc = "apply" /\ run[s].todo = {}
  /\ IF run[s].dirty THEN Becomes(s, [run[s] EXCEPT !.pc = "save"]) ELSE End(s, "idle")
  /\ UNCHANGED <<yaml, server, disk, count>>

\* os.WriteFile in Save truncates the file, then writes it.
SaveTruncate(s) ==
  /\ run[s].pc = "save"
  /\ fileOk' = FALSE
  /\ Becomes(s, [run[s] EXCEPT !.pc = "write"])
  /\ UNCHANGED <<yaml, server, file, count>>

SaveWrite(s) ==
  /\ run[s].pc = "write"
  /\ file' = run[s].mem
  /\ fileOk' = TRUE
  /\ End(s, "idle")
  /\ UNCHANGED <<yaml, server, count>>

-----------------------------------------------------------------------------
\* The activate command (ActivateCmd.Run, ActivateVersion), which has nothing to
\* do with the state file: createProvisionerSimple starts from an empty state.

StartActivate(s) ==
  /\ run[s].pc \in Ended
  /\ Becomes(s, [At("find") EXCEPT !.cfg = yaml])
  /\ UNCHANGED <<yaml, server, disk, count>>

\* findApplicationByName; --version 0 is resolved by a further call.
FindApplication(s, a) ==
  /\ run[s].pc = "find"
  /\ IF a \in exists
     THEN \/ Becomes(s, [run[s] EXCEPT !.pc = "latest", !.app = a, !.id = born[a]])
          \/ \E n \in 1..Len(versions[a]) :
               Becomes(s, [run[s] EXCEPT !.pc = "set", !.app = a, !.id = born[a], !.made = n])
     ELSE End(s, "failed")
  /\ UNCHANGED <<yaml, server, disk, count>>

ResolveLatest(s) ==
  LET a == run[s].app IN
  /\ run[s].pc = "latest"
  /\ \/ /\ Alive(a, run[s].id) /\ versions[a] # <<>>
        /\ \E n \in LatestOf(a) : Becomes(s, [run[s] EXCEPT !.pc = "set", !.made = n])
     \/ /\ ~Alive(a, run[s].id) \/ versions[a] = <<>>
        /\ End(s, "failed")
  /\ UNCHANGED <<yaml, server, disk, count>>

SetActive(s) ==
  LET a == run[s].app IN
  /\ run[s].pc = "set"
  /\ \/ /\ Alive(a, run[s].id)
        /\ active' = [active EXCEPT ![a] = run[s].made]
        /\ End(s, "idle")
     \/ /\ ~Alive(a, run[s].id)
        /\ End(s, "failed")
        /\ UNCHANGED active
  /\ UNCHANGED <<yaml, versions, exists, born, disk, count>>

-----------------------------------------------------------------------------
\* Failures and the environment.

\* An API call fails, its answer is lost, or the process is killed.  What the
\* command had not saved is gone.
Fail(s) ==
  /\ run[s].pc \notin Ended
  /\ count.faults < MaxFaults
  /\ count' = [count EXCEPT !.faults = @ + 1]
  /\ End(s, "failed")
  /\ UNCHANGED <<yaml, server, disk>>

\* The rest of CreatePlan or of Apply, which works on ASGs and LBs before it comes
\* to applications, fails.
Abandon(s) ==
  /\ run[s].pc \in {"list", "approve"}
  /\ End(s, "failed")
  /\ UNCHANGED <<yaml, server, disk, count>>

\* Between two commands the state file may be lost, or deleted because LoadState
\* fails on it: LoadState then starts from an empty state.
NoFile ==
  /\ \A s \in Slots : run[s].pc \in Ended
  /\ file' = EmptyFile
  /\ fileOk' = TRUE
  /\ UNCHANGED <<yaml, server, run>>

LoseFile == fileOk /\ count.faults < MaxFaults /\ count' = [count EXCEPT !.faults = @ + 1] /\ NoFile

RepairFile == ~fileOk /\ NoFile /\ UNCHANGED count

\* The operator edits the YAML file.
Edit ==
  /\ yaml < Len(History)
  /\ yaml' = yaml + 1
  /\ UNCHANGED <<server, disk, run, count>>

\* apprun-dedicated-update-image-action posts the newest version again with
\* another image.
Deploy(a, img) ==
  /\ count.deploys < MaxDeploys
  /\ a \in exists /\ versions[a] # <<>> /\ Len(versions[a]) < MaxVersions
  /\ Newest(a).image # img
  /\ count' = [count EXCEPT !.deploys = @ + 1]
  /\ versions' = [versions EXCEPT ![a] = Append(@, [Newest(a) EXCEPT !.image = img])]
  /\ UNCHANGED <<yaml, exists, born, active, disk, run>>

\* A user of the console deletes an application that has no active version.
Remove(a) ==
  /\ count.removes < MaxRemoves
  /\ a \in exists /\ active[a] = 0
  /\ count' = [count EXCEPT !.removes = @ + 1]
  /\ exists' = exists \ {a}
  /\ versions' = [versions EXCEPT ![a] = <<>>]
  /\ UNCHANGED <<yaml, born, active, disk, run>>

-----------------------------------------------------------------------------
Command(s) ==
  \/ LoadState(s) \/ ListForPlan(s)
  \/ \E a \in Apps : PlanCreate(s, a) \/ PlanUpdate(s, a)
  \/ Decide(s) \/ ListForApply(s)
  \/ \E a \in Apps : ApplyNoop(s, a) \/ CreateApplication(s, a) \/ ReadBase(s, a)
  \/ PostVersion(s) \/ Activate(s) \/ FinishApply(s) \/ SaveTruncate(s) \/ SaveWrite(s)
  \/ \E a \in Apps : FindApplication(s, a)
  \/ ResolveLatest(s) \/ SetActive(s)

Next ==
  \/ \E s \in Slots :
       \/ Command(s) \/ Start(s) \/ StartActivate(s) \/ Approve(s) \/ Cancel(s)
       \/ Abandon(s) \/ Fail(s)
  \/ LoseFile \/ RepairFile
  \/ Edit
  \/ \E a \in Apps : Remove(a) \/ \E img \in DeployImages : Deploy(a, img)

Spec == Init /\ [][Next]_vars

-----------------------------------------------------------------------------
\* Safety.

\* Among the versions vs of application a one was posted with all that a YAML
\* spells out whose password, or whose secret variable k, has version number n.
Posted(vs, c) == \E j \in 1..Len(vs) : InSync(vs[j], c)

PasswordPosted(vs, a, n) ==
  \E i \in 1..Len(History) :
    /\ a \in DOMAIN History[i] /\ History[i][a].pwVersion = n
    /\ Posted(vs, History[i][a])

SecretPosted(vs, a, k, n) ==
  \E i \in 1..Len(History) :
    /\ a \in DOMAIN History[i] /\ k \in Names(History[i][a].env)
    /\ History[i][a].env[k].secret /\ History[i][a].env[k].secretVersion = n
    /\ Posted(vs, History[i][a])

Truthful(vs, a, e) ==
  /\ e.pw # None => PasswordPosted(vs, a, e.pw)
  /\ \A k \in Keys : e.sec[k] # None => SecretPosted(vs, a, k, e.sec[k])

\* The state file never gets ahead of the service: a version number of a
\* password or of a secret variable is in it only if a version with all that
\* the YAML with this number spells out was posted.  Apply records a number
\* after its calls succeeded, whatever other commands post, fail or save.
\* (Deleting an application in the console takes its versions away.)
FileBehind == count.removes = 0 => \A a \in Apps : Truthful(versions[a], a, file[a])

\* What apply --activate is about to activate is the version it posted, with all
\* that its own YAML spells out: not one that another command or the CI posted
\* in the meantime, and not that of an application of the same name created later.
ActivateOwn ==
  \A s \in Slots :
    run[s].pc = "activate" /\ Alive(run[s].app, run[s].id) =>
      /\ run[s].made \in 1..Len(versions[run[s].app])
      /\ InSync(versions[run[s].app][run[s].made], Cfg(s)[run[s].app])

\* How the YAML files are to be written: a number stands for one content, and one
\* that was given up does not come back; a variable that is not secret has a value.
NumbersMoveOn ==
  \A i, j, l \in 1..Len(History) : \A a \in Apps :
    (i <= j /\ j <= l /\ \A n \in {i, j, l} : a \in DOMAIN History[n]) =>
      LET old == History[i][a]
          mid == History[j][a]
          new == History[l][a]
      IN  /\ (new.pwVersion # None /\ old.pwVersion = new.pwVersion) =>
               mid.pwVersion = new.pwVersion /\ mid.password = new.password
          /\ \A k \in Names(new.env) :
               /\ ~new.env[k].secret => new.env[k].value # None
               /\ (/\ new.env[k].secret /\ k \in Names(old.env) /\ old.env[k].secret
                   /\ old.env[k].secretVersion = new.env[k].secretVersion) =>
                    mid.env[k] = new.env[k]

\* Each YAML spells out what the ones before it did, of settings, user and variables: what
\* is left out is inherited, and compared as if it were to go (PlannedIsSpelledOut).
Keeps(old, new) ==
  /\ \A f \in Settings : old.settings[f] # None => new.settings[f] # None
  /\ old.user # None => new.user # None
  /\ Names(old.env) # {} => Names(new.env) # {}

NothingOmitted ==
  \A i, j \in 1..Len(History) : \A a \in DOMAIN History[i] \cap DOMAIN History[j] :
    i <= j => Keeps(History[i][a], History[j][a])

\* With one command at a time, and version numbers that are never used again for
\* another content (NumbersMoveOn), an application that a plan calls up to date is:
\* its newest version has all that the YAML spells out, the password and the secret
\* values that the API does not return included.  This is what the state file
\* is for, across failed applies, lost files and new images from the CI.
NoopIsInSync ==
  [][\A s \in Slots, a \in Apps :
       run[s].plan[a] # "noop" /\ run'[s].plan[a] = "noop" =>
         InSync(Newest(a), Cfg(s)[a])]_vars

\* When an apply completes with no other command in progress, and no YAML leaves out
\* what one before it spelled out (NothingOmitted), a plan made at once from the same
\* YAML reports nothing but an image the CI posted meanwhile.
\* (Deleting an application in the console is a change of its own.)
ApplyConverges ==
  [][\A s \in Slots :
       run[s].pc \in {"apply", "write"} /\ run'[s].pc = "idle" /\ count.removes = 0 =>
       \A a \in Wanted(s) :
         /\ a \in exists /\ versions[a] # <<>>
         /\ ~Changed(Read(Newest(a)), [Cfg(s)[a] EXCEPT !.inheritImage = TRUE], file'[a])]_vars

\* What dump prints of an application is a YAML to go on from: with no one else at
\* work, a plan made from it reports nothing, unless the state file has a number for
\* the registry password, which no dump knows; applying it would take nothing away from
\* the newest version; and it loads, unless there is a secret variable.
DumpTaken ==
  \A a \in exists : versions[a] # <<>> =>
    LET v == Newest(a)
        c == DumpSpec(Read(v))
    IN  /\ file[a].pw = None => ~Changed(Read(v), c, file[a])
        /\ InSync(v, c)
        /\ (\A k \in Names(v.env) : ~v.env[k].secret) => Validate(c)

\* With one command at a time, once an application has a version, an apply with
\* inheritImage never gives it the image of the YAML: the image of a new version is
\* one the service had.  (It need not be the newest: the CI may post between the
\* read of the base and the post of the version made from it.)
ImageInherited ==
  [][\A s \in Slots, a \in Apps :
       (/\ run[s].pc = "post" /\ run'[s] # run[s] /\ run[s].app = a /\ Cfg(s)[a].inheritImage
        /\ versions[a] # <<>> /\ Len(versions'[a]) > Len(versions[a])) =>
         \E j \in 1..Len(versions[a]) :
           versions'[a][Len(versions'[a])].image = versions[a][j].image]_vars

-----------------------------------------------------------------------------
\* The abstract specification.

Promise == INSTANCE Releases

\* Whatever commands, deployments and removals interleave, and wherever a command
\* fails, what happens to the applications is what Releases allows: only a version
\* with all that a YAML there has been spells out is posted, what the YAML leaves
\* out is from a version of the same application or from none, and only a version
\* that is there is activated.
KeepsPromise == Promise!Spec

-----------------------------------------------------------------------------
\* What the documentation says, and the code does not do.

\* README.md:439, what the YAML leaves out is inherited, so a plan that changes
\* an application changes something the YAML spells out.  compareVersion
\* reports what it leaves out as changed to nothing, at each plan.
PlannedIsSpelledOut ==
  [][\A s \in Slots, a \in Apps :
       (/\ run[s].plan[a] = "none" /\ run'[s].plan[a] = "update" /\ versions[a] # <<>>
        /\ ~PasswordChanged(Cfg(s)[a], run[s].mem[a])
        /\ \A k \in Names(Cfg(s)[a].env) :
             Cfg(s)[a].env[k].secret => ~SecretVersionChanged(Cfg(s)[a], run[s].mem[a], k)) =>
         ~InSync(Newest(a), Cfg(s)[a])]_vars

\* sync.go:594, getLatestVersion returns the latest version.  It reads the first
\* page of the list only, so activate may take another.
LatestIsNewest ==
  [][\A s \in Slots :
       run[s].pc = "latest" /\ run'[s].pc = "set" =>
         run'[s].made = Len(versions[run[s].app])]_vars
=============================================================================
