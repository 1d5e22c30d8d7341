# TLA+ specifications of apprun-dedicated-provisioner

The provisioner makes a cluster of the AppRun dedicated service look like a
YAML file: it compares the two, prints a plan and, once the plan is approved,
executes it with a sequence of API calls. It holds no lock, opens no transaction
and cannot undo a call. What may go wrong is what happens *between* two
calls: another apply (a colleague, a CI job), the CI action that deploys images,
a user of the web console, a killed process, a call that fails, a deletion the
service accepts now and carries out later. The specifications here model those
interleavings, the algorithms every command is built from, the generated
bindings every call goes through, and the mock server the tests call.

All paths are relative to `src/`.

## 1. Inventory

### Components

| Component | Source | State it keeps | Operations |
|---|---|---|---|
| Application reconciliation | `provisioner/sync.go` 116-160, 306-410, 595-712 | the plan (one action per application), the loaded state file, "state modified" | `CreatePlan`/`planUpdate`, `Apply`, `createApplication`, `updateApplication`, `getLatestVersion` |
| Comparison and request | `provisioner/sync.go` 413-534, 715-880, `provisioner/normalized.go` | none | `compareVersion`, `compareEnv`, `CompareSpecs`, `buildCreateVersionRequestWithBase`, `updateSecretEnvVersions` |
| ASG reconciliation | `provisioner/autoscaling.go`, `provisioner/sync.go` 223-272 | planned ASG actions with IDs, name-to-ID map | `planASGChanges`, `compareASG`, `buildCreateASGRequest`, `waitForASGDeletion` |
| LB reconciliation | `provisioner/loadbalancer.go`, `provisioner/sync.go` 170-221, 274-304 | planned LB actions with IDs | `planLBChanges`, `compareLB`, `buildCreateLBRequest`, `waitForLBDeletion` |
| State file | `state/state.go` | per application: `registryPasswordVersion`, `secretEnvVersions` | `LoadState`, `Save`, getters and setters, `cleanupApp` |
| Config loader | `config/loader.go`, `config/config.go` | none | `Load`, `validateApplication` |
| Commands | `cmd/apprun-dedicated-provisioner/main.go` | none | `plan`, `apply`, `activate`, `versions`, `diff`, `dump` |
| Version inspection | `provisioner/sync.go` 897-1121, `provisioner/normalized.go` | pages read so far | `ListVersions`, `GetVersionDiff`, `NormalizeFromAPI`, `compareVersionEnv` |
| Dump | `provisioner/sync.go` 1178-1384 | what it has written so far | `DumpClusterConfig` |
| Generated bindings | `api/` | none between calls | 35 operations: request, route, parameters, body, handler, response, result |
| Mock server | `testutil/mock_server.go` | maps of clusters, applications and versions, the next version numbers, a mutex | 12 handlers, the rest "not implemented" |
| Release script | `scripts/` | none | |

The **AppRun service** is outside the repository. Its state (applications and
their versions, ASGs, LBs) is what every component works on, so it is modelled
from how `src/` uses it; those definitions are marked external in the map.

### Interaction

- `apply` = load YAML and state file, `CreatePlan` (ASGs, LBs, applications), print,
  stop if nothing changes, ask, `Apply` (delete LBs, wait, delete ASGs and wait,
  create ASGs, create LBs, applications), save the state file **once, at the
  end**, if anything was recorded.
- A plan is a snapshot. `Apply` lists ASGs and applications again and otherwise trusts it.
- The state file carries what the API does not return: which number of the password
  and of each secret the service was last given. A plan takes it for the truth.
- `activate` reads the service and sets the active version. It does not touch the state file.
- `versions`, `diff` and `dump` read with many calls, page by page, and hold nothing still meanwhile.
- The two halves of `apply` share no state of the service; an LB lives in an ASG. What couples them is
  the order, the prompt, and that a failure of the first ends the second.
- Every call goes through the bindings on both sides: what the client encodes, the router, the decoders and the
  rules of the server see first, and what its handler returns the decoders and rules of the client.

### Hard behaviours, and what makes each component correct

| Component | Hard because | Correct when |
|---|---|---|
| Applications | several commands, CI and console interleave with plan, read, post, activate; any call may fail | a noop is truly up to date; an apply that completes leaves nothing to plan; `--activate` activates its own version; `inheritImage` never rolls an image back to the YAML; retrying gets there |
| Comparison and request | three sources (YAML, last version, state file), inheritance, write-only values | what is posted has all the YAML spells out, whatever the base |
| State file | written at the end, truncated before written, shared | never ahead of the service |
| ASGs and LBs | stale plans, asynchronous deletion, a dependency that dictates the order, polls that fail | only outdated objects are deleted; managed LBs are gone before their ASG; what is deleted to be recreated comes back |
| Commands that read | lists move while they are read; a page may end anywhere; calls fail in between | what stays is shown, once; the newest is found; equal settings show no difference; they end |
| Bindings | 35 operations share generated code that differs in names, positions and bounds; unset, null, nil and empty all differ | what is said well is heard as it was said, and answered as it was answered |
| Mock server | requests in parallel, look-up and insertion, answers nobody waits for | names and numbers unique; what was written reads back and stays |

The hazards, each with its line and the properties that cover it, are listed in `PROJECT.json`.

## 2. Modules

| Module | Models |
|---|---|
| `AppSpec` | data of one application, comparison, request building, what the service stores, what the state file records, what `dump` writes (operators only) |
| `AppSync` | `plan`, `apply`, `activate` for applications, state file, CI, console, crashes |
| `Releases` | the promise that `AppSync` keeps, without commands, plans, IDs or state file |
| `InfraSync` | `plan`, `apply` for ASGs and LBs, the service's asynchronous deletions |
| `Cluster` | the promise that `InfraSync` keeps |
| `InfraSpec` | settings of ASGs and LBs field by field: request, comparison, dump (operators only) |
| `Provisioner` | the whole command: both halves, one after the other |
| `SpecDiff`, `Inspect` | the comparison of two versions; `versions`, `diff` and `dump` |
| `Absent` | the constants that stand for what is not there |
| `Codec` | how the bindings encode, decode and validate a message, given its table |
| `Messages` | the tables of all 76 messages, and their rules |
| `Operations` | the tables of all 35 operations on the side of the client and of the server, the router, requests, refusals, results |
| `Exchange` | one call from caller to handler and back |
| `MockServer` | the mock's handlers |
| `Wire` | clients and mock server with the bindings between them |
| `MC...` | histories, clusters, calls and symmetry for TLC |
| `...Proofs` | theorems |

```
AppSpec --- AppSync ----+                Codec -- Messages -- Operations --+-- Exchange
        \-- Releases    +-- Provisioner                                    |
InfraSpec --- InfraSync +                              MockServer ---------+-- Wire
          \-- Cluster                    SpecDiff -- Inspect
```

`AppSync` implements `Releases` and `InfraSync` implements `Cluster` (`KeepsPromise` in each, an INSTANCE whose
variables are those of the same name). `Provisioner` instantiates `AppSync` and
`InfraSync` over one `yaml`; `Wire` extends `MockServer`, whose specification it implements (`ServesAsMock`).

### AppSpec

Nil pointers, nulls, empty strings and empty lists are all `None`. The code treats most of them alike; where it would not (a registry
user that is the empty string is not null), the difference is left out here, and is in the messages of the bindings. An environment is a function from names to `None` or a variable. `Changed`
is `compareVersion`, with one operator for each kind of change; `BuildRequest` is
`buildCreateVersionRequestWithBase`; `Recorded` and `Modifies` are what `Apply`
does to the state after a creation or an update; `DumpSpec` is what `DumpClusterConfig` writes. `Read` (the API masks passwords
and secret values) and `Store` (a secret without a value, and a password that is
kept, take the previous value) are external: the first is visible in the
generated types, the second is what the comments at sync.go:869 and the
`keep` action rest on. `InSync(v, c)` is not code. It is what the operator
means by the YAML `c`, and every deep property is stated with it.

### AppSync and Releases

| Variable | Stands for |
|---|---|
| `yaml` | which member of `History` the YAML file is |
| `versions`, `exists`, `born`, `active` | the service; `born` makes the application ID of a name unique |
| `file`, `fileOk` | the state file; FALSE between truncation and write |
| `run` | what each slot (process) executes: program counter, loaded YAML and state, plan, current application |
| `count` | how often each bounded event happened |

Each API call and each file operation is one action: `Start` (`loadConfig`), `LoadState`, `ListForPlan`,
`PlanCreate`/`PlanUpdate`, `Decide`, `Approve`/`Cancel`, `ListForApply`, `ApplyNoop`,
`CreateApplication`, `ReadBase`, `PostVersion`, `Activate`, `FinishApply`,
`SaveTruncate`/`SaveWrite`; and `StartActivate`, `FindApplication`,
`ResolveLatest`, `SetActive` for `activate`. The code between two calls is part of the
action of the first: what `Apply` records in memory after a version was posted
happens with the post (or with the activation). The list call and the read in
`getLatestVersion` are one step, since a version never changes. The loops over
applications take them in any order, which includes that of the YAML. A failed
call, a lost answer and a killed process are one action, `Fail`, possible at every point.

`Releases` has five actions: the YAML is edited, an application is created or removed, a version is released (in sync with a YAML
there has been, what is left out taken from one version of the same application or from none), the CI
deploys an image, a version that is there is activated.

### InfraSync, Cluster and InfraSpec

`status[o]` is absent, ready or deleting; `setting[o]` is one value for all settings; `born[o]` is
the number in the ID. `Gone` is the service carrying out a deletion.
`Start` loads the YAML, `ListASGs` is the first listing of ASGs (whose result the LB plan uses), `PlanASGs` the second,
`PlanLBs` the LB listing of one ASG. `Approve` is the prompt and the listing at the
start of `Apply`. `Advance` moves `Apply` from one of its loops to the next.
`PolledGone` is a poll that ends a wait: every error counts, one of authentication included (see `exchange_denied`).
A wait that gives up after ten minutes is a `Fail`. Settings in `Refused` pass the loader, which does not look at ASGs and LBs,
and are refused by the service, after everything outdated was deleted.

That one value may stand for all settings is what `InfraSpec` is for: it has the fields that `buildCreateASGRequest` and
`buildCreateLBRequest` send, `compareASG` and `compareLB` compare, and `dump` writes, interfaces matched by
index, optional ones compared as zero when unset.

Assumed of the service, because the code or its documentation relies on it: names
are unique in a cluster, or an ASG (README.md:360, 374), and a creation with a taken name
is refused; an ASG with LBs is not deleted (sync.go:174, README.md:380); an LB is not created in an
ASG that is being deleted; deleting what is already being deleted succeeds and changes nothing.

### Provisioner

`run[s]` is the half of a command that `AppSync` describes, `infra[s]` the other. `Start` loads the YAML for both, `LoadState` the state file;
`PlanInfra` goes on until ASGs and LBs are planned, and only then do applications get listed (`PlanApps`).
`Decide` asks if either half has a change, and `Approve` lets the ASGs and LBs begin. When every LB is created (`FinishInfra`)
the applications do. A failure of one half is one of both (`Fail`). `activate` touches only applications.

### SpecDiff and Inspect

A word of `cmd` is the list of what its spaces separate, so that joining words loses what it loses in the code, and a list of nothing joins to the same
as that of one empty string (`JoinedList`); ports are paired by target and hosts compared after sorting. A host is a name without a comma, and `lb` stands for all of a
port that is compared as it is. `Inspect` has one action for each
call of `versions`, `diff` and `dump`: `ListASGs`, `NextASG`, `ListLBs`, `GetLB`, `ListApplications` (`findApplicationByName` for the
first two commands), `ListVersions`, `NextApp`, `GetLatest`, `GetDetail`, `GetVersion`. A listing is read in pages; its cursor is
the last ID of a page, and others create, activate and delete between any two calls. `Page` says of each place
how many others come before it, so that it can be reasoned about for lists of any length. `through` records
what has existed ever since the command started; it is what the command has to show. Whether versions are
listed newest first is not said anywhere (main.go:491 and sync.go:595 assume different things), so it is chosen at the start. `InitialAssumption`
says that the cluster is one that the service could hold at that moment: an ID belongs to one object, and the active version is there. `ContentsAssumption` says that
versions have the form that the API describes: targets differ, and the value of a secret is null.

### Codec, Messages, Operations, Exchange

The generated methods of two messages differ in the fields they name, in the kind of each field and in its bounds, so a message is
a table and `Encode`, `Decode` and `Valid` are operators on tables; likewise an operation. There is one definition for each
generated type and function that carries such a table, so that each is compared with its own lines. A scalar is a measure: the value of a
number, the length of a text, `Odd` for a text the pattern or the list of words refuses. Unset, null, nil and empty
are all different. On the wire there are tokens: a body is a function from the fields that were written to null or a value, and a
request without a body has a blank, which is no message.

A method that encodes, decodes or validates a message calls those of the messages in it. No message of the API nests more than four deep, so
each method comes in four sizes, of which each is made from the one before (`Encode1` to `Encode`) by one operator that takes the
method for what is inside as a parameter (`Encodes`); `DepthAssumption` says that four are enough for every message that is sent or answered.

`Sends` and `Answers` are the tables of the client, `Handlers` those of the server, `Routes` the tree of the router; they come from different files of
`api/` and are written down apart, so that the runs compare them. `Refusal` has the order of the server:
route, credentials, parameters, body. A refusal of the router has no JSON, one of the default
`ErrorHandler` (cfg_gen.go:102) is JSON of another schema, the service's errors are of type `Error`, and so is the answer to refused credentials, which `NewError` makes (oas_handlers_gen.go:121).

`Exchange` makes one call: sent, refused or heard, answered, received, or broken on either way. Its constants are all calls and all answers to try, which
have to be such as the types of client and handler allow (`IsCall`, `IsOutcome`): every field is there, a list is a sequence, identifiers are those of the operation.
`Acceptable` says from the rules alone when a call ought to be heard.

### MockServer and Wire

`clusters`, `applications`, `applicationVersions` and `nextVersionNumber` are the maps; each handler holds the mutex
throughout and is one action that leaves its result in `returned`. `uuid.New()` is an ID no object has had. The 23 other operations are
`Unimplemented`. `Wire` gives each client calls under way at once with those of others; a client may give a call up, which may
then never arrive, or be served late.

## 3. Runs

Every run takes its constants from its cfg; the histories are named in the MC modules.

| Run | Question | Instance | Distinct states |
|---|---|---|---|
| `app_two` | does the state file ever claim more than was posted; does `--activate` take its own version; is `Releases` implemented | 1 application, 2 slots, `LongRotation`, 1 fault, 1 removal | 1.0 million |
| `app_one` | is a noop up to date; does `inheritImage` keep images; does a completed apply leave nothing to plan; does a dump | 2 applications, 1 slot, `Rotation`, 1 fault, 1 deploy, 1 removal | 0.69 million |
| `infra_two` | is only what is outdated deleted; is `Cluster` implemented | 1 ASG, 1 LB, 2 slots, `FlipOne`, 1 fault, 1 failed poll | 2.5 million |
| `infra_one` | are managed LBs gone before their ASG; is everything there when an apply completes; does repeating apply get there | 2 ASGs, 2 LBs, 1 slot, `Growth`, 2 faults, 2 failed polls, `FairSpec` | 79 thousand |
| `provisioner` | the order of the halves, the meaning of "no changes", and whether repeating gets there | 1 application, 1 ASG, 1 LB, 1 slot, 4 YAMLs, 1 fault of each half, 1 deploy, `FairSpec` | 0.26 million |
| `inspect` | do the reading commands show what stays, and end | 2 applications, 2 ASGs, 2 LBs, pages of 1, 2 changes by others or failed calls, `FairSpec` | 0.21 million |
| `exchange` | do client and server agree on every operation and field | all 35 operations; each field in turn at, under and over its bounds, unset, null, empty | 8.6 thousand |
| `wire` | does the mock keep its promises to several clients | 2 clients, 3 calls, 1 name, 2 IDs, a version with 2 ports, hosts and a health check | 0.50 million |

Properties:

- **FileBehind**: a version number in the state file implies that a version with everything the YAML of
  that number spells out was posted. Two applies that each load the file, post, and write
  all of it at the end may lose numbers, never invent one.
- **ActivateOwn**: what `apply --activate` is about to activate carries its own YAML.
- **KeepsPromise** (of `AppSync`, of `InfraSync`): every step, seen without commands, is one that the abstract specification allows.
- **NoopIsInSync**: what a plan calls up to date is, write-only values included. One command at a
  time: with two, the later save may restore an older number (listed as a hazard).
- **ImageInherited**, **ApplyConverges**: the promise of `inheritImage` and of a completed apply.
- **DumpTaken**: a dumped YAML plans nothing, takes nothing away, and loads unless it has a secret.
- **OnlyOutdatedDeleted**: an object is deleted only if the YAML of the command that deletes it says
  otherwise *at that moment*, however old its plan is.
- **ManagedGoneFirst**, **ApplyDone**, **EventuallyBuilt**: order, completeness and eventual success of the recreation.
- **AppsLast**, **NoChangesIsDone**, **EventuallyDone**: the same of the two halves together: a version is posted only to
  finished infrastructure, "No changes to apply" is true of both, and repeating apply ends with all of the last YAML.
- **VersionsWhole**, **DumpWhole**: no listing misses what was there all the time, or has anything twice.
- **LatestIsRecent**: the version taken for the latest is at least as new as all that were there all the time, provided that
  the first page has the newest (if not, `app_page`).
- **DiffTells**: no difference is reported where there is none but order, and, if no note says that some cannot be told and joining hides none (`Separable`), only there.
- **CommandEnds**: a reading command ends, while lists move.
- **HeardAsSent**, **RefusedForCause**: what reaches the handler is what the caller said, for the operation it named; and nothing acceptable is refused.
- **AnswerArrives**, **StatusFromService**: the caller gets the answer, or an error if the answer breaks its rules; and a status only if the service gave it.
- **AcceptedReads**: what a create operation accepts, the detailed reads of the object accept.
- **NamesUnique**, **EachNumbered**, **ReadsBack**, **SeesEarlier**, **VersionsKept**, **ServesAsMock**: no name or number twice; what was posted reads as it
  was posted, down to the hosts and health checks of its ports (passwords and unset values come back as null, nil lists as empty), and is in every listing asked for afterwards; nothing stored changes; the bindings add no step to the mock's own.

Bounds. Two slots are enough for any pair of commands to interleave at every call, and more than
one application or ASG adds nothing to a race about one name; the runs about what one
command does to several objects have one slot and two objects. `LongRotation` changes a
password and a secret the API does not show together with a setting it does, and leaves its command to the base; `Rotation` changes
nothing the API shows, a secret of one application and a password of the other, and the YAML of the first names a new image and leaves it to the CI;
`FlipOne` and `Growth` return to earlier settings, so that an old plan meets an object that fits it by
name and not by ID, and `Growth` names settings that the service refuses until they are corrected. Two faults allow a failed retry; one is a command killed at any call, or a lost state file, which with the removal reaches
a file that is behind, empty, truncated, or of an application created again; one glitch lets a wait end too early.
`MaxVersions` is 9 in `app_one` and `provisioner`, more than the YAMLs, a deploy and failed retries ever post, so the bound
is never met there (these runs check for deadlock); it is 3 in `app_two` (one more than the slots post at once).
There a command that would post beyond the bound stops, which is why that run, and the two of
`AppSync` that refute, do not check for deadlock. All runs of `InfraSync` do: no command
ever waits for something that cannot come. `inspect` and `wire` do not either: an operator starts no command, and a client makes no call, when the
bounds of IDs and calls are used up. `PageSize` is the code's 30 except in `app_page` and `inspect`, where it is 1 so that a second page exists: with
pages of one every object is the last of its page. Two changes by others suffice to delete what a cursor names and add something behind it.
In `exchange` fields vary one at a time, at every depth of a message, as no rule of the code looks at two fields. In `wire`
three calls are two posts under way at once and a read of what they left; operations that touch nothing the others read are
made as the first call only.

Fairness (`FairSpec`). A running command goes on (weak fairness; its process is scheduled and calls return
or fail). The service carries out deletions (weak fairness of `Gone`). The operator makes the edits of
the history, and when apply did not complete runs it again and approves (strong fairness of
`Start`, `Approve` and `RepairFile`: a `plan`, an `activate` or a cancelled prompt may come in between,
though not instead for ever). The code has no retry loop of its own, so this is the operator's doing,
and it is all that "repeating apply" says. Nothing forces a fault to happen or not to. In `Inspect` only the running command is
fair: a process that runs makes its next call.

### Where the program does something else than its documentation says

Each of these runs checks the documented behaviour, and TLC shows a run of the program that is different.

| Run | Documentation | Code |
|---|---|---|
| `app_omitted` | README.md:439, what the YAML omits is inherited | an inherited setting is reported as changed to nothing in every plan; a new version at every apply |
| `app_page` | sync.go:594, "returns the latest version" | only the first page of the list is looked at |
| `infra_skipped` | README.md:380, LBs are deleted before their ASG | those that are not in the YAML are skipped, so the deletion of their ASG is refused |
| `exchange_denied` | autoscaling.go:349 and loadbalancer.go:429, "Security error means we can't access it", then an error | the generated client returns no `SecurityError`: refused credentials are answered with the status and `Error` body of `NewError`, one of the errors that pass for "deleted" |

Read in the code, with no run of their own:

- README.md:500 says that the state file is updated once changes are applied; it is saved after the last application, so an error at the second of two
  loses the numbers of the first, which the next plan reports again.
- README.md:504 and 511 say that a removed `secretVersion` is a change, as a removed `registryPasswordVersion` is; the stored number of a variable
  that is no longer secret is neither compared nor removed.
- loadbalancer.go:406 says that the wait polls until the LB is deleted; any failing poll counts as deleted.
- main.go:490 says that versions are sorted by number; they are shown in the reverse of the order of the service.
- A cluster name may have one or two letters where it is created and read (1 to 20), and not where clusters are listed (`ReadClusterSummary`, 3 to 20): a
  list with such a cluster is an error for every client, so no command finds any cluster.
- `dump` writes a secret variable without its number, and such a file does not load; a registry password is not dumped at all.

`ApplyDone`, `AppsLast` and the second half of `NoChangesIsDone` are about objects that are `Steady`. For others they do not hold:

- an LB that an interrupted apply is deleting compares as up to date when the YAML goes back to its
  settings (`Returns`), and apply completes while it disappears;
- so does one whose ASG was to be recreated by the interrupted apply, when the next YAML names the LB and no longer the ASG (`Dropped`): its own settings are
  right, so it is not planned, and it is on its way out. No run has such a YAML; the attempt to prove `ApplyDone` without the
  exception showed it.

The next apply creates them again, which `EventuallyBuilt` shows.

## 4. Proofs

Proved with TLAPS for every value of the constants: any number of applications, ASGs, LBs and
processes, any history of the YAML, any number of faults and versions. Assumed are only the named assumptions of the
modules: `ValuesAssumption`, `NoneAssumption` (what is absent is no value), `HistoryAssumption` (every YAML of the history passed the
loader), `BoundsAssumption`, `ObjectsAssumption`, `RefusedAssumption`, `SameLength` (a YAML has both halves), `HalvesAssumption` (those of the halves, with
the names of `Provisioner`), `InitialAssumption` and `ContentsAssumption` (the cluster `Inspect` starts with, and versions) and `IDsAssumption`. TLC evaluates them in the runs.

Theorems about one command at a time name what they need beyond that as hypotheses, without which the properties do not hold in general:

- `OneCommand`: there is one slot. With two, a later save restores older numbers, and one command deletes what the other waits for.
- `NumbersMoveOn`: in the history of the YAML a number of a password or secret stands for one content, and one that was given up does not come back. A plan compares numbers
  and nothing else. It also says that a variable that is not secret has a value: `compareEnv` does not look at the secret flag (sync.go:481), so a variable that becomes secret
  under a known number, or stops to be one without a value, shows no change.
- `NothingOmitted`: what one YAML of an application sets, those after it set too, as the comparison takes what is left out for removed (`app_omitted`).
- `MaxVersions <= PageSize`: the newest version is on the first page, which is all `getLatestVersion` reads (`app_page`).

TLC evaluates `NumbersMoveOn` and `NothingOmitted` on the histories of the runs (`HistoryMovesOn`, `RotationKeepsAll`).

- `AppSyncProofs!StoreInSync`: for every spec the loader accepts and every base, what the service stores
  for the request is `InSync` with the spec, whichever version was the newest by then. This is why a concurrent post between
  `ReadBase` and `PostVersion` does no harm to what the YAML spells out.
- `AppSyncProofs!DumpPlansNothing`: the round trip of `dump`, for every version the service can have.
- `AppSyncProofs!TypeCorrect` (`TypeOK`): also that every version has an image, which rests on what the loader demands of a YAML for an application without versions.
- `AppSyncProofs!FileNeverAhead` (`FileBehind`) and `ActivatesOwn` (`ActivateOwn`). Neither is
  inductive: the file takes what a command has in memory, and the command has it from the file or
  from a post it made for its own YAML. The invariant therefore says of *every* place a number can be (the file, the memory of each
  run) that it is truthful, and of a run that is about to activate that its version has its YAML or its ID is dead.
  Versions are only appended while the ID lives, so both survive the steps of the others; `StoreInSync`
  is what makes them true at a post.
- `AppSyncProofs!AppsKeepPromise` (`KeepsPromise`): the refinement. Its invariant `HeldInv` says of a run
  that is about to post or activate that, as long as its ID lives, its base is a version of this application, or none, and the version it will activate
  is there; what others do keeps it, since they only append. The simulation then has one lemma for each
  action that is visible to `Releases`, and `StoreInSync` gives the heart of `Release`.
- `ReleasesProofs!ReleasesSourced` and `AppSyncProofs!VersionsSourced`: what the promise is good for. However long the chain of versions that inherit from one another, every setting and image comes
  from a YAML of this application or from the CI; proved of the abstract specification, and carried over by the refinement.
- `InfraSyncProofs!InfraTypeCorrect` (`TypeOK`; also that what is to be recreated is named by an ID) and `DeletesOutdated` (`OnlyOutdatedDeleted`). The invariant is
  `TypeOK /\ Anchored /\ RunHolds` of every run: `PlanHolds` says that what is planned to be recreated is outdated
  for as long as it has the ID in the plan; `Anchored`, that an LB's ASG is ready, which follows from the service
  refusing to delete an ASG with LBs; `ListHolds`, that IDs in a plan are not
  older than those listed before; `TodoHolds`, that each loop goes through what is planned for it. The lemma `KeepsRun` is the heart: whatever the service does, an
  object that keeps its ID keeps its settings and those of its ASG, so no step of another command
  can turn a planned deletion into a wrong one.
- `InfraSyncProofs!InfraKeepsPromise` (`KeepsPromise`) and `ClusterDeclared`: the refinement of `Cluster` from the same invariant, and what follows: all that exists was declared.
- `InfraSyncProofs`, last part: for ASGs and for LBs, what was created from a YAML compares as up to date (`...BuiltIsUpToDate`), what was dumped too (`...DumpedIsUpToDate`),
  and the comparison finds nothing exactly when the settings are the same (`...ComparisonTells`), if no index is used twice. The argument for the last: the comparison looks only
  for the interfaces of the YAML, but the numbers are equal, and an injection between finite sets of one size leaves none over.
- `AppSyncProofs!DumpsTaken` (`DumpTaken`): for the newest version of any application at any time; `WholeInv` says that every version has what `DumpPlansNothing` asks of one.
- `AppSyncProofs!ImagesInherited` (`ImageInherited`), with one command: `FreshInv` says that a run whose base is nil is about to post the first version there is. (Two commands may both
  find an application without versions, and both post the image of the YAML.)
- `AppSyncProofs!NoopsInSync` (`NoopIsInSync`), with one command and numbers that move on. A plan sees of a secret only its number in the state file, so the invariant has to
  say what the numbers mean: `KnownInv` relates the newest version of each application to *some* YAML there has been whose content it carries, and every number in the file and
  in memory to YAMLs not newer than that one. That the number is the planned YAML's then makes the contents equal.
- `AppSyncProofs!AppliesConverge` (`ApplyConverges`), with one command, nothing omitted and one page: `TrackInv` follows each application of a run from what is planned for it to
  what is in the service and in memory once the loop is through with it (`Done`), knows that memory and file agree unless the run is to save (`Clean`), and that no version holds
  what a later YAML leaves out (`Sober`).
- `InfraSyncProofs!LBsOutOfTheWay` (`ManagedGoneFirst`) and `CompletedApply` (`ApplyDone`), with one command, from one invariant, `Alone`: what exists has settings a YAML up to
  the run's own gave it, and what is being deleted was overtaken by one of them (`Explained`); what the plan leaves alone is in place, and what a loop of creations is through with is there
  (`Progress`); an LB whose ASG is to be recreated is planned with it, deleted, and gone when it has been waited for (`Clearing`, while no poll has failed). `Explained` is what makes the
  plan right after applies that failed anywhere: whatever they left on its way out differs from the run's YAML, unless settings return.
- `ProvisionerProofs!HalvesFollowed`: the composition is a behaviour of `AppSync` and one of `InfraSync`, so that every theorem above holds of the whole command.
- `ProvisionerProofs!InfrastructureFirst` (`AppsLast`), with one command. `OrderInv` is a table of where the two halves can be to each other, with `BuiltFor` in the line where the
  applications are at work; it is established by the steps that complete the ASGs and LBs, and what it is then is `ApplyDone`, used as a proved fact about the half.
- `ProvisionerProofs!NothingLeftToDo` (`NoChangesIsDone`), with one command, numbers that move on and one page: the order of the halves, `ApplyDone` for the ASGs and
  LBs, and for the applications `PlanInv`, the form of `KnownInv` for a plan in the making. The property excludes removals, as an application deleted in the console
  after it was compared is not there when the plan is done.
- `InspectProofs!TypeCorrect` (`TypeOK`), `VersionsListed` (`VersionsWhole`), `DumpComplete` (`DumpWhole`) and `LatestFound` (`LatestIsRecent`): for any
  number of objects, any page size, either order of the version list, and whatever comes and goes between two calls. None of the properties
  is inductive: they speak of the end of a command only. The invariant says how far a listing is (`Progress`): what it has is sorted and ends at the
  cursor, and all that stays is in it or lies behind the cursor. That is kept by others because IDs and version numbers are not given twice (`Given` says it of the
  active version a list was told of, which may be deleted before the list gets to it), and by the next page because of the lemmas about `Page`: it is sorted, lies behind the cursor, and leaves
  out nothing before its last. `dump` nests three listings: `AtLBs` adds that an LB in the output is of an ASG that is in it too, or of the one in turn and then before the
  place the inner list has reached, since otherwise an LB could come up a second time under another ASG. `Recent` is part of the invariant only where the first page has the newest.
- `InspectProofs!DiffSaysSo` (`DiffTells`): what `diff` compares are joined words, sorted hosts and ports paired by target; `Same` speaks of permutations. `Told` shows for all versions of the
  form the API describes (`ContentsAssumption`) that the two agree: equal bags are permutations of one another, a function of the target loses no port where targets differ, and words of one
  piece, not empty, can be told apart after they were joined (by the least place at which the recursion of `FlattenSeq` and the wanted list would differ). `ReadInv` says that what `diff` has read are such versions.
- `CodecProofs!RoundTrip`: for any table of fields and any message of it, what was encoded can be decoded, and is the message again, but for nil lists, which come back empty unless they may be left out.
  One proof for each of the four sizes, each from the size before it.
- `CodecProofs!Hearing` and `Admission`: for each of the 35 operations and every call. The path of a call is followed down `Routes` segment by segment (`Walk` is a recursive function; that it is the function
  its equation describes is shown by the least number of segments for which there were none), which finds the node of the operation and binds each parameter in its position; the tables
  of the two sides are equal (`Agrees`). So the handler hears what was said, and `Refusal` is decided by credentials, path, query and body as `Acceptable` has it.
- `ExchangeProofs`: all five invariants of `Exchange`, from one invariant, `Course`: wherever the exchange stands, the request is the caller's, what was heard or refused is what the server makes of that
  request, and the response and the result are made of what the handler returned. `AllHeardAsSent` and `AllRefusedForCause` are then `Hearing` and `Admission`, `AllAnswersArrive` the round
  trip of an answer, and `AllStatusFromService` the cases of a response that is no answer (a status of its own code, a body of another schema, or none). `AllAcceptedReads` compares the rules of each
  create request with those of the messages it is read back in, field by field; where a field is a message of another type (a variable of the environment), its rules too.
- `WireProofs!MockTypeCorrect`, `MockNamesUnique`, `MockVersionsKept`: of the mock on its own, from one invariant (`IInv`), in which the next number of an application is above all it has given.
- `WireProofs!WireServesAsMock` (`ServesAsMock`): `Wire` implements `MockServer`. What the server admits is what the caller said (`Hearing`, `Admission`), and `CallsAssumption` makes it one of the requests the
  mock is modelled for; every handler then takes a step of the mock, and all else changes only `calls`. So `WireTypeCorrect`, `WireNamesUnique` and `WireVersionsKept` follow for any number of clients.
- `WireProofs!WireEachNumbered`, `WireReadsBack` and `WireSeesEarlier`. A result speaks of a moment that is over, so none is inductive. The invariant (`WireKnowing`) says of each call its form on the way (`Shape`) and
  of each answer that what it tells is so on the server: a created application is there, in its cluster (`CreatedThere`); a posted version is there, with the content that was posted
  (`PostedThere`), and nobody else was told its number (`PostedOnce`); what was read is what is stored (`ReadThere`). That is kept, because the mock deletes nothing and moves no application (`Stays`), and it is
  established by the one step that serves the call. `Counted` compares the versions of an application with the posts for it that have *arrived*, which each step that adds a version increases by one: calls given up and served late
  are among them. What reads back is then the round trip, twice, around what `CreateApplicationVersion` of the mock makes of a request.

Of the bindings are assumed `OddAssumption` (a measure that no bound includes is no number), `DepthAssumption`, `ErrorCodeAssumption` (the status of an error is none that an answer has),
`CallsAssumption` and `OutcomesAssumption` (calls and outcomes are of the types of the Go client and handler), in `Wire` also that a call the server accepts is of the requests the mock is modelled for, `ListsAssumption` (what a handler has in a list is not nil) and
`MaxCallsAssumption`. Absent values are constants that nothing is said about: where it has to be known that a call has not been answered, or was admitted, the model
has the empty sequence, and tokens carry their kind.

Only model-checked: the liveness properties `EventuallyBuilt`, `EventuallyDone` and `CommandEnds` (fairness and ENABLED are outside what TLAPS proves), and that the documented properties of the four refuting
runs fail, which is a matter of one example. Every invariant and every action property of a passing run is a theorem, some of them
under the hypotheses above.

## 5. Not modelled, and why

- YAML and JSON syntax, printing, logging: no state of the reconciliation depends on them.
- In the bindings: widths of integers, malformed UUIDs and syntax errors (a body is well-formed JSON), the default of `maxItems`, middleware, spans, counters, labels.
- The resolution of the cluster name (`resolveClusterID`): one read at the start of each command, which fails or returns an ID.
- Pages of the listings of `plan` and `apply`: a listing is one step there; how a listing behaves while it is read is in `Inspect`.
- A call of `apply` that takes effect after the command gave it up: a failed call either happened or did not. (`Wire` has late calls, for the mock.)
- `Clear` and the assertion helpers of the mock server; the removal of a single secret number from the state file (`SetSecretEnvVersion` with nil), which nothing asks for.
- The construction of the API client, and the release script.

## 6. What could come next

- The loader over lists: applications of one name, and repeated interface indexes, which nothing rejects.
- `maxItems` and cursors of the bindings together with `Inspect`, once the service documents the order of its listings.

## 7. Running

```
tlc -workers 2 -config AppSyncTwo.cfg MCAppSync.tla
tlc -workers 2 -config Provisioner.cfg MCProvisioner.tla
tlc -workers 2 -config Wire.cfg MCWire.tla
tlapm InfraSyncProofs.tla
tlapm WireProofs.tla
```

Definitions preceded by "Mutated form of" are a wrong version of the definition below or above them, used by
`PROJECT.json` to show that a property fails when the code has that bug.
