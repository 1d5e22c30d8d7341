------------------------------ MODULE Inspect ------------------------------
(***************************************************************************)
(* The commands that only read: versions, diff and dump.  Each makes many  *)
(* calls, page by page, while others create and delete what it reads, and  *)
(* shows the outcome as one state of the cluster.                          *)
(*                                                                         *)
(* The service lists objects by an ID that grows with each creation, and   *)
(* the cursor of a page is the last ID on it.  In which direction versions *)
(* are listed is not known.                                                *)
(***************************************************************************)
EXTENDS SpecDiff, FiniteSets

CONSTANTS
  AppNames,     \* names of applications
  Contents,     \* versions, as SpecDiff describes them
  InitialApps,  \* applications at the start: ID -> [name, active, versions, last]
  InitialASGs,  \* auto scaling groups at the start: ID -> the IDs of their LBs
  PageSize,     \* what a listing returns at most in one answer
  MaxID,        \* bound: IDs the service hands out
  MaxVersion,   \* bound: versions of an application
  MaxMoves      \* bound: what others do

VARIABLES
  apps,      \* applications: ID -> [name, active, versions, last], where versions is a
             \* function of their numbers and last the newest number ever given
  asgs,      \* auto scaling groups: ID -> set of the IDs of their LBs
  created,   \* IDs handed out so far
  newFirst,  \* whether versions are listed newest first
  moves,     \* what others did, and calls that failed, so far
  cmd,       \* the command that is running, or the last one
  through    \* what has existed ever since it started

vars == <<apps, asgs, created, newFirst, moves, cmd, through>>
service == <<apps, asgs, created, newFirst>>

\* Pages are not empty.
ASSUME BoundsAssumption ==
  PageSize \in Nat \ {0} /\ MaxID \in Nat /\ MaxVersion \in Nat /\ MaxMoves \in Nat

Idle ==
  [pc |-> "idle", kind |-> "dump", name |-> None, from |-> 0, to |-> 0,
   cursor |-> 0,      \* of the listing in progress, 0 when unset
   found |-> <<>>,    \* what it has returned so far
   app |-> 0,         \* ID of the application
   active |-> 0,      \* its ActiveVersion, as listed
   latest |-> 0,      \* the number getLatestVersion found
   details |-> <<>>,  \* versions GetVersionDiff has read
   todo |-> <<>>,     \* IDs of ASGs, or applications, dump has listed and not yet read
   lbs |-> <<>>,      \* LBs of the page in progress, whose details are not yet read
   out |-> <<>>,      \* what dump has so far: kind and ID of each object
   specs |-> {},      \* ID and version number of the specs in it
   skipped |-> {}]    \* applications it left out with a warning

Ended == {"idle", "done", "failed"}

\* What has an ID, and what exists: the versions of applications included.
Objects(as, gs) ==
  {<<"app", id>> : id \in DOMAIN as} \cup {<<"asg", id>> : id \in DOMAIN gs}
  \cup {<<"lb", l>> : l \in UNION {gs[id] : id \in DOMAIN gs}}

Existing ==
  Objects(apps, asgs)
  \cup UNION {{<<"version", id, n>> : n \in DOMAIN apps[id].versions} : id \in DOMAIN apps}

\* The cluster at the start: IDs are numbered, each is of one object, and the active
\* version of an application is there.
ASSUME InitialAssumption ==
  LET count == Cardinality(Objects(InitialApps, InitialASGs)) IN
  /\ count \in 0..MaxID
  /\ DOMAIN InitialApps \cap DOMAIN InitialASGs = {}
  /\ DOMAIN InitialApps \cup DOMAIN InitialASGs \subseteq 1..count
  /\ \A id \in DOMAIN InitialApps :
       LET app == InitialApps[id] IN
       /\ app = [name |-> app.name, active |-> app.active, versions |-> app.versions,
                 last |-> app.last]
       /\ app.name \in AppNames
       /\ app.last \in 0..MaxVersion /\ DOMAIN app.versions \subseteq 1..app.last
       /\ app.active \in {0} \cup DOMAIN app.versions
  /\ \A id \in DOMAIN InitialASGs :
       /\ InitialASGs[id] \subseteq 1..count
       /\ \A other \in DOMAIN InitialASGs \ {id} : InitialASGs[id] \cap InitialASGs[other] = {}

\* Versions are as the API describes them, those at the start and those others post.
ASSUME ContentsAssumption ==
  /\ \A c \in Contents : IsVersion(c)
  /\ \A id \in DOMAIN InitialApps : \A n \in DOMAIN InitialApps[id].versions :
       IsVersion(InitialApps[id].versions[n])

Init ==
  /\ apps = InitialApps /\ asgs = InitialASGs
  /\ created = Cardinality(Objects(InitialApps, InitialASGs))
  /\ newFirst \in BOOLEAN
  /\ moves = 0 /\ cmd = Idle /\ through = {}

TypeOK ==
  /\ DOMAIN apps \cap DOMAIN asgs = {} /\ DOMAIN apps \cup DOMAIN asgs \subseteq 1..created
  /\ \A id \in DOMAIN apps :
       /\ DOMAIN apps[id].versions \subseteq 1..apps[id].last
       /\ apps[id].active = 0 \/ apps[id].active \in DOMAIN apps[id].versions
  /\ created \in 0..MaxID /\ moves \in 0..MaxMoves /\ newFirst \in BOOLEAN
  /\ cmd.cursor \in Nat /\ DOMAIN cmd = DOMAIN Idle
  /\ cmd.pc = "lb" => cmd.lbs # <<>>
  /\ cmd.pc \in {"lbs", "lb"} \/ (cmd.kind = "dump" /\ cmd.pc \in {"latest", "detail"})
     => cmd.todo # <<>>

-----------------------------------------------------------------------------
\* A listing of S, upward or downward: what comes after the cursor, one page of it, and
\* the cursor of the next page.
Before(down, x, y) == IF down THEN x > y ELSE x < y

Rest(S, down) == {x \in S : cmd.cursor = 0 \/ Before(down, cmd.cursor, x)}

\* (Place i of the page has what i - 1 others come before.)
Page(S, down) ==
  LET rest == Rest(S, down)
      n == Cardinality(rest)
      Earlier(x) == {y \in rest : Before(down, y, x)}
  IN  [i \in 1..(IF n < PageSize THEN n ELSE PageSize) |->
         CHOOSE x \in rest : Cardinality(Earlier(x)) = i - 1]

\* Mutated form of NextCursor: the first answer is taken for all there is.
NextCursorNone(S, down) == 0

\* 0 when the answer sets no cursor, which ends the loop.
NextCursor(S, down) ==
  IF Cardinality(Rest(S, down)) > PageSize THEN Last(Page(S, down)) ELSE 0

Go(next) == cmd' = next /\ UNCHANGED <<service, moves, through>>

Failed == [cmd EXCEPT !.pc = "failed"]

-----------------------------------------------------------------------------
Start ==
  /\ cmd.pc \in Ended
  /\ \/ cmd' = [Idle EXCEPT !.pc = "asgs"]
     \/ \E name \in AppNames :
          \/ cmd' = [Idle EXCEPT !.pc = "find", !.kind = "versions", !.name = name]
          \/ \E from, to \in 0..MaxVersion :
               cmd' = [Idle EXCEPT !.pc = "find", !.kind = "diff", !.name = name,
                                   !.from = from, !.to = to]
  /\ through' = Existing
  /\ UNCHANGED <<service, moves>>

\* listAllASGs, and DumpClusterConfig up to the first call for the LBs of one.
ListASGs ==
  /\ cmd.pc = "asgs"
  /\ LET found == cmd.found \o Page(DOMAIN asgs, FALSE)
         cursor == NextCursor(DOMAIN asgs, FALSE)
     IN  Go(IF cursor # 0 THEN [cmd EXCEPT !.found = found, !.cursor = cursor]
            ELSE [cmd EXCEPT !.pc = IF found = <<>> THEN "apps" ELSE "lbs",
                             !.found = <<>>, !.cursor = 0, !.todo = found])

\* The loop of DumpClusterConfig over the ASGs goes on to the next one.
NextASG(c) ==
  [c EXCEPT !.pc = IF Len(c.todo) = 1 THEN "apps" ELSE "lbs",
            !.todo = Tail(@), !.out = Append(@, <<"asg", Head(c.todo)>>)]

\* listAllLBs: one page, and then the details of each LB on it.
ListLBs ==
  /\ cmd.pc = "lbs"
  /\ LET asg == Head(cmd.todo)
         page == Page(asgs[asg], FALSE)
     IN  Go(IF asg \notin DOMAIN asgs THEN Failed
            ELSE IF page = <<>> THEN NextASG([cmd EXCEPT !.cursor = 0])
            ELSE [cmd EXCEPT !.pc = "lb", !.lbs = page,
                             !.cursor = NextCursor(asgs[asg], FALSE)])

GetLB ==
  /\ cmd.pc = "lb"
  /\ LET asg == Head(cmd.todo)
         lb == Head(cmd.lbs)
         read == [cmd EXCEPT !.lbs = Tail(@), !.out = Append(@, <<"lb", lb>>)]
     IN  Go(IF asg \notin DOMAIN asgs \/ lb \notin asgs[asg] THEN Failed
            ELSE IF Len(cmd.lbs) > 1 THEN read
            ELSE IF cmd.cursor # 0 THEN [read EXCEPT !.pc = "lbs"]
            ELSE NextASG(read))

-----------------------------------------------------------------------------
\* What the commands do with the list of applications: findApplicationByName, and the
\* version numbers that are given as 0; or the first of the applications to dump.
Found(list) == {i \in DOMAIN list : list[i].name = cmd.name}

WithApp(a) ==
  CASE cmd.kind = "versions" ->
         [cmd EXCEPT !.pc = "pages", !.app = a.id, !.active = a.active]
    [] cmd.kind = "diff" /\ cmd.from = 0 /\ a.active = 0 -> Failed
    [] OTHER ->
         [cmd EXCEPT !.pc = IF cmd.to = 0 THEN "latest" ELSE "from", !.app = a.id,
                     !.active = a.active, !.from = IF @ = 0 THEN a.active ELSE @]

Listed(list) ==
  IF cmd.kind = "dump"
  THEN [cmd EXCEPT !.pc = IF list = <<>> THEN "done" ELSE "latest",
                   !.todo = [i \in DOMAIN list |-> list[i].id]]
  ELSE IF Found(list) = {} THEN Failed
  ELSE WithApp(list[CHOOSE i \in Found(list) : \A j \in Found(list) : i <= j])

\* listAllApplications.
ListApplications ==
  /\ cmd.pc \in {"find", "apps"}
  /\ LET page == Page(DOMAIN apps, FALSE)
         found == cmd.found \o [i \in DOMAIN page |->
                    [id |-> page[i], name |-> apps[page[i]].name, active |-> apps[page[i]].active]]
         cursor == NextCursor(DOMAIN apps, FALSE)
     IN  Go(IF cursor # 0 THEN [cmd EXCEPT !.found = found, !.cursor = cursor]
            ELSE [Listed(found) EXCEPT !.found = <<>>, !.cursor = 0])

\* ListVersions, from the first page on.
ListVersions ==
  /\ cmd.pc = "pages"
  /\ LET numbers == DOMAIN apps[cmd.app].versions
         cursor == NextCursor(numbers, newFirst)
     IN  Go(IF cmd.app \notin DOMAIN apps THEN Failed
            ELSE [cmd EXCEPT !.pc = IF cursor = 0 THEN "done" ELSE @, !.cursor = cursor,
                             !.found = @ \o Page(numbers, newFirst)])

-----------------------------------------------------------------------------
\* The application getLatestVersion is called for.
Reading == IF cmd.kind = "dump" THEN Head(cmd.todo) ELSE cmd.app

\* Mutated form of NextApp: the loop goes one past the last application.
NextAppAlways(c) == [c EXCEPT !.pc = "latest", !.todo = Tail(@)]

\* The loop of DumpClusterConfig over the applications goes on.
NextApp(c) ==
  [c EXCEPT !.pc = IF Len(c.todo) = 1 THEN "done" ELSE "latest", !.todo = Tail(@)]

\* Mutated form of Unread: dump reads the application again.
UnreadRetry == IF cmd.kind = "dump" THEN [cmd EXCEPT !.pc = "latest"] ELSE Failed

\* An error of getLatestVersion: dump goes on without the application.
Unread ==
  IF cmd.kind = "dump" THEN NextApp([cmd EXCEPT !.skipped = @ \cup {Reading}]) ELSE Failed

Dumped(n) ==
  NextApp([cmd EXCEPT !.out = Append(@, <<"app", Reading>>), !.specs = @ \cup {<<Reading, n>>}])

Highest(page) == CHOOSE n \in ToSet(page) : \A k \in ToSet(page) : k <= n

\* Mutated form of GetLatest: the active version passes for the latest.
GetActive ==
  /\ cmd.pc = "latest" /\ Reading \in DOMAIN apps /\ apps[Reading].active # 0
  /\ Go([cmd EXCEPT !.pc = "detail", !.latest = apps[Reading].active])

\* getLatestVersion: the highest number on the first page, without versions nil.
GetLatest ==
  /\ cmd.pc = "latest"
  /\ LET page == Page(DOMAIN apps[Reading].versions, newFirst)
     IN  Go(IF Reading \notin DOMAIN apps THEN Unread
            ELSE IF page # <<>> THEN [cmd EXCEPT !.pc = "detail", !.latest = Highest(page)]
            ELSE IF cmd.kind = "dump" THEN Dumped(0) ELSE Failed)

Readable(id, n) == id \in DOMAIN apps /\ n \in DOMAIN apps[id].versions

GetDetail ==
  /\ cmd.pc = "detail"
  /\ Go(IF ~Readable(Reading, cmd.latest) THEN Unread
        ELSE IF cmd.kind = "dump" THEN Dumped(cmd.latest)
        ELSE [cmd EXCEPT !.pc = "from", !.to = cmd.latest])

\* GetVersionDiff: both versions, one after the other.
GetVersion ==
  /\ cmd.pc \in {"from", "to"}
  /\ LET n == IF cmd.pc = "from" THEN cmd.from ELSE cmd.to
     IN  Go(IF ~Readable(cmd.app, n) THEN Failed
            ELSE [cmd EXCEPT !.pc = IF cmd.pc = "from" THEN "to" ELSE "done",
                             !.details = Append(@, apps[cmd.app].versions[n])])

\* A call fails, whatever it is for.
CallFails ==
  /\ cmd.pc \notin Ended /\ moves < MaxMoves
  /\ moves' = moves + 1
  /\ cmd' = IF cmd.pc \in {"latest", "detail"} THEN Unread ELSE Failed
  /\ UNCHANGED <<service, through>>

Step ==
  \/ ListASGs \/ ListLBs \/ GetLB \/ ListApplications \/ ListVersions
  \/ GetLatest \/ GetDetail \/ GetVersion

-----------------------------------------------------------------------------
\* What others do meanwhile: other commands, the CI, users of the console.
Move ==
  /\ moves < MaxMoves /\ moves' = moves + 1
  /\ through' = through \cap Existing'
  /\ UNCHANGED <<newFirst, cmd>>

With(f, x, v) == [y \in DOMAIN f \cup {x} |-> IF y = x THEN v ELSE f[y]]

Without(f, x) == [y \in DOMAIN f \ {x} |-> f[y]]

Fresh == created < MaxID /\ created' = created + 1

CreateApplication(name) ==
  /\ Fresh /\ \A id \in DOMAIN apps : apps[id].name # name
  /\ apps' = With(apps, created + 1, [name |-> name, active |-> 0, versions |-> <<>>, last |-> 0])
  /\ UNCHANGED asgs

DeleteApplication(id) == apps' = Without(apps, id) /\ UNCHANGED <<asgs, created>>

PostVersion(id, c) ==
  /\ apps[id].last < MaxVersion
  /\ LET n == apps[id].last + 1
     IN  apps' = [apps EXCEPT ![id].last = n, ![id].versions = With(@, n, c)]
  /\ UNCHANGED <<asgs, created>>

Activate(id, n) ==
  /\ apps[id].active # n
  /\ apps' = [apps EXCEPT ![id].active = n] /\ UNCHANGED <<asgs, created>>

DeleteVersion(id, n) ==
  /\ apps[id].active # n
  /\ apps' = [apps EXCEPT ![id].versions = Without(@, n)] /\ UNCHANGED <<asgs, created>>

CreateASG == Fresh /\ asgs' = With(asgs, created + 1, {}) /\ UNCHANGED apps

DeleteASG(id) == asgs[id] = {} /\ asgs' = Without(asgs, id) /\ UNCHANGED <<apps, created>>

CreateLB(id) == Fresh /\ asgs' = [asgs EXCEPT ![id] = @ \cup {created + 1}] /\ UNCHANGED apps

DeleteLB(id, l) == asgs' = [asgs EXCEPT ![id] = @ \ {l}] /\ UNCHANGED <<apps, created>>

Others ==
  /\ \/ \E name \in AppNames : CreateApplication(name)
     \/ \E id \in DOMAIN apps :
          \/ DeleteApplication(id)
          \/ \E c \in Contents : PostVersion(id, c)
          \/ \E n \in DOMAIN apps[id].versions : Activate(id, n) \/ DeleteVersion(id, n)
     \/ CreateASG
     \/ \E id \in DOMAIN asgs : DeleteASG(id) \/ CreateLB(id) \/ \E l \in asgs[id] : DeleteLB(id, l)
  /\ Move

Next == Start \/ Step \/ CallFails \/ Others

Spec == Init /\ [][Next]_vars

\* A command that is running makes its next call.
FairSpec == Spec /\ WF_vars(Step)

-----------------------------------------------------------------------------
Done(kind) == cmd.pc = "done" /\ cmd.kind = kind

Once(seq) == \A i, j \in DOMAIN seq : seq[i] = seq[j] => i = j

\* The list of versions names no version twice, all that were there from the start of
\* the command to its end, and the one it marks as active unless that was deleted
\* meanwhile: although it learns the active version before the first page and any
\* number of versions come and go between two pages.
VersionsWhole ==
  Done("versions") =>
    /\ Once(cmd.found)
    /\ \A n \in 1..MaxVersion :
         <<"version", cmd.app, n>> \in through => n \in ToSet(cmd.found)
    /\ <<"version", cmd.app, cmd.active>> \in Existing => cmd.active \in ToSet(cmd.found)

\* A dump that completes has each ASG, LB and application that was there all the time
\* exactly once, but for applications it warned about, and no object twice.
DumpWhole ==
  Done("dump") =>
    /\ Once(cmd.out)
    /\ \A x \in through :
         x[1] # "version" => x \in ToSet(cmd.out) \/ (x[1] = "app" /\ x[2] \in cmd.skipped)

\* The spec that dump prints for an application, and the version that diff takes for
\* the latest, is as new as any version that was there all the time, if the first
\* page of the list has the newest.  (For a list that has not, see LatestIsNewest in AppSync.)
LatestIsRecent ==
  newFirst \/ MaxVersion <= PageSize =>
    \A n \in 1..MaxVersion :
      /\ Done("dump") =>
           \A s \in cmd.specs : <<"version", s[1], n>> \in through => n <= s[2]
      /\ Done("diff") /\ cmd.latest # 0 /\ <<"version", cmd.app, n>> \in through => n <= cmd.to

\* diff says that there are no differences, without a note that some cannot be told,
\* exactly of versions that are the same up to the order of ports and of hosts; the
\* first part is for words that hold no space, and words and hosts that are not empty,
\* as both are joined before they are compared.
DiffTells ==
  Done("diff") =>
    LET from == cmd.details[1]
        to == cmd.details[2]
    IN  /\ Separable(from) /\ Separable(to) /\ Changes(from, to) = {} /\ ~Noted(from, to)
             => Same(from, to)
        /\ Same(from, to) => Changes(from, to) = {}

\* Every command ends, also while others keep the lists it reads in motion.
CommandEnds == cmd.pc \notin Ended ~> cmd.pc \in Ended
=============================================================================
