------------------------------ MODULE AppSpec ------------------------------
(***************************************************************************)
(* What the provisioner knows about one application, and the two pure      *)
(* algorithms every command is built from: comparing the YAML spec with    *)
(* the version read from the API (compareVersion, compareEnv), and merging *)
(* the two into the request for the next version                           *)
(* (buildCreateVersionRequestWithBase).                                    *)
(*                                                                         *)
(* A nil pointer, an empty string, a null or an empty list is None, so two *)
(* of these that the code would tell apart are not: a registry user that   *)
(* is the empty string and one that is null.  The value of a setting is a  *)
(* member of Values; lists (cmd, exposedPorts) are one value, so the order *)
(* of their elements is not told apart here.                               *)
(***************************************************************************)
EXTENDS Integers

CONSTANTS
  Values,   \* values of settings, of environment variables and of passwords
  Images,   \* container images
  Users,    \* registry user names
  Keys,     \* names of environment variables
  Manual,   \* the scaling mode "manual"
  CpuMode,  \* the scaling mode "cpu"
  None      \* nil, null, the empty string, the empty list

ASSUME ValuesAssumption == Manual \in Values /\ CpuMode \in Values

ASSUME NoneAssumption ==
  /\ None \notin Values /\ None \notin Images /\ None \notin Users /\ None \notin Nat
  /\ None \notin [secret : BOOLEAN, value : Values \cup {None}]
  /\ None \notin [secret : BOOLEAN, value : Values \cup {None},
                   secretVersion : Nat \cup {None}]

Opt(S) == S \cup {None}

\* A list of environment variables is a function of their names, None for a
\* name that is not in the list.
EnvOf(T) == [Keys -> Opt(T)]

Names(env) == {k \in Keys : env[k] # None}

NoEnv == [k \in Keys |-> None]

\* The settings that are merged and compared field by field.
Settings == {"cpu", "memory", "scalingMode", "fixedScale", "minScale", "maxScale",
             "scaleInThreshold", "scaleOutThreshold", "cmd", "exposedPorts"}

\* EnvVarConfig and ApplicationSpec: the YAML of one application.
EnvVarConfig == [secret : BOOLEAN, value : Opt(Values), secretVersion : Opt(Nat)]

ApplicationSpec ==
  [inheritImage : BOOLEAN, image : Opt(Images), settings : [Settings -> Opt(Values)],
   user : Opt(Users), password : Opt(Values), pwVersion : Opt(Nat),
   env : EnvOf(EnvVarConfig)]

\* What the service stores for a version.  A read returns it without the
\* password and without the values of secret variables.
EnvVar == [secret : BOOLEAN, value : Opt(Values)]

Version ==
  [image : Opt(Images), settings : [Settings -> Opt(Values)],
   user : Opt(Users), password : Opt(Values), env : EnvOf(EnvVar)]

\* Stands for the nil *ReadApplicationVersionDetail of an application without versions.
NilVersion ==
  [image |-> None, settings |-> [f \in Settings |-> None], user |-> None,
   password |-> None, env |-> NoEnv]

Masked(env) ==
  [k \in Keys |-> IF env[k] # None /\ env[k].secret
                  THEN [secret |-> TRUE, value |-> None] ELSE env[k]]

Read(v) == [v EXCEPT !.password = None, !.env = Masked(v.env)]

(***************************************************************************)
(* What the state file holds for one application.  An application that is  *)
(* not in the file is NoEntry: cleanupApp removes entries that are empty.  *)
(***************************************************************************)
Entry == [pw : Opt(Nat), sec : [Keys -> Opt(Nat)]]

NoEntry == [pw |-> None, sec |-> [k \in Keys |-> None]]

\* validateApplication: the specs that config.Load accepts.
ModeSettings(mode) == IF mode = Manual THEN {"fixedScale"} ELSE {"minScale", "maxScale"}

Validate(c) ==
  /\ \A f \in {"cpu", "memory", "exposedPorts"} : c.settings[f] # None
  /\ c.settings["scalingMode"] \in {Manual, CpuMode}
  /\ c.image # None
  /\ \A f \in ModeSettings(c.settings["scalingMode"]) : c.settings[f] # None
  /\ c.password # None => c.pwVersion # None
  /\ \A k \in Names(c.env) : c.env[k].secret => c.env[k].secretVersion # None

(***************************************************************************)
(* compareVersion: the changes a plan reports.  cur is a version as read,  *)
(* c the YAML spec and e the entry of the state file.                      *)
(***************************************************************************)
SettingChanges(cur, c) == {f \in Settings : cur.settings[f] # c.settings[f]}

\* Mutated form of ImageChanged: the image is left out of every comparison.
ImageIgnored(cur, c) == FALSE

ImageChanged(cur, c) == ~c.inheritImage /\ c.image # None /\ cur.image # c.image

\* Mutated form of SecretVersionChanged: only a new number is a change.
SecretVersionAdded(c, e, k) == c.env[k].secretVersion # None /\ e.sec[k] = None

SecretVersionChanged(c, e, k) ==
  c.env[k].secretVersion # None /\ e.sec[k] # c.env[k].secretVersion

EnvChanged(cur, c, e, k) ==
  \/ k \in Names(c.env) /\ k \notin Names(cur.env)
  \/ k \notin Names(c.env) /\ k \in Names(cur.env)
  \/ /\ k \in Names(c.env) /\ k \in Names(cur.env)
     /\ IF c.env[k].secret
        THEN SecretVersionChanged(c, e, k)
        ELSE cur.env[k].value # c.env[k].value

PasswordChanged(c, e) == e.pw # c.pwVersion

Changed(cur, c, e) ==
  \/ SettingChanges(cur, c) # {}
  \/ ImageChanged(cur, c)
  \/ cur.user # c.user
  \/ \E k \in Keys : EnvChanged(cur, c, e, k)
  \/ PasswordChanged(c, e)

(***************************************************************************)
(* buildCreateVersionRequestWithBase: b is the version read as the base,   *)
(* NilVersion when there is none.                                          *)
(***************************************************************************)
\* Mutated form of PasswordAction: credentials the service has are always kept.
PasswordKept(c, b) ==
  IF b.user # None THEN "keep" ELSE IF c.user # None THEN "new" ELSE "remove"

PasswordAction(c, b) ==
  CASE c.password # None                   -> "new"
    [] c.password = None /\ b.user # None  -> "keep"
    [] OTHER                               -> IF c.user # None THEN "new" ELSE "remove"

\* Mutated form of BuildEnv: the base has precedence over the YAML.
BuildEnvFromBase(c, b) == IF Names(b.env) # {} THEN Masked(b.env) ELSE c.env

BuildEnv(c, b) ==
  IF Names(c.env) # {}
  THEN [k \in Keys |-> IF c.env[k] = None THEN None
                       ELSE [secret |-> c.env[k].secret, value |-> c.env[k].value]]
  ELSE Masked(b.env)

\* Mutated form of BuildImage: inheritImage is not looked at.
BuildImageFromSpec(c, b) == IF b = NilVersion \/ c.image # None THEN c.image ELSE b.image

\* Mutated form of BuildImage: the last branch, for no base to inherit from, is missing.
BuildImageFromBase(c, b) == IF ~c.inheritImage /\ c.image # None THEN c.image ELSE b.image

BuildImage(c, b) ==
  IF b = NilVersion \/ (~c.inheritImage /\ c.image # None) THEN c.image ELSE b.image

BuildRequest(c, b) ==
  [image    |-> BuildImage(c, b),
   settings |-> [f \in Settings |->
                  IF c.settings[f] # None THEN c.settings[f] ELSE b.settings[f]],
   user     |-> IF c.user # None THEN c.user ELSE b.user,
   password |-> c.password,
   action   |-> PasswordAction(c, b),
   env      |-> BuildEnv(c, b)]

(***************************************************************************)
(* CreateApplicationVersion in the service.  prev is the newest version    *)
(* before this one: a secret variable sent without a value, and a kept     *)
(* password, take their value from it.                                     *)
(***************************************************************************)
StoredEnv(env, prev) ==
  [k \in Keys |->
    IF k \in Names(env) \cap Names(prev) /\ env[k].secret /\ env[k].value = None
    THEN [secret |-> env[k].secret, value |-> prev[k].value] ELSE env[k]]

Store(q, prev) ==
  [image    |-> q.image,
   settings |-> q.settings,
   user     |-> q.user,
   password |-> CASE q.action = "new"    -> q.password
                  [] q.action = "keep"   -> prev.password
                  [] q.action = "remove" -> None,
   env      |-> StoredEnv(q.env, prev.env)]

(***************************************************************************)
(* The entry of the state file after an application was created or updated *)
(* with c (the ActionCreate and ActionUpdate branches of Apply, and        *)
(* updateSecretEnvVersions, which sets entries and never removes one).     *)
(***************************************************************************)
\* Mutated form of RecordPw: a number is recorded once.
RecordPwOnce(e, c, kind) == IF e.pw = None THEN c.pwVersion ELSE e.pw

RecordPw(e, c, kind) == IF kind = "create" /\ c.pwVersion = None THEN e.pw ELSE c.pwVersion

RecordSec(e, c) ==
  [k \in Keys |->
    IF k \in Names(c.env) /\ c.env[k].secret /\ c.env[k].secretVersion # None
    THEN c.env[k].secretVersion ELSE e.sec[k]]

Recorded(e, c, kind) == [pw |-> RecordPw(e, c, kind), sec |-> RecordSec(e, c)]

\* stateModified: a creation with a password version always sets it.
Modifies(e, c, kind) ==
  Recorded(e, c, kind) # e \/ (kind = "create" /\ c.pwVersion # None)

(***************************************************************************)
(* DumpClusterConfig: the YAML spec of a version as read.                  *)
(***************************************************************************)
\* Mutated form of DumpSpec: the scale of the manual mode is all the scale there is.
DumpSpecManual(v) ==
  [inheritImage |-> FALSE, image |-> v.image, user |-> v.user,
   settings |-> [v.settings EXCEPT !["minScale"] = None, !["maxScale"] = None],
   password |-> None, pwVersion |-> None,
   env |-> [k \in Keys |-> IF v.env[k] = None THEN None
                           ELSE [secret |-> v.env[k].secret, value |-> v.env[k].value,
                                 secretVersion |-> None]]]

DumpSpec(v) ==
  [inheritImage |-> FALSE, image |-> v.image, user |-> v.user, settings |-> v.settings,
   password |-> None, pwVersion |-> None,
   env |-> [k \in Keys |-> IF v.env[k] = None THEN None
                           ELSE [secret |-> v.env[k].secret, value |-> v.env[k].value,
                                 secretVersion |-> None]]]

(***************************************************************************)
(* What the operator means by c: the stored version v carries everything   *)
(* the YAML spells out.  What the YAML omits is free, as it is inherited.  *)
(***************************************************************************)
EnvInSync(v, c) ==
  Names(c.env) # {} =>
    /\ Names(v.env) = Names(c.env)
    /\ \A k \in Names(c.env) :
         /\ v.env[k].secret = c.env[k].secret
         /\ (c.env[k].secret /\ c.env[k].value = None) \/ v.env[k].value = c.env[k].value

InSync(v, c) ==
  /\ \A f \in Settings : c.settings[f] # None => v.settings[f] = c.settings[f]
  /\ c.inheritImage \/ c.image = None \/ v.image = c.image
  /\ c.user = None \/ v.user = c.user
  /\ c.password = None \/ v.password = c.password
  /\ EnvInSync(v, c)
=============================================================================
