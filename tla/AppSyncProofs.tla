--------------------------- MODULE AppSyncProofs ---------------------------
(***************************************************************************)
(* Proofs about AppSync, for every set of applications, every number of    *)
(* concurrent commands, every history of the YAML file and every bound;    *)
(* and about AppSpec, for every YAML spec, base and content of a service.  *)
(***************************************************************************)
EXTENDS AppSync, SequenceTheorems, TLAPS

-----------------------------------------------------------------------------
\* The pure part of the provisioner.

\* A list of variables merged by the provisioner is one the service accepts.
LEMMA BuildEnvType ==
  ASSUME NEW c \in ApplicationSpec, NEW b \in Version
  PROVE  BuildEnv(c, b) \in EnvOf(EnvVar)
<1>1. c.env \in [Keys -> Opt(EnvVarConfig)] /\ b.env \in [Keys -> Opt(EnvVar)]
  BY DEF ApplicationSpec, Version, EnvOf
<1>2. Masked(b.env) \in [Keys -> Opt(EnvVar)]
  BY <1>1 DEF Masked, Opt, EnvVar
<1>3. ASSUME NEW k \in Keys, c.env[k] # None
      PROVE  [secret |-> c.env[k].secret, value |-> c.env[k].value] \in EnvVar
  BY <1>1, <1>3 DEF EnvVarConfig, EnvVar, Opt
<1> QED
  BY <1>2, <1>3 DEF BuildEnv, EnvOf, Opt

LEMMA StoredEnvType ==
  ASSUME NEW env \in EnvOf(EnvVar), NEW prev \in EnvOf(EnvVar)
  PROVE  StoredEnv(env, prev) \in EnvOf(EnvVar)
  BY DEF StoredEnv, EnvOf, Opt, EnvVar, Names

LEMMA NilVersionType == NilVersion \in Version
  BY DEF NilVersion, Version, Opt, EnvOf, NoEnv

LEMMA ReadType ==
  ASSUME NEW v \in Version
  PROVE  Read(v) \in Version
<1>1. Masked(v.env) \in EnvOf(EnvVar)
  BY DEF Masked, Version, EnvOf, Opt, EnvVar
<1> QED
  BY <1>1 DEF Read, Version, Opt

\* What the service stores for a request of the provisioner is a version.
LEMMA StoreType ==
  ASSUME NEW c \in ApplicationSpec, NEW b \in Version, NEW prev \in Version
  PROVE  Store(BuildRequest(c, b), prev) \in Version
<1> DEFINE q == BuildRequest(c, b)
<1>1. q.image \in Opt(Images)
  BY DEF BuildRequest, BuildImage, ApplicationSpec, Version
<1>2. q.settings \in [Settings -> Opt(Values)]
  BY DEF BuildRequest, ApplicationSpec, Version
<1>3. q.user \in Opt(Users) /\ q.password \in Opt(Values)
  BY DEF BuildRequest, ApplicationSpec, Version
<1>4. q.action \in {"new", "keep", "remove"}
  BY DEF BuildRequest, PasswordAction
<1>5. StoredEnv(q.env, prev.env) \in EnvOf(EnvVar)
  BY BuildEnvType, StoredEnvType DEF BuildRequest, Version
<1>6. prev.password \in Opt(Values) /\ None \in Opt(Values)
  BY DEF Version, Opt
<1> HIDE DEF q
<1>7. Store(q, prev) \in Version
  BY <1>1, <1>2, <1>3, <1>4, <1>5, <1>6 DEF Store, Version
<1> QED
  BY <1>7 DEF q

LEMMA RecordedType ==
  ASSUME NEW c \in ApplicationSpec, NEW e \in Entry, NEW kind
  PROVE  Recorded(e, c, kind) \in Entry
<1>1. RecordPw(e, c, kind) \in Opt(Nat)
  BY DEF RecordPw, Entry, ApplicationSpec
<1>2. RecordSec(e, c) \in [Keys -> Opt(Nat)]
  BY DEF RecordSec, Entry, ApplicationSpec, EnvOf, EnvVarConfig, Opt, Names
<1> QED
  BY <1>1, <1>2 DEF Recorded, Entry

\* The variables the service stores for a request are those of the YAML, when
\* the YAML has any: no variable of the base comes back, a value that is sent
\* is the value that is stored, and only a secret sent without one is kept.
LEMMA EnvInSyncStore ==
  ASSUME NEW c \in ApplicationSpec, NEW b \in Version, NEW prev \in Version,
         NEW v, v.env = StoredEnv(BuildEnv(c, b), prev.env)
  PROVE  EnvInSync(v, c)
<1> SUFFICES ASSUME Names(c.env) # {} PROVE EnvInSync(v, c)
  BY DEF EnvInSync
<1> DEFINE env == [k \in Keys |-> IF c.env[k] = None THEN None
                                  ELSE [secret |-> c.env[k].secret, value |-> c.env[k].value]]
<1>1. v.env = StoredEnv(env, prev.env)
  BY DEF BuildEnv
<1>0. \A k \in Keys : env[k] = IF c.env[k] = None THEN None
                               ELSE [secret |-> c.env[k].secret, value |-> c.env[k].value]
  OBVIOUS
<1> HIDE DEF env
<1>2. c.env \in [Keys -> Opt(EnvVarConfig)]
  BY DEF ApplicationSpec, EnvOf
<1>3. prev.env \in [Keys -> Opt(EnvVar)]
  BY DEF Version, EnvOf
<1>4. ASSUME NEW k \in Keys
      PROVE  /\ c.env[k] = None => v.env[k] = None
             /\ c.env[k] # None =>
                  /\ v.env[k] # None
                  /\ v.env[k].secret = c.env[k].secret
                  /\ (c.env[k].secret /\ c.env[k].value = None)
                       \/ v.env[k].value = c.env[k].value
  <2>1. CASE c.env[k] = None
    BY <1>0, <1>1, <2>1 DEF StoredEnv, Names
  <2>2. CASE c.env[k] # None
    <3>1. c.env[k] \in EnvVarConfig
      BY <1>2, <2>2 DEF Opt
    <3>2. env[k] = [secret |-> c.env[k].secret, value |-> c.env[k].value]
      BY <1>0, <2>2
    <3>3. env[k] \in EnvVar
      BY <3>1, <3>2 DEF EnvVar, EnvVarConfig
    <3>4. None \notin EnvVar
      BY NoneAssumption DEF EnvVar, Opt
    <3>5. v.env[k] = IF k \in Names(prev.env) /\ env[k].secret /\ env[k].value = None
                     THEN [secret |-> env[k].secret, value |-> prev.env[k].value] ELSE env[k]
      BY <1>1, <3>3, <3>4 DEF StoredEnv, Names
    <3>6. k \in Names(prev.env) => prev.env[k] \in EnvVar
      BY <1>3 DEF Names, Opt
    <3>7. k \in Names(prev.env) => [secret |-> env[k].secret, value |-> prev.env[k].value] \in EnvVar
      BY <3>3, <3>6 DEF EnvVar
    <3>8. v.env[k] # None
      BY <3>3, <3>4, <3>5, <3>7
    <3>9. v.env[k].secret = c.env[k].secret
      BY <3>2, <3>5
    <3>10. (c.env[k].secret /\ c.env[k].value = None) \/ v.env[k].value = c.env[k].value
      BY <3>2, <3>5
    <3> QED
      BY <2>2, <3>8, <3>9, <3>10
  <2> QED
    BY <2>1, <2>2
<1>5. Names(v.env) = Names(c.env)
  BY <1>4 DEF Names
<1> QED
  BY <1>4, <1>5 DEF EnvInSync, Names

\* The main fact about buildCreateVersionRequestWithBase: whatever version the
\* base was read from and whatever version is the newest by the time the request
\* arrives, the version that is stored has all that the YAML spells out.
THEOREM StoreInSync ==
  ASSUME NEW c \in ApplicationSpec, NEW b \in Version, NEW prev \in Version
  PROVE  InSync(Store(BuildRequest(c, b), prev), c)
<1> DEFINE v == Store(BuildRequest(c, b), prev)
<1>1. \A f \in Settings : c.settings[f] # None => v.settings[f] = c.settings[f]
  BY DEF Store, BuildRequest
<1>2. c.inheritImage \/ c.image = None \/ v.image = c.image
  BY DEF Store, BuildRequest, BuildImage, ApplicationSpec
<1>3. c.user = None \/ v.user = c.user
  BY DEF Store, BuildRequest
<1>4. c.password = None \/ v.password = c.password
  BY DEF Store, BuildRequest, PasswordAction
<1>5. EnvInSync(v, c)
  BY EnvInSyncStore DEF Store, BuildRequest
<1> HIDE DEF v
<1>6. InSync(v, c)
  BY <1>1, <1>2, <1>3, <1>4, <1>5 DEF InSync
<1> QED
  BY <1>6 DEF v

\* The round trip of dump: the YAML written for a version, read back, is one the
\* version is in sync with and that plans nothing, secrets and password included,
\* for whatever the state file has of secrets, but only when it has no password
\* version, which the dumped YAML would take away.
THEOREM DumpPlansNothing ==
  ASSUME NEW v \in Version, NEW e \in Entry, e.pw = None
  PROVE  /\ ~Changed(Read(v), DumpSpec(Read(v)), e)
         /\ InSync(v, DumpSpec(Read(v)))
<1> DEFINE r == Read(v)
           c == DumpSpec(r)
<1>1. v.env \in [Keys -> Opt(EnvVar)]
  BY DEF Version, EnvOf
<1>2. r.env = Masked(v.env) /\ r.settings = v.settings /\ r.image = v.image /\ r.user = v.user
  BY DEF Read, Version
<1>3. /\ c.settings = r.settings /\ c.image = r.image /\ c.user = r.user
      /\ c.password = None /\ c.pwVersion = None /\ c.inheritImage = FALSE
  BY DEF DumpSpec
<1>4. \A k \in Keys : c.env[k] = IF r.env[k] = None THEN None
                                 ELSE [secret |-> r.env[k].secret, value |-> r.env[k].value,
                                       secretVersion |-> None]
  BY DEF DumpSpec
<1> HIDE DEF r, c
<1>5. ASSUME NEW k \in Keys, v.env[k] = None
      PROVE  r.env[k] = None /\ c.env[k] = None
  BY <1>2, <1>4, <1>5 DEF Masked
<1>6. ASSUME NEW k \in Keys, v.env[k] # None
      PROVE  /\ r.env[k] # None /\ c.env[k] # None
             /\ r.env[k].secret = v.env[k].secret
             /\ c.env[k].secret = v.env[k].secret
             /\ c.env[k].value = r.env[k].value
             /\ c.env[k].secretVersion = None
             /\ ~v.env[k].secret => r.env[k].value = v.env[k].value
             /\ v.env[k].secret => r.env[k].value = None
  <2>1. v.env[k] \in EnvVar
    BY <1>1, <1>6 DEF Opt
  <2>2. r.env[k] = IF v.env[k].secret THEN [secret |-> TRUE, value |-> None] ELSE v.env[k]
    BY <1>2, <1>6 DEF Masked
  <2>3. v.env[k].secret \in BOOLEAN
    BY <2>1 DEF EnvVar
  <2>4. r.env[k] \in EnvVar
    BY <2>1, <2>2 DEF EnvVar, Opt
  <2>5. r.env[k] # None
    BY <2>4, NoneAssumption DEF EnvVar, Opt
  <2>6. c.env[k] = [secret |-> r.env[k].secret, value |-> r.env[k].value,
                    secretVersion |-> None]
    BY <1>4, <2>5
  <2>7. c.env[k] # None
    BY <2>4, <2>6, NoneAssumption DEF EnvVar, Opt
  <2>8. CASE v.env[k].secret
    <3>1. r.env[k] = [secret |-> TRUE, value |-> None] /\ v.env[k].secret = TRUE
      BY <2>2, <2>3, <2>8
    <3> QED
      BY <2>5, <2>6, <2>7, <2>8, <3>1
  <2>9. CASE ~v.env[k].secret
    <3>1. r.env[k] = v.env[k]
      BY <2>2, <2>9
    <3> QED
      BY <2>5, <2>6, <2>7, <2>9, <3>1
  <2> QED
    BY <2>8, <2>9
<1>7. ~Changed(r, c, e)
  <2>1. SettingChanges(r, c) = {} /\ ~ImageChanged(r, c) /\ r.user = c.user
    BY <1>3 DEF SettingChanges, ImageChanged
  <2>2. ~PasswordChanged(c, e)
    BY <1>3 DEF PasswordChanged
  <2>3. ASSUME NEW k \in Keys PROVE ~EnvChanged(r, c, e, k)
    BY <1>5, <1>6 DEF EnvChanged, Names, SecretVersionChanged
  <2> QED
    BY <2>1, <2>2, <2>3 DEF Changed
<1>8. InSync(v, c)
  <2>1. EnvInSync(v, c)
    BY <1>2, <1>5, <1>6 DEF EnvInSync, Names
  <2> QED
    BY <1>2, <1>3, <2>1 DEF InSync
<1> QED
  BY <1>7, <1>8 DEF r, c

-----------------------------------------------------------------------------
\* Facts about the operators of AppSync.

LEMMA AtType ==
  ASSUME NEW pc \in Phases
  PROVE  At(pc) \in Runs
<1>1. EmptyFile \in [Apps -> Entry]
  BY DEF EmptyFile, NoEntry, Entry, Opt
<1>2. 1 \in 1..Len(History)
  BY HistoryAssumption
<1> QED
  BY <1>1, <1>2, NilVersionType DEF At, Runs, Kinds

LEMMA BecomesType ==
  ASSUME run \in [Slots -> Runs], NEW s \in Slots, NEW r \in Runs, Becomes(s, r)
  PROVE  /\ run' \in [Slots -> Runs]
         /\ run'[s] = r
         /\ \A t \in Slots \ {s} : run'[t] = run[t]
  BY DEF Becomes

\* The YAML files hold applications and specs.
LEMMA WantedType ==
  ASSUME NEW i \in 1..Len(History), NEW a \in DOMAIN History[i]
  PROVE  a \in Apps /\ History[i][a] \in ApplicationSpec
  BY HistoryAssumption

LEMMA LatestType ==
  ASSUME Typed, NEW a \in Apps, NEW n \in LatestOf(a)
  PROVE  /\ n \in 0..Len(versions[a])
         /\ n = 0 => versions[a] = <<>>
         /\ n # 0 => versions[a][n] \in Version
<1>1. versions[a] \in Seq(Version)
  BY DEF Typed
<1>2. Len(versions[a]) \in Nat
  BY <1>1, LenProperties
<1>3. n \in 0..Len(versions[a]) /\ (n = 0 => Len(versions[a]) = 0)
  BY <1>2, BoundsAssumption DEF LatestOf
<1>4. n # 0 => n \in 1..Len(versions[a])
  BY <1>2, <1>3
<1>5. Len(versions[a]) = 0 => versions[a] = <<>>
  BY <1>1, EmptySeq
<1> QED
  BY <1>1, <1>3, <1>4, <1>5, ElementOfSeq

LEMMA ReadLatestType ==
  ASSUME Typed, NEW a \in Apps, NEW b \in Latest(a)
  PROVE  b \in Version
<1>1. PICK n \in LatestOf(a) : b = IF n = 0 THEN NilVersion ELSE Read(versions[a][n])
  BY DEF Latest
<1>2. CASE n = 0
  BY <1>1, <1>2, NilVersionType
<1>3. CASE n # 0
  <2>1. versions[a][n] \in Version
    BY <1>3, LatestType
  <2> QED
    BY <1>1, <1>3, <2>1, ReadType
<1> QED
  BY <1>2, <1>3

LEMMA NewestType ==
  ASSUME Typed, NEW a \in Apps
  PROVE  Newest(a) \in Version
<1>1. versions[a] \in Seq(Version)
  BY DEF Typed
<1>2. CASE versions[a] = <<>>
  BY <1>2, NilVersionType DEF Newest
<1>3. CASE versions[a] # <<>>
  <2>1. Len(versions[a]) \in Nat \ {0}
    BY <1>1, <1>3, EmptySeq
  <2>2. Len(versions[a]) \in 1..Len(versions[a])
    BY <2>1
  <2>3. versions[a][Len(versions[a])] \in Version
    BY <1>1, <2>2, ElementOfSeq
  <2> QED
    BY <1>3, <2>3 DEF Newest
<1> QED
  BY <1>2, <1>3

-----------------------------------------------------------------------------
\* Type correctness.  It rests on what a command works on being in its YAML.

Working(s) ==
  /\ run[s].todo \subseteq Wanted(s)
  /\ run[s].pc \in {"post", "activate"} => run[s].app \in Wanted(s)

TypeInv == Typed /\ \A s \in Slots : Working(s)

\* What the steps of a command have to keep up, one slot at a time.
LEMMA BecomesTypeInv ==
  ASSUME TypeInv, NEW s \in Slots, NEW r \in Runs, Becomes(s, r),
         r.todo \subseteq DOMAIN History[r.cfg],
         r.pc \in {"post", "activate"} => r.app \in DOMAIN History[r.cfg]
  PROVE  run' \in [Slots -> Runs] /\ \A t \in Slots : Working(t)'
<1>1. /\ run' \in [Slots -> Runs]
      /\ run'[s] = r
      /\ \A t \in Slots \ {s} : run'[t] = run[t]
  BY BecomesType DEF TypeInv, Typed
<1>2. ASSUME NEW t \in Slots PROVE Working(t)'
  <2>1. CASE t = s
    BY <1>1, <2>1 DEF Working, Wanted, Cfg
  <2>2. CASE t # s
    BY <1>1, <2>2 DEF TypeInv, Working, Wanted, Cfg
  <2> QED
    BY <2>1, <2>2
<1> QED
  BY <1>1, <1>2

LEMMA EndTypeInv ==
  ASSUME TypeInv, NEW s \in Slots, NEW pc \in Ended, End(s, pc)
  PROVE  run' \in [Slots -> Runs] /\ \A t \in Slots : Working(t)'
<1>1. pc \in Phases /\ pc \notin {"post", "activate"}
  BY DEF Ended, Phases
<1>2. At(pc) \in Runs /\ Becomes(s, At(pc))
  BY <1>1, AtType DEF End
<1>3. At(pc).todo = {} /\ At(pc).pc = pc
  BY DEF At
<1> QED
  BY <1>1, <1>2, <1>3, BecomesTypeInv

\* The command in slot s: its fields, and the spec it works on.
LEMMA RunFacts ==
  ASSUME TypeInv, NEW s \in Slots
  PROVE  /\ run[s] \in Runs
         /\ run[s].cfg \in 1..Len(History)
         /\ Cfg(s) = History[run[s].cfg]
         /\ run[s].todo \subseteq DOMAIN History[run[s].cfg]
         /\ DOMAIN History[run[s].cfg] \subseteq Apps
         /\ run[s].pc \in {"post", "activate"} =>
              run[s].app \in DOMAIN History[run[s].cfg]
         /\ \A a \in DOMAIN History[run[s].cfg] :
              a \in Apps /\ Cfg(s)[a] \in ApplicationSpec
<1>1. run[s] \in Runs
  BY DEF TypeInv, Typed
<1>2. run[s].cfg \in 1..Len(History)
  BY <1>1 DEF Runs
<1> QED
  BY <1>1, <1>2, WantedType DEF TypeInv, Working, Wanted, Cfg

LEMMA AppliedRecord ==
  ASSUME NEW r \in Runs, NEW mem \in [Apps -> Entry], NEW d \in BOOLEAN,
         NEW todo \in SUBSET Apps
  PROVE  [r EXCEPT !.pc = "apply", !.todo = todo, !.app = None, !.id = 0,
                   !.base = NilVersion, !.made = 0, !.mem = mem, !.dirty = d] \in Runs
  BY NilVersionType DEF Runs, Phases

\* A step that moves one command on, inside the type of its record.
LEMMA AppliedType ==
  ASSUME TypeInv, NEW s \in Slots, run[s].pc \in {"post", "activate"}
  PROVE  /\ Applied(s) \in Runs
         /\ Applied(s).pc = "apply"
         /\ Applied(s).cfg = run[s].cfg
         /\ Applied(s).todo \subseteq run[s].todo
         /\ Applied(s).mem =
              [run[s].mem EXCEPT ![run[s].app] =
                 Recorded(@, Cfg(s)[run[s].app], run[s].plan[run[s].app])]
<1> DEFINE r == run[s]
           a == r.app
           c == Cfg(s)[a]
           e == Recorded(r.mem[a], c, r.plan[a])
           d == r.dirty \/ Modifies(r.mem[a], c, r.plan[a])
           mem == [r.mem EXCEPT ![a] = e]
<1>1. r \in Runs /\ a \in Apps /\ c \in ApplicationSpec
  BY RunFacts
<1>2. r.mem[a] \in Entry
  BY <1>1 DEF Runs
<1>3. e \in Entry
  BY <1>1, <1>2, RecordedType
<1>4. d \in BOOLEAN
  OBVIOUS
<1>5. Applied(s) = [r EXCEPT !.pc = "apply", !.todo = r.todo \ {a}, !.app = None, !.id = 0,
                             !.base = NilVersion, !.made = 0,
                             !.mem = mem, !.dirty = d]
  BY <1>1 DEF Applied, Runs
<1>6. mem \in [Apps -> Entry]
  BY <1>1, <1>3 DEF Runs
<1>7. r.todo \ {a} \in SUBSET Apps
  BY <1>1 DEF Runs
<1>8. mem =
        [r.mem EXCEPT ![a] = Recorded(@, c, r.plan[a])]
  BY <1>1 DEF Runs
<1> HIDE DEF r, a, c, e, d, mem
<1>9. [r EXCEPT !.pc = "apply", !.todo = r.todo \ {a}, !.app = None, !.id = 0,
                !.base = NilVersion, !.made = 0, !.mem = mem, !.dirty = d] \in Runs
  BY <1>1, <1>4, <1>6, <1>7, AppliedRecord, Zenon
<1>10. Applied(s) \in Runs
  BY <1>5, <1>9, Zenon
<1>11. /\ Applied(s).pc = "apply" /\ Applied(s).cfg = r.cfg /\ Applied(s).todo \subseteq r.todo
       /\ Applied(s).mem = mem
  BY <1>1, <1>5 DEF Runs
<1> QED
  BY <1>8, <1>10, <1>11 DEF r, a, c

LEMMA InitTypeInv == Init => TypeInv
<1> SUFFICES ASSUME Init PROVE TypeInv
  OBVIOUS
<1>1. EmptyFile \in [Apps -> Entry]
  BY DEF EmptyFile, NoEntry, Entry, Opt
<1>2. At("idle") \in Runs
  BY AtType DEF Phases
<1>3. <<>> \in Seq(Version)
  BY EmptySeq
<1>4. count \in Counters /\ yaml \in 1..Len(History)
  BY BoundsAssumption, HistoryAssumption DEF Init, Counters
<1>5. Typed
  BY <1>1, <1>2, <1>3, <1>4 DEF Init, Typed
<1>6. \A s \in Slots : Working(s)
  BY DEF Init, Working, At
<1> QED
  BY <1>5, <1>6 DEF TypeInv

\* Steps of a command that read only, and those that write one thing.
LEMMA ReadStepTypeInv ==
  ASSUME TypeInv, NEW s \in Slots,
         \/ Start(s) \/ StartActivate(s) \/ LoadState(s) \/ ListForPlan(s) \/ Decide(s)
         \/ Approve(s) \/ Cancel(s) \/ Abandon(s) \/ ListForApply(s) \/ FinishApply(s) \/ ResolveLatest(s)
         \/ \E a \in Apps : \/ PlanCreate(s, a) \/ PlanUpdate(s, a) \/ ApplyNoop(s, a)
                            \/ ReadBase(s, a) \/ FindApplication(s, a)
  PROVE  TypeInv'
<1>0. /\ run[s] \in Runs
      /\ run[s].todo \subseteq DOMAIN History[run[s].cfg]
      /\ DOMAIN History[run[s].cfg] \subseteq Apps
      /\ Wanted(s) = DOMAIN History[run[s].cfg]
      /\ run[s].pc \in {"post", "activate"} =>
           run[s].app \in DOMAIN History[run[s].cfg]
  BY RunFacts DEF Wanted, Cfg
<1>1. UNCHANGED <<yaml, server, disk, count>>
  BY DEF Start, LoadState, StartActivate, ListForPlan, Decide, Approve, Cancel, Abandon, ListForApply,
         FinishApply, ResolveLatest, PlanCreate, PlanUpdate, ApplyNoop, ReadBase,
         FindApplication
<1>2. SUFFICES run' \in [Slots -> Runs] /\ \A t \in Slots : Working(t)'
  BY <1>1, <1>2 DEF TypeInv, Typed, server, disk
<1>3. ASSUME NEW pc \in Ended, End(s, pc)
      PROVE  run' \in [Slots -> Runs] /\ \A t \in Slots : Working(t)'
  BY <1>3, EndTypeInv
<1>4. ASSUME NEW r \in Runs, Becomes(s, r), r.cfg = run[s].cfg,
             r.todo \subseteq DOMAIN History[run[s].cfg],
             r.pc \in {"post", "activate"} => r.app \in DOMAIN History[run[s].cfg]
      PROVE  run' \in [Slots -> Runs] /\ \A t \in Slots : Working(t)'
  BY <1>4, BecomesTypeInv
<1>5. IDs \in [Apps -> Nat]
  BY DEF IDs, TypeInv, Typed
<1>6. CASE Start(s)
  <2>1. PICK opts \in BOOLEAN : Becomes(s, [At("load") EXCEPT !.cfg = yaml, !.opts = opts])
    BY <1>6 DEF Start
  <2> DEFINE r == [At("load") EXCEPT !.cfg = yaml, !.opts = opts]
  <2>2. yaml \in 1..Len(History)
    BY DEF TypeInv, Typed
  <2>3. At("load") \in Runs /\ At("load").todo = {} /\ At("load").pc = "load"
    BY AtType DEF Phases, At
  <2>4. r \in Runs /\ r.todo = {} /\ r.pc = "load"
    BY <1>0, <2>2, <2>3, Zenon DEF Runs
  <2> QED
    BY <2>1, <2>4, BecomesTypeInv
<1>19. CASE LoadState(s)
  <2> DEFINE r == [run[s] EXCEPT !.pc = "list", !.mem = file]
  <2>1. file \in [Apps -> Entry]
    BY DEF TypeInv, Typed
  <2>2. r \in Runs /\ r.cfg = run[s].cfg /\ r.todo = run[s].todo /\ r.pc = "list"
    BY <1>0, <2>1 DEF Runs, Phases
  <2>3. CASE fileOk
    BY <1>0, <1>4, <1>19, <2>2, <2>3 DEF LoadState
  <2>4. CASE ~fileOk
    BY <1>3, <1>19, <2>4 DEF LoadState, Ended
  <2> QED
    BY <2>3, <2>4
<1>7. CASE StartActivate(s)
  <2> DEFINE r == [At("find") EXCEPT !.cfg = yaml]
  <2>1. yaml \in 1..Len(History)
    BY DEF TypeInv, Typed
  <2>2. At("find") \in Runs /\ At("find").todo = {} /\ At("find").pc = "find"
    BY AtType DEF Phases, At
  <2>3. r \in Runs /\ r.todo = {} /\ r.pc = "find"
    BY <1>0, <2>1, <2>2 DEF Runs
  <2> QED
    BY <1>7, <2>3, BecomesTypeInv DEF StartActivate
<1>8. CASE ListForPlan(s)
  <2> DEFINE r == [run[s] EXCEPT !.pc = "plan", !.known = IDs, !.todo = Wanted(s)]
  <2>1. r \in Runs /\ r.cfg = run[s].cfg /\ r.todo = Wanted(s) /\ r.pc = "plan"
    BY <1>0, <1>5 DEF Runs, Phases, Wanted
  <2> QED
    BY <1>0, <1>4, <1>8, <2>1 DEF ListForPlan, Wanted
<1>9. CASE ListForApply(s)
  <2> DEFINE r == [run[s] EXCEPT !.pc = "apply", !.known = IDs, !.todo = Wanted(s)]
  <2>1. r \in Runs /\ r.cfg = run[s].cfg /\ r.todo = Wanted(s) /\ r.pc = "apply"
    BY <1>0, <1>5 DEF Runs, Phases, Wanted
  <2> QED
    BY <1>0, <1>4, <1>9, <2>1 DEF ListForApply, Wanted
<1>10. ASSUME run[s].pc = "plan", NEW a \in Apps, NEW kind \in Kinds, Planned(s, a, kind)
       PROVE  run' \in [Slots -> Runs] /\ \A t \in Slots : Working(t)'
  <2> DEFINE r == [run[s] EXCEPT !.plan[a] = kind, !.todo = @ \ {a}]
  <2>1. [run[s].plan EXCEPT ![a] = kind] \in [Apps -> Kinds]
    BY <1>0, <1>0 DEF Runs
  <2>2. r = [run[s] EXCEPT !.plan = [run[s].plan EXCEPT ![a] = kind],
                           !.todo = run[s].todo \ {a}]
    BY <1>0, <1>0 DEF Runs
  <2>3. r \in Runs /\ r.cfg = run[s].cfg /\ r.todo \subseteq run[s].todo /\ r.pc = "plan"
    BY <1>0, <1>10, <2>1, <2>2 DEF Runs
  <2> QED
    BY <1>0, <1>4, <1>10, <2>3 DEF Planned
<1>11. CASE \E a \in Apps : PlanCreate(s, a)
  BY <1>10, <1>11 DEF PlanCreate, Kinds
<1>12. CASE \E a \in Apps : PlanUpdate(s, a)
  BY <1>3, <1>10, <1>12 DEF PlanUpdate, Kinds, Ended
<1>13. ASSUME NEW pc \in Phases \ {"post", "activate"},
              Becomes(s, [run[s] EXCEPT !.pc = pc])
       PROVE  run' \in [Slots -> Runs] /\ \A t \in Slots : Working(t)'
  <2> DEFINE r == [run[s] EXCEPT !.pc = pc]
  <2>1. r \in Runs /\ r.cfg = run[s].cfg /\ r.todo = run[s].todo /\ r.pc = pc
    BY <1>0, <1>13 DEF Runs
  <2> QED
    BY <1>0, <1>4, <1>13, <2>1
<1>14. CASE Decide(s) \/ Approve(s) \/ Cancel(s) \/ Abandon(s) \/ FinishApply(s)
  BY <1>3, <1>13, <1>14 DEF Decide, Approve, Cancel, Abandon, FinishApply, Phases, Ended
<1>15. CASE \E a \in Apps : ApplyNoop(s, a)
  <2>1. PICK a \in Apps : ApplyNoop(s, a)
    BY <1>15
  <2> DEFINE r == [run[s] EXCEPT !.todo = @ \ {a}]
  <2>2. r \in Runs /\ r.cfg = run[s].cfg /\ r.todo \subseteq run[s].todo /\ r.pc = "apply"
    BY <1>0, <2>1 DEF Runs, ApplyNoop, Turn
  <2> QED
    BY <1>0, <1>4, <2>1, <2>2 DEF ApplyNoop
<1>16. CASE \E a \in Apps : ReadBase(s, a)
  <2>1. PICK a \in Apps : ReadBase(s, a)
    BY <1>16
  <2>2. CASE End(s, "failed")
    BY <1>3, <2>2 DEF Ended
  <2>3. CASE ~End(s, "failed")
    <3>1. PICK b \in Latest(a) :
            Becomes(s, [run[s] EXCEPT !.pc = "post", !.app = a, !.id = run[s].known[a],
                                      !.base = b])
      BY <2>1, <2>3 DEF ReadBase
    <3> DEFINE r == [run[s] EXCEPT !.pc = "post", !.app = a, !.id = run[s].known[a],
                                   !.base = b]
    <3>2. b \in Version /\ run[s].known[a] \in Nat
      BY <1>0, ReadLatestType DEF Runs, TypeInv
    <3>3. r \in Runs /\ r.cfg = run[s].cfg /\ r.todo = run[s].todo /\ r.app = a
      BY <1>0, <3>2 DEF Runs, Phases
    <3>4. a \in DOMAIN History[run[s].cfg]
      BY <1>0, <2>1 DEF ReadBase, Turn
    <3> QED
      BY <1>0, <1>4, <3>1, <3>3, <3>4
  <2> QED
    BY <2>2, <2>3
<1>17. CASE \E a \in Apps : FindApplication(s, a)
  <2>1. PICK a \in Apps : FindApplication(s, a)
    BY <1>17
  <2>2. born[a] \in Nat
    BY DEF TypeInv, Typed
  <2>3. CASE End(s, "failed")
    BY <1>3, <2>3 DEF Ended
  <2>4. CASE Becomes(s, [run[s] EXCEPT !.pc = "latest", !.app = a, !.id = born[a]])
    <3> DEFINE r == [run[s] EXCEPT !.pc = "latest", !.app = a, !.id = born[a]]
    <3>1. r \in Runs /\ r.cfg = run[s].cfg /\ r.todo = run[s].todo /\ r.pc = "latest"
      BY <1>0, <2>2 DEF Runs, Phases
    <3> QED
      BY <1>0, <1>4, <2>4, <3>1
  <2>5. ASSUME NEW n \in 1..Len(versions[a]),
               Becomes(s, [run[s] EXCEPT !.pc = "set", !.app = a, !.id = born[a], !.made = n])
        PROVE  run' \in [Slots -> Runs] /\ \A t \in Slots : Working(t)'
    <3> DEFINE r == [run[s] EXCEPT !.pc = "set", !.app = a, !.id = born[a], !.made = n]
    <3>1. n \in Nat
      BY LenProperties DEF TypeInv, Typed
    <3>2. r \in Runs /\ r.cfg = run[s].cfg /\ r.todo = run[s].todo /\ r.pc = "set"
      BY <1>0, <2>2, <3>1 DEF Runs, Phases
    <3> QED
      BY <1>0, <1>4, <2>5, <3>2
  <2> QED
    BY <2>1, <2>3, <2>4, <2>5 DEF FindApplication
<1>18. CASE ResolveLatest(s)
  <2>1. CASE End(s, "failed")
    BY <1>3, <2>1 DEF Ended
  <2>2. CASE ~End(s, "failed")
    <3>1. run[s].app \in exists
      BY <1>18, <2>2 DEF ResolveLatest, Alive
    <3>2. run[s].app \in Apps
      BY <3>1 DEF TypeInv, Typed
    <3>3. PICK n \in LatestOf(run[s].app) :
            Becomes(s, [run[s] EXCEPT !.pc = "set", !.made = n])
      BY <1>18, <2>2 DEF ResolveLatest
    <3> DEFINE r == [run[s] EXCEPT !.pc = "set", !.made = n]
    <3>4. n \in Nat
      BY <3>2, LatestType DEF TypeInv
    <3>5. r \in Runs /\ r.cfg = run[s].cfg /\ r.todo = run[s].todo /\ r.pc = "set"
      BY <1>0, <3>4 DEF Runs, Phases
    <3> QED
      BY <1>0, <1>4, <3>3, <3>5
  <2> QED
    BY <2>1, <2>2
<1> QED
  BY <1>6, <1>7, <1>8, <1>9, <1>11, <1>12, <1>14, <1>15, <1>16, <1>17, <1>18, <1>19

\* A version posted by command s, and the list it is added to.
LEMMA PostedType ==
  ASSUME TypeInv, NEW s \in Slots, run[s].pc = "post"
  PROVE  LET a == run[s].app
             v == Store(BuildRequest(Cfg(s)[a], run[s].base), Newest(a))
         IN  /\ a \in Apps
             /\ v \in Version
             /\ InSync(v, Cfg(s)[a])
             /\ versions[a] \in Seq(Version)
             /\ Append(versions[a], v) \in Seq(Version)
<1> DEFINE a == run[s].app
           v == Store(BuildRequest(Cfg(s)[a], run[s].base), Newest(a))
<1>1. a \in Apps /\ Cfg(s)[a] \in ApplicationSpec /\ run[s] \in Runs
  BY RunFacts
<1>2. run[s].base \in Version
  BY <1>1 DEF Runs
<1>3. Newest(a) \in Version
  BY <1>1, NewestType DEF TypeInv
<1>4. v \in Version /\ InSync(v, Cfg(s)[a])
  BY <1>1, <1>2, <1>3, StoreType, StoreInSync
<1>5. versions[a] \in Seq(Version)
  BY <1>1 DEF TypeInv, Typed
<1> HIDE DEF v
<1>6. Append(versions[a], v) \in Seq(Version)
  BY <1>4, <1>5, AppendProperties
<1> QED
  BY <1>1, <1>4, <1>5, <1>6 DEF v

LEMMA WriteStepTypeInv ==
  ASSUME TypeInv, NEW s \in Slots,
         \/ PostVersion(s) \/ Activate(s) \/ SaveTruncate(s) \/ SaveWrite(s) \/ SetActive(s)
         \/ \E a \in Apps : CreateApplication(s, a)
  PROVE  TypeInv'
<1>0. /\ run[s] \in Runs
      /\ run[s].todo \subseteq DOMAIN History[run[s].cfg]
      /\ DOMAIN History[run[s].cfg] \subseteq Apps
      /\ run[s].pc \in {"post", "activate"} =>
           run[s].app \in DOMAIN History[run[s].cfg]
  BY RunFacts
<1>1. ASSUME NEW pc \in Ended, End(s, pc)
      PROVE  run' \in [Slots -> Runs] /\ \A t \in Slots : Working(t)'
  BY <1>1, EndTypeInv
<1>2. ASSUME NEW r \in Runs, Becomes(s, r), r.cfg = run[s].cfg,
             r.todo \subseteq DOMAIN History[run[s].cfg],
             r.pc \in {"post", "activate"} => r.app \in DOMAIN History[run[s].cfg]
      PROVE  run' \in [Slots -> Runs] /\ \A t \in Slots : Working(t)'
  BY <1>2, BecomesTypeInv
<1>3. ASSUME run[s].pc \in {"post", "activate"}, Becomes(s, Applied(s))
      PROVE  run' \in [Slots -> Runs] /\ \A t \in Slots : Working(t)'
  <2>1. /\ Applied(s) \in Runs /\ Applied(s).pc = "apply" /\ Applied(s).cfg = run[s].cfg
        /\ Applied(s).todo \subseteq run[s].todo
    BY <1>3, AppliedType
  <2> QED
    BY <1>0, <1>2, <1>3, <2>1
<1>4. Typed
  BY DEF TypeInv
<1>5. CASE \E a \in Apps : CreateApplication(s, a)
  <2>1. PICK a \in Apps : CreateApplication(s, a)
    BY <1>5
  <2>2. CASE a \in exists
    BY <1>1, <1>4, <2>1, <2>2 DEF CreateApplication, TypeInv, Typed, disk, Ended
  <2>3. CASE a \notin exists
    <3> DEFINE r == [run[s] EXCEPT !.pc = "post", !.app = a, !.id = born[a] + 1,
                                   !.base = NilVersion]
    <3>1. born[a] + 1 \in Nat
      BY <1>4 DEF Typed
    <3>2. r \in Runs /\ r.cfg = run[s].cfg /\ r.todo = run[s].todo /\ r.app = a
      BY <1>0, <3>1, NilVersionType DEF Runs, Phases
    <3>3. a \in DOMAIN History[run[s].cfg] /\ Becomes(s, r)
      BY <1>0, <2>1, <2>3 DEF CreateApplication, Turn
    <3>4. run' \in [Slots -> Runs] /\ \A t \in Slots : Working(t)'
      BY <1>0, <1>2, <3>2, <3>3
    <3>5. /\ exists' = exists \cup {a} /\ born' = [born EXCEPT ![a] = @ + 1]
          /\ UNCHANGED <<yaml, versions, active, disk, count>>
      BY <2>1, <2>3 DEF CreateApplication
    <3>6. exists' \in SUBSET Apps /\ born' \in [Apps -> Nat]
      BY <1>4, <3>1, <3>5 DEF Typed
    <3> QED
      BY <1>4, <3>4, <3>5, <3>6 DEF TypeInv, Typed, disk
  <2> QED
    BY <2>2, <2>3
<1>6. CASE PostVersion(s)
  <2> DEFINE a == run[s].app
             v == Store(BuildRequest(Cfg(s)[a], run[s].base), Newest(a))
  <2>0. /\ run[s].pc = "post"
        /\ UNCHANGED <<yaml, exists, born, active, disk, count>>
    BY <1>6 DEF PostVersion
  <2>1. CASE ~Alive(a, run[s].id)
    BY <1>1, <1>4, <1>6, <2>0, <2>1 DEF PostVersion, TypeInv, Typed, disk, Ended
  <2>2. CASE Alive(a, run[s].id)
    <3>1. a \in Apps /\ Append(versions[a], v) \in Seq(Version) /\ versions[a] \in Seq(Version)
      BY <2>0, PostedType
    <3>2. versions' = [versions EXCEPT ![a] = Append(@, v)]
      BY <1>6, <2>2 DEF PostVersion
    <3> HIDE DEF v
    <3>3. versions' \in [Apps -> Seq(Version)]
      BY <1>4, <3>1, <3>2 DEF Typed
    <3>4. CASE run[s].opts
      <4> DEFINE r == [run[s] EXCEPT !.pc = "activate", !.made = Len(versions[a]) + 1]
      <4>1. Becomes(s, r)
        BY <1>6, <2>2, <3>4 DEF PostVersion
      <4>2. Len(versions[a]) + 1 \in Nat
        BY <3>1, LenProperties
      <4>3. r \in Runs /\ r.cfg = run[s].cfg /\ r.todo = run[s].todo /\ r.app = a
        BY <1>0, <4>2 DEF Runs, Phases
      <4>4. run' \in [Slots -> Runs] /\ \A t \in Slots : Working(t)'
        BY <1>0, <1>2, <2>0, <4>1, <4>3
      <4> QED
        BY <1>4, <2>0, <3>3, <4>4 DEF TypeInv, Typed, disk
    <3>5. CASE ~run[s].opts
      <4>1. Becomes(s, Applied(s))
        BY <1>6, <2>2, <3>5 DEF PostVersion
      <4>2. run' \in [Slots -> Runs] /\ \A t \in Slots : Working(t)'
        BY <1>3, <2>0, <4>1
      <4> QED
        BY <1>4, <2>0, <3>3, <4>2 DEF TypeInv, Typed, disk
    <3> QED
      BY <3>4, <3>5
  <2> QED
    BY <2>1, <2>2
<1>7. CASE Activate(s)
  <2> DEFINE a == run[s].app
  <2>0. /\ run[s].pc = "activate"
        /\ UNCHANGED <<yaml, versions, exists, born, disk, count>>
    BY <1>7 DEF Activate
  <2>1. CASE ~Alive(a, run[s].id)
    BY <1>1, <1>4, <1>7, <2>0, <2>1 DEF Activate, TypeInv, Typed, disk, Ended
  <2>2. CASE Alive(a, run[s].id)
    <3>1. active' = [active EXCEPT ![a] = run[s].made] /\ Becomes(s, Applied(s))
      BY <1>7, <2>2 DEF Activate
    <3>2. active' \in [Apps -> Nat]
      BY <1>0, <1>4, <3>1 DEF Typed, Runs
    <3> QED
      BY <1>3, <1>4, <2>0, <3>1, <3>2 DEF TypeInv, Typed, disk
  <2> QED
    BY <2>1, <2>2
<1>8. CASE SaveTruncate(s)
  <2> DEFINE r == [run[s] EXCEPT !.pc = "write"]
  <2>1. r \in Runs /\ r.cfg = run[s].cfg /\ r.todo = run[s].todo /\ r.pc = "write"
    BY <1>0 DEF Runs, Phases
  <2>2. Becomes(s, r) /\ fileOk' = FALSE /\ UNCHANGED <<yaml, server, file, count>>
    BY <1>8 DEF SaveTruncate
  <2>3. run' \in [Slots -> Runs] /\ \A t \in Slots : Working(t)'
    BY <1>0, <1>2, <2>1, <2>2
  <2> QED
    BY <1>4, <2>2, <2>3 DEF TypeInv, Typed, server
<1>9. CASE SaveWrite(s)
  <2>1. file' = run[s].mem /\ fileOk' = TRUE /\ UNCHANGED <<yaml, server, count>>
    BY <1>9 DEF SaveWrite
  <2>2. run[s].mem \in [Apps -> Entry]
    BY <1>0 DEF Runs
  <2>3. run' \in [Slots -> Runs] /\ \A t \in Slots : Working(t)'
    BY <1>1, <1>9 DEF SaveWrite, Ended
  <2> QED
    BY <1>4, <2>1, <2>2, <2>3 DEF TypeInv, Typed, server
<1>10. CASE SetActive(s)
  <2>1. run' \in [Slots -> Runs] /\ \A t \in Slots : Working(t)'
    BY <1>1, <1>10 DEF SetActive, Ended
  <2>2. active' \in [Apps -> Nat]
    BY <1>0, <1>4, <1>10 DEF SetActive, Typed, Runs
  <2>3. UNCHANGED <<yaml, versions, exists, born, disk, count>>
    BY <1>10 DEF SetActive
  <2> QED
    BY <1>4, <2>1, <2>2, <2>3 DEF TypeInv, Typed, disk
<1> QED
  BY <1>5, <1>6, <1>7, <1>8, <1>9, <1>10

\* Failures and the environment.
LEMMA OutsideStepTypeInv ==
  ASSUME TypeInv,
         \/ \E s \in Slots : Fail(s)
         \/ LoseFile \/ RepairFile \/ Edit
         \/ \E a \in Apps : Remove(a) \/ \E img \in DeployImages : Deploy(a, img)
  PROVE  TypeInv'
<1>1. Typed /\ \A s \in Slots : Working(s)
  BY DEF TypeInv
<1>2. CASE \E s \in Slots : Fail(s)
  <2>1. PICK s \in Slots : Fail(s)
    BY <1>2
  <2>2. run' \in [Slots -> Runs] /\ \A t \in Slots : Working(t)'
    BY <2>1, EndTypeInv DEF Fail, Ended
  <2>3. count' \in Counters
    <3>1. /\ count \in Counters /\ count.faults < MaxFaults
          /\ count' = [count EXCEPT !.faults = @ + 1]
      BY <1>1, <2>1 DEF Fail, Typed
    <3> QED
      BY <3>1, BoundsAssumption DEF Counters
  <2> QED
    BY <1>1, <2>1, <2>2, <2>3 DEF Fail, TypeInv, Typed, server, disk
<1>3. CASE LoseFile \/ RepairFile
  <2>1. EmptyFile \in [Apps -> Entry]
    BY DEF EmptyFile, NoEntry, Entry, Opt
  <2>2. count' \in Counters
    BY <1>1, <1>3, BoundsAssumption DEF LoseFile, RepairFile, Typed, Counters
  <2>3. /\ file' = EmptyFile /\ fileOk' = TRUE /\ UNCHANGED <<yaml, server, run>>
    BY <1>3 DEF LoseFile, RepairFile, NoFile
  <2>4. \A s \in Slots : Working(s)'
    BY <1>1, <2>3 DEF Working, Wanted, Cfg
  <2> QED
    BY <1>1, <2>1, <2>2, <2>3, <2>4 DEF TypeInv, Typed, server
<1>4. CASE Edit
  <2>1. yaml' \in 1..Len(History)
    BY <1>1, <1>4, HistoryAssumption DEF Edit, Typed
  <2>2. \A s \in Slots : Working(s)'
    BY <1>1, <1>4 DEF Edit, Working, Wanted, Cfg
  <2> QED
    BY <1>1, <1>4, <2>1, <2>2 DEF Edit, TypeInv, Typed, server, disk
<1>5. CASE \E a \in Apps : Remove(a)
  <2>1. PICK a \in Apps : Remove(a)
    BY <1>5
  <2>2. count' \in Counters
    <3>1. /\ count \in Counters /\ count.removes < MaxRemoves
          /\ count' = [count EXCEPT !.removes = @ + 1]
      BY <1>1, <2>1 DEF Remove, Typed
    <3> QED
      BY <3>1, BoundsAssumption DEF Counters
  <2>3. versions' \in [Apps -> Seq(Version)] /\ exists' \in SUBSET Apps
    BY <1>1, <2>1, EmptySeq DEF Remove, Typed
  <2>4. \A s \in Slots : Working(s)'
    BY <1>1, <2>1 DEF Remove, Working, Wanted, Cfg
  <2> QED
    BY <1>1, <2>1, <2>2, <2>3, <2>4 DEF Remove, TypeInv, Typed, disk
<1>6. CASE \E a \in Apps : \E img \in DeployImages : Deploy(a, img)
  <2>1. PICK a \in Apps, img \in DeployImages : Deploy(a, img)
    BY <1>6
  <2> DEFINE v == [Newest(a) EXCEPT !.image = img]
  <2>2. v \in Version
    BY <1>1, NewestType, BoundsAssumption DEF Version, Opt
  <2>3. versions[a] \in Seq(Version) /\ versions' = [versions EXCEPT ![a] = Append(@, v)]
    BY <1>1, <2>1 DEF Deploy, Typed
  <2> HIDE DEF v
  <2>4. Append(versions[a], v) \in Seq(Version)
    BY <2>2, <2>3, AppendProperties
  <2>5. versions' \in [Apps -> Seq(Version)]
    BY <1>1, <2>3, <2>4 DEF Typed
  <2>6. count' \in Counters
    <3>1. /\ count \in Counters /\ count.deploys < MaxDeploys
          /\ count' = [count EXCEPT !.deploys = @ + 1]
      BY <1>1, <2>1 DEF Deploy, Typed
    <3> QED
      BY <3>1, BoundsAssumption DEF Counters
  <2>7. \A s \in Slots : Working(s)'
    BY <1>1, <2>1 DEF Deploy, Working, Wanted, Cfg
  <2> QED
    BY <1>1, <2>1, <2>5, <2>6, <2>7 DEF Deploy, TypeInv, Typed, disk
<1> QED
  BY <1>2, <1>3, <1>4, <1>5, <1>6

LEMMA StepTypeInv == TypeInv /\ [Next]_vars => TypeInv'
<1> SUFFICES ASSUME TypeInv, [Next]_vars PROVE TypeInv'
  OBVIOUS
<1>1. CASE UNCHANGED vars
  BY <1>1 DEF vars, TypeInv, Typed, Working, Wanted, Cfg
<1>2. ASSUME NEW s \in Slots,
             \/ Command(s) \/ Start(s) \/ StartActivate(s) \/ Approve(s) \/ Cancel(s)
             \/ Abandon(s)
      PROVE  TypeInv'
  BY <1>2, ReadStepTypeInv, WriteStepTypeInv DEF Command
<1>3. CASE Next
  BY <1>2, <1>3, OutsideStepTypeInv DEF Next
<1> QED
  BY <1>1, <1>3

\* The steps that change the versions of an application.
LEMMA VersionsStep ==
  ASSUME [Next]_vars
  PROVE  \/ UNCHANGED versions
         \/ \E s \in Slots : PostVersion(s) /\ Alive(run[s].app, run[s].id)
         \/ \E a \in Apps : Remove(a) \/ \E img \in DeployImages : Deploy(a, img)
<1>1. ASSUME NEW s \in Slots, PostVersion(s)
      PROVE  UNCHANGED versions \/ Alive(run[s].app, run[s].id)
  BY <1>1 DEF PostVersion
<1>2. ASSUME NEW s \in Slots,
             \/ Start(s) \/ StartActivate(s) \/ LoadState(s) \/ ListForPlan(s) \/ Decide(s)
             \/ Approve(s) \/ Cancel(s) \/ Abandon(s) \/ ListForApply(s) \/ FinishApply(s) \/ SaveTruncate(s)
             \/ SaveWrite(s) \/ Fail(s) \/ ResolveLatest(s) \/ Activate(s) \/ SetActive(s)
             \/ \E a \in Apps : \/ PlanCreate(s, a) \/ PlanUpdate(s, a) \/ ApplyNoop(s, a)
                                \/ ReadBase(s, a) \/ FindApplication(s, a)
                                \/ CreateApplication(s, a)
      PROVE  UNCHANGED versions
  BY <1>2 DEF Start, LoadState, StartActivate, ListForPlan, Decide, Approve, Cancel, Abandon, ListForApply,
         FinishApply, SaveTruncate, SaveWrite, Fail, ResolveLatest, Activate, SetActive,
         PlanCreate, PlanUpdate, ApplyNoop, ReadBase, FindApplication, CreateApplication, server
<1>3. CASE LoseFile \/ RepairFile \/ Edit \/ UNCHANGED vars
  BY <1>3 DEF LoseFile, RepairFile, NoFile, Edit, vars, server
<1> QED
  BY <1>1, <1>2, <1>3 DEF Next, Command

\* A version that is added takes nothing away from what was posted.
LEMMA AppendPosted ==
  ASSUME NEW vs \in Seq(Version), NEW v \in Version
  PROVE  /\ Len(Append(vs, v)) = Len(vs) + 1 /\ Len(vs) \in Nat
         /\ Append(vs, v)[Len(vs) + 1] = v
         /\ \A j \in 1..Len(vs) : j \in 1..Len(Append(vs, v)) /\ Append(vs, v)[j] = vs[j]
         /\ \A c : Posted(vs, c) => Posted(Append(vs, v), c)
<1>1. /\ Len(Append(vs, v)) = Len(vs) + 1 /\ Len(vs) \in Nat
      /\ Append(vs, v)[Len(vs) + 1] = v
      /\ \A j \in 1..Len(vs) : j \in 1..Len(Append(vs, v)) /\ Append(vs, v)[j] = vs[j]
  BY AppendProperties, LenProperties
<1>2. ASSUME NEW c, Posted(vs, c) PROVE Posted(Append(vs, v), c)
  BY <1>1, <1>2 DEF Posted
<1> QED
  BY <1>1, <1>2

\* A command takes its base from a read of the latest version.
LEMMA BaseStep ==
  ASSUME TypeInv, [Next]_vars, NEW s \in Slots
  PROVE  \/ run'[s].base = run[s].base \/ run'[s].base = NilVersion
         \/ \E a \in Apps : run'[s].base \in Latest(a)
<1> DEFINE Claim ==
      \/ run'[s].base = run[s].base \/ run'[s].base = NilVersion
      \/ \E a \in Apps : run'[s].base \in Latest(a)
<1>0. run \in [Slots -> Runs] /\ \A t \in Slots : run[t] \in Runs
  BY DEF TypeInv, Typed
<1>1. ASSUME NEW t \in Slots, NEW r, Becomes(t, r),
             \/ r.base = run[t].base \/ r.base = NilVersion
             \/ \E a \in Apps : r.base \in Latest(a)
      PROVE  Claim
  BY <1>0, <1>1 DEF Becomes
<1>2. ASSUME NEW t \in Slots, NEW pc, End(t, pc) PROVE Claim
  <2>1. At(pc).base = NilVersion
    BY DEF At
  <2> QED
    BY <1>1, <1>2, <2>1 DEF End
<1>3. ASSUME NEW t \in Slots, NEW r, Becomes(t, r), r.base = run[t].base PROVE Claim
  BY <1>1, <1>3
<1> HIDE DEF Claim
<1>4. ASSUME NEW t \in Slots, Start(t) \/ StartActivate(t) PROVE Claim
  <2>1. \A opts : [At("load") EXCEPT !.cfg = yaml, !.opts = opts].base = NilVersion
    BY DEF At
  <2>2. [At("find") EXCEPT !.cfg = yaml].base = NilVersion
    BY DEF At
  <2> QED
    BY <1>1, <1>4, <2>1, <2>2 DEF Start, StartActivate
<1>5. ASSUME NEW t \in Slots,
             LoadState(t) \/ ListForPlan(t) \/ ListForApply(t) \/ Approve(t) \/ SaveTruncate(t)
      PROVE  Claim
  BY <1>0, <1>2, <1>3, <1>5
     DEF LoadState, ListForPlan, ListForApply, Approve, SaveTruncate, Runs
<1>6. ASSUME NEW t \in Slots, Decide(t) \/ FinishApply(t) \/ ResolveLatest(t) PROVE Claim
  BY <1>0, <1>2, <1>3, <1>6 DEF Decide, FinishApply, ResolveLatest, Runs
<1>7. ASSUME NEW t \in Slots,
             Cancel(t) \/ Abandon(t) \/ SetActive(t) \/ Fail(t) \/ SaveWrite(t)
      PROVE  Claim
  BY <1>2, <1>7 DEF Cancel, Abandon, SetActive, Fail, SaveWrite
<1>8. ASSUME NEW t \in Slots, NEW a \in Apps,
             PlanCreate(t, a) \/ PlanUpdate(t, a) \/ ApplyNoop(t, a) \/ FindApplication(t, a)
      PROVE  Claim
  BY <1>0, <1>2, <1>3, <1>8 DEF PlanCreate, PlanUpdate, Planned, ApplyNoop, FindApplication, Runs
<1>9. ASSUME NEW t \in Slots, NEW a \in Apps, CreateApplication(t, a) PROVE Claim
  <2>1. \A id : [run[t] EXCEPT !.pc = "post", !.app = a, !.id = id,
                               !.base = NilVersion].base = NilVersion
    BY <1>0 DEF Runs
  <2> QED
    BY <1>1, <1>2, <1>9, <2>1 DEF CreateApplication
<1>10. ASSUME NEW t \in Slots, NEW a \in Apps, ReadBase(t, a) PROVE Claim
  <2>1. \A id, b : [run[t] EXCEPT !.pc = "post", !.app = a, !.id = id, !.base = b].base = b
    BY <1>0 DEF Runs
  <2> QED
    BY <1>1, <1>2, <1>10, <2>1 DEF ReadBase
<1>11. ASSUME NEW t \in Slots, PostVersion(t) \/ Activate(t) PROVE Claim
  <2>1. Applied(t).base = NilVersion
    BY <1>0 DEF Applied, Runs
  <2>2. \A n : [run[t] EXCEPT !.pc = "activate", !.made = n].base = run[t].base
    BY <1>0 DEF Runs
  <2> QED
    BY <1>1, <1>2, <1>3, <1>11, <2>1, <2>2 DEF PostVersion, Activate
<1>12. CASE \/ LoseFile \/ RepairFile \/ Edit \/ UNCHANGED vars
            \/ \E a \in Apps : Remove(a) \/ \E img \in DeployImages : Deploy(a, img)
  BY <1>12 DEF LoseFile, RepairFile, NoFile, Edit, vars, Remove, Deploy, Claim
<1> QED
  BY <1>4, <1>5, <1>6, <1>7, <1>8, <1>9, <1>10, <1>11, <1>12 DEF Next, Command, Claim

\* The image of a version a command posts, and of one it reads.
LEMMA PostedImage ==
  ASSUME TypeInv, Imaged, NEW s \in Slots, run[s].pc = "post"
  PROVE  Store(BuildRequest(Cfg(s)[run[s].app], run[s].base), Newest(run[s].app)).image \in Images
<1> DEFINE a == run[s].app
           c == Cfg(s)[a]
           b == run[s].base
<1>1. /\ a \in DOMAIN History[run[s].cfg] /\ run[s].cfg \in 1..Len(History)
      /\ c = History[run[s].cfg][a]
  BY RunFacts
<1>2. c.image \in Images
  BY <1>1, HistoryAssumption DEF Validate, ApplicationSpec, Opt
<1>3. b # NilVersion => b.image \in Images
  BY DEF Imaged
<1>4. Store(BuildRequest(c, b), Newest(a)).image = BuildImage(c, b)
  BY DEF Store, BuildRequest
<1> QED
  BY <1>2, <1>3, <1>4 DEF BuildImage

LEMMA LatestImage ==
  ASSUME TypeInv, Imaged, NEW a \in Apps, NEW b \in Latest(a), b # NilVersion
  PROVE  b.image \in Images
<1>1. PICK n \in LatestOf(a) : b = IF n = 0 THEN NilVersion ELSE Read(versions[a][n])
  BY DEF Latest
<1>2. n \in 0..Len(versions[a]) /\ n # 0 /\ versions[a][n] \in Version
  BY <1>1, LatestType DEF TypeInv
<1>3. Len(versions[a]) \in Nat
  BY LenProperties DEF TypeInv, Typed
<1>4. versions[a][n].image \in Images
  BY <1>2, <1>3 DEF Imaged
<1>5. Read(versions[a][n]).image = versions[a][n].image
  BY <1>2 DEF Read, Version
<1> QED
  BY <1>1, <1>2, <1>4, <1>5

LEMMA InitImaged == Init => Imaged
  BY DEF Init, Imaged, At

LEMMA StepImaged ==
  ASSUME TypeInv, Imaged, [Next]_vars
  PROVE  Imaged'
<1>0. versions \in [Apps -> Seq(Version)] /\ \A a \in Apps : Len(versions[a]) \in Nat
  BY LenProperties DEF TypeInv, Typed
<1>1. ASSUME NEW s \in Slots, run'[s].base # NilVersion PROVE run'[s].base.image \in Images
  BY <1>1, BaseStep, LatestImage DEF Imaged
<1>2. ASSUME NEW a \in Apps, NEW v \in Version, v.image \in Images,
             versions' = [versions EXCEPT ![a] = Append(@, v)],
             NEW b \in Apps, NEW i \in 1..Len(versions'[b])
      PROVE  versions'[b][i].image \in Images
  <2>1. CASE b = a
    <3>1. versions'[a] = Append(versions[a], v)
      BY <1>0, <1>2
    <3>2. /\ Len(versions'[a]) = Len(versions[a]) + 1 /\ versions'[a][Len(versions[a]) + 1] = v
          /\ \A j \in 1..Len(versions[a]) : versions'[a][j] = versions[a][j]
      BY <1>0, <3>1, AppendPosted
    <3>3. i \in 1..Len(versions[a]) \/ i = Len(versions[a]) + 1
      BY <1>0, <1>2, <2>1, <3>2
    <3> QED
      BY <1>2, <2>1, <3>2, <3>3 DEF Imaged
  <2>2. CASE b # a
    BY <1>0, <1>2, <2>2 DEF Imaged
  <2> QED
    BY <2>1, <2>2
<1>3. ASSUME NEW b \in Apps, NEW i \in 1..Len(versions'[b])
      PROVE  versions'[b][i].image \in Images
  <2>1. CASE UNCHANGED versions
    BY <1>3, <2>1 DEF Imaged
  <2>2. ASSUME NEW s \in Slots, PostVersion(s), Alive(run[s].app, run[s].id)
        PROVE  versions'[b][i].image \in Images
    <3> DEFINE a == run[s].app
               v == Store(BuildRequest(Cfg(s)[a], run[s].base), Newest(a))
    <3>1. run[s].pc = "post" /\ versions' = [versions EXCEPT ![a] = Append(@, v)]
      BY <2>2 DEF PostVersion
    <3>2. a \in Apps /\ v \in Version /\ v.image \in Images
      BY <3>1, PostedType, PostedImage
    <3> HIDE DEF v
    <3> QED
      BY <1>2, <1>3, <3>1, <3>2
  <2>3. ASSUME NEW a \in Apps, Remove(a) PROVE versions'[b][i].image \in Images
    <3>1. versions' = [versions EXCEPT ![a] = <<>>]
      BY <2>3 DEF Remove
    <3>2. CASE b = a
      BY <1>0, <1>3, <3>1, <3>2
    <3>3. CASE b # a
      BY <1>0, <1>3, <3>1, <3>3 DEF Imaged
    <3> QED
      BY <3>2, <3>3
  <2>4. ASSUME NEW a \in Apps, NEW img \in DeployImages, Deploy(a, img)
        PROVE  versions'[b][i].image \in Images
    <3> DEFINE v == [Newest(a) EXCEPT !.image = img]
    <3>1. versions' = [versions EXCEPT ![a] = Append(@, v)]
      BY <2>4 DEF Deploy
    <3>2. v \in Version /\ v.image \in Images
      BY NewestType, BoundsAssumption DEF TypeInv, Version, Opt
    <3> HIDE DEF v
    <3> QED
      BY <1>2, <1>3, <3>1, <3>2
  <2> QED
    BY <2>1, <2>2, <2>3, <2>4, VersionsStep
<1> QED
  BY <1>1, <1>3 DEF Imaged

\* Type correctness: every list of versions, every record of a command and the
\* state file keep their types, and every version has an image, whatever commands,
\* the CI and users do.
THEOREM TypeCorrect == Spec => []TypeOK
<1>1. Init => TypeInv /\ Imaged
  BY InitTypeInv, InitImaged
<1>2. TypeInv /\ Imaged /\ [Next]_vars => TypeInv' /\ Imaged'
  BY StepTypeInv, StepImaged
<1>3. TypeInv /\ Imaged => TypeOK
  BY DEF TypeInv, TypeOK
<1> QED
  BY <1>1, <1>2, <1>3, PTL DEF Spec

-----------------------------------------------------------------------------
\* Safety.  ActivateOwn and FileBehind are not inductive: what a command has in
\* memory must be as truthful as the file, since it is what Save writes, and
\* the ID a command activates must be from no later creation than the last.

MadeOwn(s) ==
  run[s].pc = "activate" =>
    /\ run[s].id <= born[run[s].app]
    /\ Alive(run[s].app, run[s].id) =>
         /\ run[s].made \in 1..Len(versions[run[s].app])
         /\ InSync(versions[run[s].app][run[s].made], Cfg(s)[run[s].app])

MemoryBehind ==
  count.removes = 0 =>
    \A a \in Apps : /\ Truthful(versions[a], a, file[a])
                    /\ \A s \in Slots : Truthful(versions[a], a, run[s].mem[a])

SafeInv == (\A s \in Slots : MadeOwn(s)) /\ MemoryBehind

LEMMA EmptyTruthful ==
  ASSUME NEW vs, NEW a \in Apps
  PROVE  Truthful(vs, a, EmptyFile[a])
  BY DEF Truthful, EmptyFile, NoEntry

LEMMA AppendTruthful ==
  ASSUME NEW vs \in Seq(Version), NEW v \in Version, NEW a \in Apps, NEW e,
         Truthful(vs, a, e)
  PROVE  Truthful(Append(vs, v), a, e)
<1>1. \A c : Posted(vs, c) => Posted(Append(vs, v), c)
  BY AppendPosted
<1>2. e.pw # None => PasswordPosted(Append(vs, v), a, e.pw)
  BY <1>1 DEF Truthful, PasswordPosted
<1>3. \A k \in Keys : e.sec[k] # None => SecretPosted(Append(vs, v), a, k, e.sec[k])
  BY <1>1 DEF Truthful, SecretPosted
<1> QED
  BY <1>2, <1>3 DEF Truthful

\* What Apply records for an application is true once a version with all that
\* its YAML spells out is among those posted.
LEMMA RecordedTruthful ==
  ASSUME NEW vs, NEW i \in 1..Len(History), NEW a \in DOMAIN History[i], NEW e, NEW kind,
         Truthful(vs, a, e), Posted(vs, History[i][a])
  PROVE  Truthful(vs, a, Recorded(e, History[i][a], kind))
<1> DEFINE c == History[i][a]
           n == Recorded(e, c, kind)
<1>1. n.pw = RecordPw(e, c, kind) /\ n.sec = RecordSec(e, c)
  BY DEF Recorded
<1>2. ASSUME n.pw # None PROVE PasswordPosted(vs, a, n.pw)
  <2>1. CASE n.pw = c.pwVersion
    BY <2>1 DEF PasswordPosted
  <2>2. CASE n.pw = e.pw
    BY <1>2, <2>2 DEF Truthful
  <2> QED
    BY <1>1, <2>1, <2>2 DEF RecordPw
<1>3. ASSUME NEW k \in Keys, n.sec[k] # None PROVE SecretPosted(vs, a, k, n.sec[k])
  <2>1. CASE k \in Names(c.env) /\ c.env[k].secret /\ c.env[k].secretVersion # None
    <3>1. n.sec[k] = c.env[k].secretVersion
      BY <1>1, <2>1 DEF RecordSec
    <3> QED
      BY <2>1, <3>1 DEF SecretPosted
  <2>2. CASE ~(k \in Names(c.env) /\ c.env[k].secret /\ c.env[k].secretVersion # None)
    <3>1. n.sec[k] = e.sec[k]
      BY <1>1, <2>2 DEF RecordSec
    <3> QED
      BY <1>3, <3>1 DEF Truthful
  <2> QED
    BY <2>1, <2>2
<1> HIDE DEF n
<1>4. Truthful(vs, a, n)
  BY <1>2, <1>3 DEF Truthful
<1> QED
  BY <1>4 DEF n

\* A step that changes nothing but what command s has read.
LEMMA QuietStep ==
  ASSUME TypeInv, SafeInv, NEW s \in Slots,
         UNCHANGED <<versions, exists, born, file>>, count'.removes = count.removes,
         \A t \in Slots \ {s} : run'[t] = run[t],
         run'[s].pc # "activate",
         run'[s].mem = run[s].mem \/ run'[s].mem = file \/ run'[s].mem = EmptyFile
  PROVE  SafeInv'
<1>1. ASSUME NEW t \in Slots PROVE MadeOwn(t)'
  <2>1. CASE t = s
    BY <2>1 DEF MadeOwn
  <2>2. CASE t # s
    <3>1. MadeOwn(t)
      BY DEF SafeInv
    <3> QED
      BY <2>2, <3>1 DEF MadeOwn, Alive, Cfg
  <2> QED
    BY <2>1, <2>2
<1>2. ASSUME count.removes = 0, NEW a \in Apps
      PROVE  /\ Truthful(versions[a], a, file[a])
             /\ \A t \in Slots : Truthful(versions[a], a, run'[t].mem[a])
  BY <1>2, EmptyTruthful DEF SafeInv, MemoryBehind
<1>3. MemoryBehind'
  BY <1>2 DEF MemoryBehind
<1> QED
  BY <1>1, <1>3 DEF SafeInv

LEMMA ReadStepSafe ==
  ASSUME TypeInv, SafeInv, NEW s \in Slots,
         \/ Start(s) \/ StartActivate(s) \/ LoadState(s) \/ ListForPlan(s) \/ Decide(s)
         \/ Approve(s) \/ Cancel(s) \/ Abandon(s) \/ ListForApply(s) \/ FinishApply(s) \/ ResolveLatest(s)
         \/ SetActive(s) \/ SaveTruncate(s) \/ Fail(s)
         \/ \E a \in Apps : \/ PlanCreate(s, a) \/ PlanUpdate(s, a) \/ ApplyNoop(s, a)
                            \/ ReadBase(s, a) \/ FindApplication(s, a)
  PROVE  SafeInv'
<1>0. run[s] \in Runs /\ run \in [Slots -> Runs]
  BY RunFacts DEF TypeInv, Typed
<1> DEFINE Quiet ==
      /\ \A t \in Slots \ {s} : run'[t] = run[t]
      /\ run'[s].pc # "activate"
      /\ run'[s].mem = run[s].mem \/ run'[s].mem = file \/ run'[s].mem = EmptyFile
<1>1. UNCHANGED <<versions, exists, born, file>> /\ count'.removes = count.removes
  <2>1. CASE Fail(s)
    BY <2>1 DEF Fail, server, disk, TypeInv, Typed, Counters
  <2>2. CASE ~Fail(s)
    BY <2>2 DEF Start, LoadState, StartActivate, ListForPlan, Decide, Approve, Cancel, Abandon, ListForApply,
         FinishApply, ResolveLatest, SetActive, SaveTruncate, PlanCreate, PlanUpdate,
         ApplyNoop, ReadBase, FindApplication, server, disk
  <2> QED
    BY <2>1, <2>2
<1>2. SUFFICES Quiet
  BY <1>1, <1>2, QuietStep
<1>3. ASSUME NEW r, Becomes(s, r), r.pc # "activate",
             r.mem = run[s].mem \/ r.mem = file \/ r.mem = EmptyFile
      PROVE  Quiet
  BY <1>0, <1>3 DEF Becomes
<1>4. ASSUME NEW pc \in Ended, End(s, pc) PROVE Quiet
  BY <1>4, <1>3 DEF End, At, Ended
<1>5. CASE Start(s)
  BY <1>0, <1>4, <1>3, <1>5 DEF Start, At, Ended
<1>15. CASE LoadState(s)
  BY <1>0, <1>4, <1>3, <1>15 DEF LoadState, Runs, Ended
<1>6. CASE StartActivate(s)
  BY <1>0, <1>4, <1>3, <1>6 DEF StartActivate, At, Ended
<1>7. CASE ListForPlan(s) \/ ListForApply(s) \/ Approve(s) \/ SaveTruncate(s)
  BY <1>0, <1>3, <1>7 DEF ListForPlan, ListForApply, Approve, SaveTruncate, Runs
<1>8. CASE Decide(s) \/ FinishApply(s)
  BY <1>0, <1>4, <1>3, <1>8 DEF Decide, FinishApply, Runs, Ended
<1>9. CASE Cancel(s) \/ Abandon(s) \/ SetActive(s) \/ Fail(s)
  BY <1>4, <1>9 DEF Cancel, Abandon, SetActive, Fail, Ended
<1>10. CASE ResolveLatest(s)
  BY <1>0, <1>4, <1>3, <1>10 DEF ResolveLatest, Runs, Ended
<1>11. CASE \E a \in Apps : PlanCreate(s, a) \/ ApplyNoop(s, a)
  BY <1>0, <1>3, <1>11 DEF PlanCreate, ApplyNoop, Turn, Planned, Runs
<1>12. CASE \E a \in Apps : PlanUpdate(s, a)
  BY <1>0, <1>4, <1>3, <1>12 DEF PlanUpdate, Planned, Runs, Ended
<1>13. CASE \E a \in Apps : ReadBase(s, a)
  BY <1>0, <1>4, <1>3, <1>13 DEF ReadBase, Runs, Ended
<1>14. CASE \E a \in Apps : FindApplication(s, a)
  BY <1>0, <1>4, <1>3, <1>14 DEF FindApplication, Runs, Ended
<1> QED
  BY <1>5, <1>6, <1>7, <1>8, <1>9, <1>10, <1>11, <1>12, <1>13, <1>14, <1>15

\* A name is created anew: an ID that another command holds is older.
LEMMA CreateSafe ==
  ASSUME TypeInv, SafeInv, NEW s \in Slots, NEW a \in Apps, CreateApplication(s, a)
  PROVE  SafeInv'
<1>0. run[s] \in Runs /\ run \in [Slots -> Runs] /\ born \in [Apps -> Nat]
  BY RunFacts DEF TypeInv, Typed
<1>1. UNCHANGED <<versions, file, count>>
  BY DEF CreateApplication, disk
<1>2. /\ \A t \in Slots \ {s} : run'[t] = run[t]
      /\ run'[s].pc # "activate"
      /\ run'[s].mem = run[s].mem \/ run'[s].mem = EmptyFile
  <2>1. CASE a \in exists
    BY <1>0, <2>1 DEF CreateApplication, End, Becomes, At
  <2>2. CASE a \notin exists
    <3> DEFINE r == [run[s] EXCEPT !.pc = "post", !.app = a, !.id = born[a] + 1,
                                   !.base = NilVersion]
    <3>1. r.pc = "post" /\ r.mem = run[s].mem
      BY <1>0 DEF Runs
    <3>2. Becomes(s, r)
      BY <2>2 DEF CreateApplication
    <3> HIDE DEF r
    <3> QED
      BY <1>0, <3>1, <3>2 DEF Becomes
  <2> QED
    BY <2>1, <2>2
<1>3. ASSUME NEW t \in Slots, t # s, run[t].pc = "activate"
      PROVE  /\ run[t].id <= born'[run[t].app]
             /\ (Alive(run[t].app, run[t].id))' => Alive(run[t].app, run[t].id)
  <2>1. run[t].app \in Apps /\ run[t].id \in Nat /\ run[t].id <= born[run[t].app]
    BY <1>3, RunFacts DEF SafeInv, MadeOwn, Runs
  <2>2. CASE a \in exists
    BY <1>2, <1>3, <2>1, <2>2 DEF CreateApplication, Alive
  <2>3. CASE a \notin exists
    <3>1. exists' = exists \cup {a} /\ born' = [born EXCEPT ![a] = @ + 1]
      BY <2>3 DEF CreateApplication
    <3>2. CASE run[t].app = a
      BY <1>0, <1>2, <1>3, <2>1, <3>1, <3>2 DEF Alive
    <3>3. CASE run[t].app # a
      BY <1>0, <1>2, <1>3, <2>1, <3>1, <3>3 DEF Alive
    <3> QED
      BY <3>2, <3>3
  <2> QED
    BY <2>2, <2>3
<1>4. ASSUME NEW t \in Slots PROVE MadeOwn(t)'
  <2>1. CASE t = s
    BY <1>2, <2>1 DEF MadeOwn
  <2>2. CASE t # s
    <3>1. MadeOwn(t) /\ run'[t] = run[t]
      BY <1>2, <2>2 DEF SafeInv
    <3>2. CASE run[t].pc # "activate"
      BY <3>1, <3>2 DEF MadeOwn
    <3>3. CASE run[t].pc = "activate"
      BY <1>1, <1>3, <2>2, <3>1, <3>3 DEF MadeOwn, Cfg
    <3> QED
      BY <3>2, <3>3
  <2> QED
    BY <2>1, <2>2
<1>5. MemoryBehind'
  <2>1. ASSUME count.removes = 0, NEW b \in Apps
        PROVE  /\ Truthful(versions[b], b, file[b])
               /\ \A t \in Slots : Truthful(versions[b], b, run'[t].mem[b])
    BY <1>2, <2>1, EmptyTruthful DEF SafeInv, MemoryBehind
  <2> QED
    BY <1>1, <2>1 DEF MemoryBehind
<1> QED
  BY <1>4, <1>5 DEF SafeInv

\* A version is added to those of a, by a command or by the CI.
LEMMA GrowSafe ==
  ASSUME TypeInv, SafeInv, NEW a \in Apps, NEW v \in Version,
         versions' = [versions EXCEPT ![a] = Append(@, v)],
         UNCHANGED <<exists, born>>
  PROVE  /\ \A t \in Slots : run'[t] = run[t] => MadeOwn(t)'
         /\ \A b \in Apps : \A e : Truthful(versions[b], b, e) => Truthful(versions'[b], b, e)
<1>0. versions \in [Apps -> Seq(Version)]
  BY DEF TypeInv, Typed
<1>1. /\ versions'[a] = Append(versions[a], v)
      /\ \A b \in Apps \ {a} : versions'[b] = versions[b]
  BY <1>0
<1>2. \A j \in 1..Len(versions[a]) :
        j \in 1..Len(versions'[a]) /\ versions'[a][j] = versions[a][j]
  BY <1>0, <1>1, AppendPosted
<1>3. ASSUME NEW t \in Slots, run'[t] = run[t] PROVE MadeOwn(t)'
  <2>1. MadeOwn(t)
    BY DEF SafeInv
  <2>2. CASE run[t].pc = "activate"
    <3>1. run[t].app \in Apps
      BY <2>2, RunFacts
    <3> QED
      BY <1>1, <1>2, <1>3, <2>1, <2>2, <3>1 DEF MadeOwn, Alive, Cfg
  <2>3. CASE run[t].pc # "activate"
    BY <1>3, <2>3 DEF MadeOwn
  <2> QED
    BY <2>2, <2>3
<1>4. ASSUME NEW b \in Apps, NEW e, Truthful(versions[b], b, e)
      PROVE  Truthful(versions'[b], b, e)
  BY <1>0, <1>1, <1>4, AppendTruthful
<1> QED
  BY <1>3, <1>4

\* A command goes on after its calls for an application succeeded.
LEMMA AppliedTruthful ==
  ASSUME TypeInv, NEW s \in Slots, run[s].pc \in {"post", "activate"},
         NEW b \in Apps, NEW vs, Truthful(vs, b, run[s].mem[b]),
         b = run[s].app => Posted(vs, Cfg(s)[b])
  PROVE  Truthful(vs, b, Applied(s).mem[b])
<1>1. /\ run[s].cfg \in 1..Len(History) /\ Cfg(s) = History[run[s].cfg]
      /\ run[s].app \in DOMAIN History[run[s].cfg]
      /\ run[s].mem \in [Apps -> Entry]
  BY RunFacts DEF Runs
<1>2. Applied(s).mem = [run[s].mem EXCEPT ![run[s].app] =
                          Recorded(@, Cfg(s)[run[s].app], run[s].plan[run[s].app])]
  BY AppliedType
<1>3. CASE b = run[s].app
  <2>1. Applied(s).mem[b] =
          Recorded(run[s].mem[b], History[run[s].cfg][b], run[s].plan[b])
    BY <1>1, <1>2, <1>3
  <2> QED
    BY <1>1, <1>3, <2>1, RecordedTruthful
<1>4. CASE b # run[s].app
  BY <1>1, <1>2, <1>4
<1> QED
  BY <1>3, <1>4

LEMMA PostSafe ==
  ASSUME TypeInv, SafeInv, NEW s \in Slots, PostVersion(s)
  PROVE  SafeInv'
<1> DEFINE a == run[s].app
           c == Cfg(s)[a]
           v == Store(BuildRequest(c, run[s].base), Newest(a))
<1>0. /\ run[s] \in Runs /\ run \in [Slots -> Runs] /\ run[s].pc = "post"
      /\ UNCHANGED <<exists, born, file, count>>
  BY RunFacts DEF TypeInv, Typed, PostVersion, disk
<1>1. /\ a \in Apps /\ v \in Version /\ InSync(v, c)
      /\ versions[a] \in Seq(Version) /\ versions \in [Apps -> Seq(Version)]
  BY <1>0, PostedType DEF TypeInv, Typed
<1>2. CASE ~Alive(a, run[s].id)
  <2>1. Becomes(s, At("failed")) /\ UNCHANGED versions
    BY <1>2 DEF PostVersion, End
  <2>2. /\ \A t \in Slots \ {s} : run'[t] = run[t]
        /\ run'[s].pc # "activate" /\ run'[s].mem = EmptyFile
    BY <1>0, <2>1 DEF Becomes, At
  <2> QED
    BY <1>0, <2>1, <2>2, QuietStep
<1>3. CASE Alive(a, run[s].id)
  <2>1. /\ versions' = [versions EXCEPT ![a] = Append(@, v)]
        /\ Becomes(s, IF run[s].opts
                      THEN [run[s] EXCEPT !.pc = "activate", !.made = Len(versions[a]) + 1]
                      ELSE Applied(s))
    BY <1>3 DEF PostVersion
  <2> HIDE DEF v
  <2>2. versions'[a] = Append(versions[a], v)
    BY <1>1, <2>1
  <2>3. /\ Len(versions'[a]) = Len(versions[a]) + 1 /\ Len(versions[a]) \in Nat
        /\ versions'[a][Len(versions[a]) + 1] = v
    BY <1>1, <2>2, AppendPosted
  <2>4. \A t \in Slots \ {s} : run'[t] = run[t]
    BY <1>0, <2>1 DEF Becomes
  <2>5. /\ \A t \in Slots : run'[t] = run[t] => MadeOwn(t)'
        /\ \A b \in Apps : \A e : Truthful(versions[b], b, e) => Truthful(versions'[b], b, e)
    BY <1>0, <1>1, <2>1, GrowSafe
  <2>6. MadeOwn(s)' /\
        (count.removes = 0 => \A b \in Apps : Truthful(versions'[b], b, run'[s].mem[b]))
    <3>1. CASE run[s].opts
      <4> DEFINE r == [run[s] EXCEPT !.pc = "activate", !.made = Len(versions[a]) + 1]
      <4>1. /\ r.pc = "activate" /\ r.made = Len(versions[a]) + 1 /\ r.mem = run[s].mem
            /\ r.app = a /\ r.id = run[s].id /\ r.cfg = run[s].cfg
        BY <1>0 DEF Runs
      <4>2. run'[s] = r
        BY <1>0, <2>1, <3>1 DEF Becomes
      <4> HIDE DEF r
      <4>3. run[s].id <= born[a]
        BY <1>0, <1>1, <1>3 DEF Alive, TypeInv, Typed
      <4>4. MadeOwn(s)'
        BY <1>0, <1>1, <2>3, <4>1, <4>2, <4>3 DEF MadeOwn, Cfg
      <4> QED
        BY <2>5, <4>1, <4>2, <4>4 DEF SafeInv, MemoryBehind
    <3>2. CASE ~run[s].opts
      <4>1. run'[s] = Applied(s) /\ Applied(s).pc = "apply"
        BY <1>0, <2>1, <3>2, AppliedType DEF Becomes
      <4>2. Posted(versions'[a], c)
        BY <1>1, <2>3 DEF Posted
      <4>3. ASSUME count.removes = 0, NEW b \in Apps
            PROVE  Truthful(versions'[b], b, Applied(s).mem[b])
        <5>1. Truthful(versions'[b], b, run[s].mem[b])
          BY <2>5, <4>3 DEF SafeInv, MemoryBehind
        <5> QED
          BY <1>0, <4>2, <5>1, AppliedTruthful
      <4>4. MadeOwn(s)'
        BY <4>1 DEF MadeOwn
      <4> QED
        BY <4>1, <4>3, <4>4
    <3> QED
      BY <3>1, <3>2
  <2>7. \A t \in Slots : MadeOwn(t)'
    BY <2>4, <2>5, <2>6
  <2>8. ASSUME count.removes = 0, NEW b \in Apps
        PROVE  /\ Truthful(versions'[b], b, file[b])
               /\ \A t \in Slots : Truthful(versions'[b], b, run'[t].mem[b])
    BY <2>4, <2>5, <2>6, <2>8 DEF SafeInv, MemoryBehind
  <2>9. MemoryBehind'
    BY <1>0, <2>8 DEF MemoryBehind
  <2> QED
    BY <2>7, <2>9 DEF SafeInv
<1> QED
  BY <1>2, <1>3

LEMMA ActivateSafe ==
  ASSUME TypeInv, SafeInv, NEW s \in Slots, Activate(s)
  PROVE  SafeInv'
<1> DEFINE a == run[s].app
<1>0. /\ run[s] \in Runs /\ run \in [Slots -> Runs] /\ run[s].pc = "activate" /\ a \in Apps
      /\ UNCHANGED <<versions, exists, born, file, count>>
  BY RunFacts DEF TypeInv, Typed, Activate, disk
<1>1. CASE ~Alive(a, run[s].id)
  <2>1. Becomes(s, At("failed"))
    BY <1>1 DEF Activate, End
  <2>2. /\ \A t \in Slots \ {s} : run'[t] = run[t]
        /\ run'[s].pc # "activate" /\ run'[s].mem = EmptyFile
    BY <1>0, <2>1 DEF Becomes, At
  <2> QED
    BY <1>0, <2>2, QuietStep
<1>2. CASE Alive(a, run[s].id)
  <2>1. /\ \A t \in Slots \ {s} : run'[t] = run[t]
        /\ run'[s] = Applied(s) /\ Applied(s).pc = "apply"
    BY <1>0, <1>2, AppliedType DEF Activate, Becomes
  <2>2. Posted(versions[a], Cfg(s)[a])
    BY <1>0, <1>2 DEF SafeInv, MadeOwn, Posted
  <2>3. ASSUME NEW t \in Slots PROVE MadeOwn(t)'
    <3>1. CASE t = s
      BY <2>1, <3>1 DEF MadeOwn
    <3>2. CASE t # s
      BY <1>0, <2>1, <3>2 DEF SafeInv, MadeOwn, Alive, Cfg
    <3> QED
      BY <3>1, <3>2
  <2>4. ASSUME count.removes = 0, NEW b \in Apps
        PROVE  /\ Truthful(versions[b], b, file[b])
               /\ \A t \in Slots : Truthful(versions[b], b, run'[t].mem[b])
    <3>1. Truthful(versions[b], b, run[s].mem[b])
      BY <2>4 DEF SafeInv, MemoryBehind
    <3>2. Truthful(versions[b], b, Applied(s).mem[b])
      BY <1>0, <2>2, <3>1, AppliedTruthful
    <3> QED
      BY <2>1, <2>4, <3>2 DEF SafeInv, MemoryBehind
  <2>5. MemoryBehind'
    BY <1>0, <2>4 DEF MemoryBehind
  <2> QED
    BY <2>3, <2>5 DEF SafeInv
<1> QED
  BY <1>1, <1>2

LEMMA SaveSafe ==
  ASSUME TypeInv, SafeInv, NEW s \in Slots, SaveWrite(s)
  PROVE  SafeInv'
<1>0. run \in [Slots -> Runs] /\ Becomes(s, At("idle"))
  BY DEF TypeInv, Typed, SaveWrite, End
<1>1. /\ \A t \in Slots \ {s} : run'[t] = run[t]
      /\ run'[s].pc # "activate" /\ run'[s].mem = EmptyFile
  BY <1>0 DEF Becomes, At
<1>2. file' = run[s].mem /\ UNCHANGED <<versions, exists, born, count>>
  BY DEF SaveWrite, server
<1>3. ASSUME NEW t \in Slots PROVE MadeOwn(t)'
  <2>1. CASE t = s
    BY <1>1, <2>1 DEF MadeOwn
  <2>2. CASE t # s
    BY <1>1, <1>2, <2>2 DEF SafeInv, MadeOwn, Alive, Cfg
  <2> QED
    BY <2>1, <2>2
<1>4. ASSUME count.removes = 0, NEW b \in Apps
      PROVE  /\ Truthful(versions[b], b, run[s].mem[b])
             /\ \A t \in Slots : Truthful(versions[b], b, run'[t].mem[b])
  BY <1>1, <1>4, EmptyTruthful DEF SafeInv, MemoryBehind
<1>5. MemoryBehind'
  BY <1>2, <1>4 DEF MemoryBehind
<1> QED
  BY <1>3, <1>5 DEF SafeInv

LEMMA OutsideStepSafe ==
  ASSUME TypeInv, SafeInv,
         \/ LoseFile \/ RepairFile \/ Edit
         \/ \E a \in Apps : Remove(a) \/ \E img \in DeployImages : Deploy(a, img)
  PROVE  SafeInv'
<1>0. /\ versions \in [Apps -> Seq(Version)] /\ exists \in SUBSET Apps
      /\ count \in Counters
  BY DEF TypeInv, Typed
<1>1. CASE Edit
  BY <1>1 DEF Edit, SafeInv, MadeOwn, MemoryBehind, Alive, Cfg, server, disk
<1>2. CASE LoseFile \/ RepairFile
  <2>1. /\ file' = EmptyFile /\ UNCHANGED <<run, versions, exists, born>>
        /\ count'.removes = count.removes
    BY <1>0, <1>2 DEF LoseFile, RepairFile, NoFile, server, Counters
  <2>2. \A t \in Slots : MadeOwn(t)'
    BY <2>1 DEF SafeInv, MadeOwn, Alive, Cfg
  <2>3. ASSUME count.removes = 0, NEW b \in Apps
        PROVE  /\ Truthful(versions[b], b, EmptyFile[b])
               /\ \A t \in Slots : Truthful(versions[b], b, run[t].mem[b])
    BY <2>3, EmptyTruthful DEF SafeInv, MemoryBehind
  <2>4. MemoryBehind'
    BY <2>1, <2>3 DEF MemoryBehind
  <2> QED
    BY <2>2, <2>4 DEF SafeInv
<1>3. CASE \E a \in Apps : Remove(a)
  <2>1. PICK a \in Apps : Remove(a)
    BY <1>3
  <2>2. /\ exists' = exists \ {a} /\ versions' = [versions EXCEPT ![a] = <<>>]
        /\ count' = [count EXCEPT !.removes = @ + 1] /\ UNCHANGED <<run, born>>
    BY <2>1 DEF Remove
  <2>3. count'.removes # 0
    BY <1>0, <2>2 DEF Counters
  <2>4. ASSUME NEW t \in Slots PROVE MadeOwn(t)'
    <3>1. MadeOwn(t)
      BY DEF SafeInv
    <3>2. CASE run[t].app = a
      BY <2>2, <3>1, <3>2 DEF MadeOwn, Alive
    <3>3. CASE run[t].app # a
      <4>1. versions'[run[t].app] = versions[run[t].app] \/ run[t].pc # "activate"
        BY <1>0, <2>2, <3>3, RunFacts
      <4> QED
        BY <2>2, <3>1, <3>3, <4>1 DEF MadeOwn, Alive, Cfg
    <3> QED
      BY <3>2, <3>3
  <2> QED
    BY <2>3, <2>4 DEF SafeInv, MemoryBehind
<1>4. CASE \E a \in Apps : \E img \in DeployImages : Deploy(a, img)
  <2>1. PICK a \in Apps, img \in DeployImages : Deploy(a, img)
    BY <1>4
  <2> DEFINE v == [Newest(a) EXCEPT !.image = img]
  <2>2. v \in Version
    BY NewestType, BoundsAssumption DEF TypeInv, Version, Opt
  <2>3. /\ versions' = [versions EXCEPT ![a] = Append(@, v)]
        /\ UNCHANGED <<exists, born, run, file>>
    BY <2>1 DEF Deploy, disk
  <2>4. count'.removes = count.removes
    BY <1>0, <2>1 DEF Deploy, Counters
  <2> HIDE DEF v
  <2>5. /\ \A t \in Slots : run'[t] = run[t] => MadeOwn(t)'
        /\ \A b \in Apps : \A e : Truthful(versions[b], b, e) => Truthful(versions'[b], b, e)
    BY <2>2, <2>3, GrowSafe
  <2>6. ASSUME count.removes = 0, NEW b \in Apps
        PROVE  /\ Truthful(versions'[b], b, file[b])
               /\ \A t \in Slots : Truthful(versions'[b], b, run[t].mem[b])
    BY <2>5, <2>6 DEF SafeInv, MemoryBehind
  <2>7. MemoryBehind'
    BY <2>3, <2>4, <2>6 DEF MemoryBehind
  <2> QED
    BY <2>3, <2>5, <2>7 DEF SafeInv
<1> QED
  BY <1>1, <1>2, <1>3, <1>4

LEMMA InitSafe == Init => SafeInv
<1> SUFFICES ASSUME Init PROVE SafeInv
  OBVIOUS
<1>1. \A s \in Slots : run[s].pc = "idle" /\ run[s].mem = EmptyFile
  BY DEF Init, At
<1>2. file = EmptyFile
  BY DEF Init
<1>3. \A s \in Slots : MadeOwn(s)
  BY <1>1 DEF MadeOwn
<1>4. MemoryBehind
  BY <1>1, <1>2, EmptyTruthful DEF MemoryBehind
<1> QED
  BY <1>3, <1>4 DEF SafeInv

LEMMA StepSafe == TypeInv /\ SafeInv /\ [Next]_vars => SafeInv'
<1> SUFFICES ASSUME TypeInv, SafeInv, [Next]_vars PROVE SafeInv'
  OBVIOUS
<1>1. CASE UNCHANGED vars
  BY <1>1 DEF vars, SafeInv, MadeOwn, MemoryBehind, Alive, Cfg
<1>2. ASSUME NEW s \in Slots,
             \/ Command(s) \/ Start(s) \/ StartActivate(s) \/ Approve(s) \/ Cancel(s)
             \/ Abandon(s) \/ Fail(s)
      PROVE  SafeInv'
  BY <1>2, ReadStepSafe, CreateSafe, PostSafe, ActivateSafe, SaveSafe DEF Command
<1>3. CASE Next
  BY <1>2, <1>3, OutsideStepSafe DEF Next
<1> QED
  BY <1>1, <1>3

LEMMA Invariance == Spec => [](TypeInv /\ SafeInv)
  BY InitTypeInv, InitSafe, StepTypeInv, StepSafe, PTL DEF Spec

\* The state file never records a version number of a password or of a secret
\* whose YAML was not posted in full, for any number of concurrent commands.
THEOREM FileNeverAhead == Spec => []FileBehind
<1>1. MemoryBehind => FileBehind
  BY DEF MemoryBehind, FileBehind
<1>2. TypeInv /\ SafeInv => FileBehind
  BY <1>1 DEF SafeInv
<1> QED
  BY <1>2, Invariance, PTL

\* What apply --activate activates has all that its own YAML spells out, for any
\* number of concurrent commands, deployments and removals.
THEOREM ActivatesOwn == Spec => []ActivateOwn
<1>1. TypeInv /\ SafeInv => ActivateOwn
  BY DEF SafeInv, MadeOwn, ActivateOwn
<1> QED
  BY <1>1, Invariance, PTL

-----------------------------------------------------------------------------
(***************************************************************************)
(* The application half implements Releases, and what follows from it;     *)
(* what dump prints is taken; and what one command at a time can rely on:  *)
(* the image it inherits, an application that it calls up to date, and an  *)
(* apply that leaves nothing to report.                                    *)
(***************************************************************************)
Promised == INSTANCE ReleasesProofs

-----------------------------------------------------------------------------
\* What the promise rests on beyond TypeInv: an ID that a command has kept is
\* from no later creation than the last, and while its application is there, the
\* version read as the base and the number to activate are among its versions.
\* (The arguments are the state, so that a lemma can relate two of them.)

BasesOf(vs) == {NilVersion} \cup {Read(vs[j]) : j \in 1..Len(vs)}

Held(r, y, vs, ex, bn) ==
  /\ r.cfg <= y
  /\ r.pc \in {"post", "activate", "latest", "set"} =>
       /\ r.app \in Apps /\ r.id <= bn[r.app]
       /\ r.app \in ex /\ bn[r.app] = r.id =>
            /\ r.pc = "post" => r.base \in BasesOf(vs[r.app])
            /\ r.pc \in {"activate", "set"} => r.made \in 1..Len(vs[r.app])

HeldInv == \A s \in Slots : Held(run[s], yaml, versions, exists, born)

\* What a step may do to an application: create it anew, take it away, or add to it.
Grows ==
  \A a \in Apps :
    /\ born[a] <= born'[a]
    /\ a \in exists' =>
         \/ born[a] < born'[a]
         \/ /\ a \in exists /\ born'[a] = born[a]
            /\ 1..Len(versions[a]) \subseteq 1..Len(versions'[a])
            /\ \A j \in 1..Len(versions[a]) : versions'[a][j] = versions[a][j]

LEMMA HeldKept ==
  ASSUME TypeInv, NEW r \in Runs, Held(r, yaml, versions, exists, born),
         Grows, yaml' \in Nat, yaml <= yaml', born' \in [Apps -> Nat]
  PROVE  Held(r, yaml', versions', exists', born')
<1>1. yaml \in Nat /\ r.cfg \in Nat /\ r.id \in Nat /\ born \in [Apps -> Nat]
  BY HistoryAssumption DEF TypeInv, Typed, Runs
<1>2. r.cfg <= yaml'
  BY <1>1 DEF Held
<1>3. ASSUME r.pc \in {"post", "activate", "latest", "set"}
      PROVE  /\ r.app \in Apps /\ r.id <= born'[r.app]
             /\ r.app \in exists' /\ born'[r.app] = r.id =>
                  /\ r.pc = "post" => r.base \in BasesOf(versions'[r.app])
                  /\ r.pc \in {"activate", "set"} => r.made \in 1..Len(versions'[r.app])
  <2>1. r.app \in Apps /\ r.id <= born[r.app]
    BY <1>3 DEF Held
  <2>2. r.id <= born'[r.app]
    BY <1>1, <2>1 DEF Grows
  <2>3. ASSUME r.app \in exists', born'[r.app] = r.id
        PROVE  /\ r.pc = "post" => r.base \in BasesOf(versions'[r.app])
               /\ r.pc \in {"activate", "set"} => r.made \in 1..Len(versions'[r.app])
    <3>1. /\ r.app \in exists /\ born[r.app] = r.id
          /\ 1..Len(versions[r.app]) \subseteq 1..Len(versions'[r.app])
          /\ \A j \in 1..Len(versions[r.app]) : versions'[r.app][j] = versions[r.app][j]
      BY <1>1, <2>1, <2>3 DEF Grows
    <3>2. BasesOf(versions[r.app]) \subseteq BasesOf(versions'[r.app])
      BY <3>1 DEF BasesOf
    <3> QED
      BY <1>3, <3>1, <3>2 DEF Held
  <2> QED
    BY <2>1, <2>2, <2>3
<1> QED
  BY <1>2, <1>3 DEF Held

\* A step that moves the command in slot s on to the record r, or moves none.
LEMMA HeldStep ==
  ASSUME TypeInv, HeldInv, Grows, yaml' \in Nat, yaml <= yaml', born' \in [Apps -> Nat],
         NEW s \in Slots, NEW r, Becomes(s, r), Held(r, yaml', versions', exists', born')
  PROVE  HeldInv'
<1>1. run \in [Slots -> Runs]
  BY DEF TypeInv, Typed
<1>2. ASSUME NEW t \in Slots PROVE Held(run'[t], yaml', versions', exists', born')
  <2>1. CASE t = s
    BY <1>1, <2>1 DEF Becomes
  <2>2. CASE t # s
    <3>1. run'[t] = run[t] /\ run[t] \in Runs
      BY <1>1, <2>2 DEF Becomes
    <3> QED
      BY <3>1, HeldKept DEF HeldInv
  <2> QED
    BY <2>1, <2>2
<1> QED
  BY <1>2 DEF HeldInv

\* A record of a command that works on no application.
LEMMA HeldFree ==
  ASSUME NEW r, NEW y, NEW vs, NEW ex, NEW bn, r.cfg <= y,
         r.pc \notin {"post", "activate", "latest", "set"}
  PROVE  Held(r, y, vs, ex, bn)
BY DEF Held

LEMMA HeldEnd ==
  ASSUME NEW pc \in Ended, NEW y \in Nat \ {0}, NEW vs, NEW ex, NEW bn
  PROVE  Held(At(pc), y, vs, ex, bn)
<1>1. At(pc).cfg = 1 /\ At(pc).pc = pc
  BY DEF At
<1> QED
  BY <1>1, HeldFree DEF Ended

LEMMA InitHeld == Init => HeldInv
<1> SUFFICES ASSUME Init PROVE HeldInv
  OBVIOUS
<1>1. \A s \in Slots : run[s] = At("idle")
  BY DEF Init
<1> QED
  BY <1>1, HeldEnd DEF Init, HeldInv, Ended

LEMMA StillGrows ==
  ASSUME TypeInv, UNCHANGED <<versions, exists, born>>
  PROVE  Grows /\ born' \in [Apps -> Nat]
<1>1. born \in [Apps -> Nat]
  BY DEF TypeInv, Typed
<1>2. \A a \in Apps : born[a] <= born'[a] /\ born'[a] = born[a]
  BY <1>1
<1> QED
  BY <1>1, <1>2 DEF Grows

\* A command takes a step that leaves the applications as they are.
LEMMA HeldQuiet ==
  ASSUME TypeInv, HeldInv, UNCHANGED <<yaml, versions, exists, born>>, NEW s \in Slots,
         NEW r, Becomes(s, r), Held(r, yaml, versions, exists, born)
  PROVE  HeldInv'
<1>1. yaml \in Nat
  BY HistoryAssumption DEF TypeInv, Typed
<1> QED
  BY <1>1, StillGrows, HeldStep

LEMMA EndHeld ==
  ASSUME TypeInv, HeldInv, UNCHANGED <<yaml, versions, exists, born>>, NEW s \in Slots,
         NEW pc \in Ended, End(s, pc)
  PROVE  HeldInv'
<1>1. yaml \in Nat \ {0}
  BY HistoryAssumption DEF TypeInv, Typed
<1> QED
  BY <1>1, HeldEnd, HeldQuiet DEF End

\* Steps between the calls that write.
LEMMA ReadStepHeld ==
  ASSUME TypeInv, HeldInv, NEW s \in Slots,
         \/ Start(s) \/ StartActivate(s) \/ LoadState(s) \/ ListForPlan(s) \/ Decide(s)
         \/ Approve(s) \/ Cancel(s) \/ Abandon(s) \/ ListForApply(s) \/ FinishApply(s) \/ SaveTruncate(s)
         \/ SaveWrite(s) \/ Fail(s)
         \/ \E a \in Apps : PlanCreate(s, a) \/ PlanUpdate(s, a) \/ ApplyNoop(s, a)
  PROVE  HeldInv'
<1>0. /\ run[s] \in Runs /\ yaml \in Nat /\ yaml <= yaml
      /\ run[s].cfg <= yaml
  BY RunFacts, HistoryAssumption DEF TypeInv, Typed, HeldInv, Held
<1>1. UNCHANGED <<yaml, versions, exists, born>>
  BY DEF Start, LoadState, StartActivate, ListForPlan, Decide, Approve, Cancel, Abandon, ListForApply,
         FinishApply, SaveTruncate, SaveWrite, Fail, PlanCreate, PlanUpdate, ApplyNoop, server
<1>2. ASSUME NEW pc \in Ended, End(s, pc) PROVE HeldInv'
  BY <1>1, <1>2, EndHeld
<1>3. ASSUME NEW r, Becomes(s, r), r.cfg <= yaml,
             r.pc \notin {"post", "activate", "latest", "set"}
      PROVE  HeldInv'
  BY <1>1, <1>3, HeldFree, HeldQuiet
<1>4. CASE Start(s)
  <2>1. PICK opts \in BOOLEAN : Becomes(s, [At("load") EXCEPT !.cfg = yaml, !.opts = opts])
    BY <1>4 DEF Start
  <2> DEFINE r == [At("load") EXCEPT !.cfg = yaml, !.opts = opts]
  <2>2. r.cfg = yaml /\ r.pc = "load"
    BY DEF At
  <2> HIDE DEF r
  <2> QED
    BY <1>0, <1>3, <2>1, <2>2 DEF r
<1>14. CASE LoadState(s)
  <2> DEFINE r == [run[s] EXCEPT !.pc = "list", !.mem = file]
  <2>1. r.cfg = run[s].cfg /\ r.pc = "list"
    BY <1>0 DEF Runs
  <2>2. Becomes(s, r) \/ End(s, "failed")
    BY <1>14 DEF LoadState
  <2> HIDE DEF r
  <2> QED
    BY <1>0, <1>2, <1>3, <2>1, <2>2 DEF Ended
<1>5. CASE StartActivate(s)
  <2> DEFINE r == [At("find") EXCEPT !.cfg = yaml]
  <2>1. r.cfg = yaml /\ r.pc = "find" /\ Becomes(s, r)
    BY <1>5 DEF At, StartActivate
  <2> HIDE DEF r
  <2> QED
    BY <1>0, <1>3, <2>1
<1>6. ASSUME NEW pc \in {"plan", "approve", "relist", "apply", "save", "write"}, NEW kn, NEW td,
             Becomes(s, [run[s] EXCEPT !.pc = pc, !.known = kn, !.todo = td])
      PROVE  HeldInv'
  <2> DEFINE r == [run[s] EXCEPT !.pc = pc, !.known = kn, !.todo = td]
  <2>1. r.cfg = run[s].cfg /\ r.pc = pc
    BY <1>0 DEF Runs
  <2> HIDE DEF r
  <2> QED
    BY <1>0, <1>3, <1>6, <2>1 DEF r
<1>7. ASSUME NEW pc \in {"plan", "approve", "relist", "apply", "save", "write"},
             Becomes(s, [run[s] EXCEPT !.pc = pc])
      PROVE  HeldInv'
  <2> DEFINE r == [run[s] EXCEPT !.pc = pc]
  <2>1. r.cfg = run[s].cfg /\ r.pc = pc
    BY <1>0 DEF Runs
  <2> HIDE DEF r
  <2> QED
    BY <1>0, <1>3, <1>7, <2>1 DEF r
<1>8. CASE ListForPlan(s) \/ ListForApply(s)
  BY <1>6, <1>8 DEF ListForPlan, ListForApply
<1>9. CASE Decide(s) \/ Approve(s) \/ FinishApply(s) \/ SaveTruncate(s)
  BY <1>2, <1>7, <1>9 DEF Decide, Approve, FinishApply, SaveTruncate, Ended
<1>10. CASE Cancel(s) \/ Abandon(s) \/ SaveWrite(s) \/ Fail(s)
  BY <1>2, <1>10 DEF Cancel, Abandon, SaveWrite, Fail, Ended
<1>11. ASSUME NEW a \in Apps, NEW kind, run[s].pc = "plan", Planned(s, a, kind) PROVE HeldInv'
  <2> DEFINE r == [run[s] EXCEPT !.plan[a] = kind, !.todo = @ \ {a}]
  <2>1. r.cfg = run[s].cfg /\ r.pc = "plan" /\ Becomes(s, r)
    BY <1>0, <1>11 DEF Runs, Planned
  <2> HIDE DEF r
  <2> QED
    BY <1>0, <1>3, <2>1
<1>12. CASE \E a \in Apps : PlanCreate(s, a) \/ PlanUpdate(s, a)
  BY <1>2, <1>11, <1>12 DEF PlanCreate, PlanUpdate, Ended
<1>13. ASSUME NEW a \in Apps, ApplyNoop(s, a) PROVE HeldInv'
  <2> DEFINE r == [run[s] EXCEPT !.todo = @ \ {a}]
  <2>1. r.cfg = run[s].cfg /\ r.pc = "apply" /\ Becomes(s, r)
    BY <1>0, <1>13 DEF Runs, ApplyNoop, Turn
  <2> HIDE DEF r
  <2> QED
    BY <1>0, <1>3, <2>1
<1> QED
  BY <1>4, <1>5, <1>8, <1>9, <1>10, <1>12, <1>13, <1>14

\* Steps that take hold of an application.
LEMMA TakeHeld ==
  ASSUME TypeInv, HeldInv, NEW s \in Slots,
         ResolveLatest(s) \/ \E a \in Apps : ReadBase(s, a) \/ FindApplication(s, a)
  PROVE  HeldInv'
<1>0. /\ run[s] \in Runs /\ yaml \in Nat /\ born \in [Apps -> Nat]
      /\ run[s].cfg <= yaml /\ Held(run[s], yaml, versions, exists, born)
  BY RunFacts, HistoryAssumption DEF TypeInv, Typed, HeldInv, Held
<1>1. UNCHANGED <<yaml, versions, exists, born>>
  BY DEF ResolveLatest, ReadBase, FindApplication, server
<1>2. CASE End(s, "failed")
  BY <1>1, <1>2, EndHeld DEF Ended
<1>3. ASSUME ResolveLatest(s), ~End(s, "failed") PROVE HeldInv'
  <2> DEFINE a == run[s].app
  <2>1. /\ run[s].pc = "latest" /\ Alive(a, run[s].id) /\ versions[a] # <<>>
        /\ \E n \in LatestOf(a) : Becomes(s, [run[s] EXCEPT !.pc = "set", !.made = n])
    BY <1>3 DEF ResolveLatest
  <2>2. a \in Apps /\ run[s].id <= born[a]
    BY <1>0, <2>1 DEF Held
  <2>3. PICK n \in LatestOf(a) : Becomes(s, [run[s] EXCEPT !.pc = "set", !.made = n])
    BY <2>1
  <2>4. n \in 1..Len(versions[a])
    <3>1. n \in 0..Len(versions[a]) /\ n # 0
      BY <2>1, <2>2, LatestType DEF TypeInv
    <3> QED
      BY <3>1
  <2> DEFINE r == [run[s] EXCEPT !.pc = "set", !.made = n]
  <2>5. r.cfg = run[s].cfg /\ r.pc = "set" /\ r.app = a /\ r.id = run[s].id /\ r.made = n
    BY <1>0 DEF Runs
  <2> HIDE DEF r
  <2>6. Held(r, yaml, versions, exists, born)
    BY <1>0, <2>2, <2>4, <2>5 DEF Held
  <2> QED
    BY <1>1, <2>3, <2>6, HeldQuiet DEF r
<1>4. ASSUME NEW a \in Apps, ReadBase(s, a), ~End(s, "failed") PROVE HeldInv'
  <2>1. /\ Alive(a, run[s].known[a])
        /\ \E b \in Latest(a) :
             Becomes(s, [run[s] EXCEPT !.pc = "post", !.app = a, !.id = run[s].known[a],
                                       !.base = b])
    BY <1>4 DEF ReadBase
  <2>2. PICK b \in Latest(a) :
             Becomes(s, [run[s] EXCEPT !.pc = "post", !.app = a, !.id = run[s].known[a],
                                       !.base = b])
    BY <2>1
  <2>3. b \in BasesOf(versions[a])
    <3>1. PICK n \in LatestOf(a) : b = IF n = 0 THEN NilVersion ELSE Read(versions[a][n])
      BY DEF Latest
    <3>2. n = 0 \/ n \in 1..Len(versions[a])
      BY LatestType, LenProperties DEF TypeInv, Typed
    <3> QED
      BY <3>1, <3>2 DEF BasesOf
  <2> DEFINE r == [run[s] EXCEPT !.pc = "post", !.app = a, !.id = run[s].known[a], !.base = b]
  <2>4. r.cfg = run[s].cfg /\ r.pc = "post" /\ r.app = a /\ r.id = run[s].known[a] /\ r.base = b
    BY <1>0 DEF Runs
  <2> HIDE DEF r
  <2>5. Held(r, yaml, versions, exists, born)
    BY <1>0, <2>1, <2>3, <2>4 DEF Held, Alive
  <2> QED
    BY <1>1, <2>2, <2>5, HeldQuiet DEF r
<1>5. ASSUME NEW a \in Apps, FindApplication(s, a), ~End(s, "failed") PROVE HeldInv'
  <2>0. a \in exists
    BY <1>5 DEF FindApplication
  <2>1. CASE Becomes(s, [run[s] EXCEPT !.pc = "latest", !.app = a, !.id = born[a]])
    <3> DEFINE r == [run[s] EXCEPT !.pc = "latest", !.app = a, !.id = born[a]]
    <3>1. r.cfg = run[s].cfg /\ r.pc = "latest" /\ r.app = a /\ r.id = born[a]
      BY <1>0 DEF Runs
    <3> HIDE DEF r
    <3>2. Held(r, yaml, versions, exists, born)
      BY <1>0, <3>1 DEF Held
    <3> QED
      BY <1>1, <2>1, <3>2, HeldQuiet DEF r
  <2>2. ASSUME NEW n \in 1..Len(versions[a]),
               Becomes(s, [run[s] EXCEPT !.pc = "set", !.app = a, !.id = born[a], !.made = n])
        PROVE  HeldInv'
    <3> DEFINE r == [run[s] EXCEPT !.pc = "set", !.app = a, !.id = born[a], !.made = n]
    <3>1. r.cfg = run[s].cfg /\ r.pc = "set" /\ r.app = a /\ r.id = born[a] /\ r.made = n
      BY <1>0 DEF Runs
    <3> HIDE DEF r
    <3>2. Held(r, yaml, versions, exists, born)
      BY <1>0, <3>1 DEF Held
    <3> QED
      BY <1>1, <2>2, <3>2, HeldQuiet DEF r
  <2> QED
    BY <1>5, <2>0, <2>1, <2>2 DEF FindApplication
<1> QED
  BY <1>2, <1>3, <1>4, <1>5

\* A version is added to those of a.
LEMMA AppendGrows ==
  ASSUME TypeInv, NEW a \in Apps, NEW v \in Version,
         versions' = [versions EXCEPT ![a] = Append(@, v)], UNCHANGED <<exists, born>>
  PROVE  /\ Grows /\ born' \in [Apps -> Nat]
         /\ Len(versions[a]) \in Nat /\ Len(versions'[a]) = Len(versions[a]) + 1
         /\ versions'[a][Len(versions'[a])] = v
<1>1. /\ versions \in [Apps -> Seq(Version)] /\ exists \subseteq Apps
      /\ born \in [Apps -> Nat]
  BY DEF TypeInv, Typed
<1>2. /\ versions'[a] = Append(versions[a], v)
      /\ \A b \in Apps \ {a} : versions'[b] = versions[b]
  BY <1>1
<1>3. /\ Len(versions[a]) \in Nat /\ Len(versions'[a]) = Len(versions[a]) + 1
      /\ versions'[a][Len(versions[a]) + 1] = v
      /\ \A j \in 1..Len(versions[a]) : versions'[a][j] = versions[a][j]
  BY <1>1, <1>2, AppendPosted
<1>4. ASSUME NEW b \in Apps, b \in exists'
      PROVE  /\ b \in exists
             /\ 1..Len(versions[b]) \subseteq 1..Len(versions'[b])
             /\ \A j \in 1..Len(versions[b]) : versions'[b][j] = versions[b][j]
  BY <1>2, <1>3, <1>4
<1>5. \A b \in Apps : born[b] <= born'[b] /\ born'[b] = born[b]
  BY <1>1
<1> QED
  BY <1>1, <1>3, <1>4, <1>5 DEF Grows

LEMMA WriteStepHeld ==
  ASSUME TypeInv, HeldInv, NEW s \in Slots,
         \/ PostVersion(s) \/ Activate(s) \/ SetActive(s)
         \/ \E a \in Apps : CreateApplication(s, a)
  PROVE  HeldInv'
<1>a. yaml' = yaml
  BY DEF PostVersion, Activate, SetActive, CreateApplication
<1>0. /\ run[s] \in Runs /\ yaml \in Nat /\ yaml <= yaml /\ born \in [Apps -> Nat]
      /\ run[s].cfg <= yaml /\ Held(run[s], yaml, versions, exists, born) /\ yaml' = yaml
  BY <1>a, RunFacts, HistoryAssumption DEF TypeInv, Typed, HeldInv, Held
<1>1. CASE Activate(s) \/ SetActive(s)
  <2>1. UNCHANGED <<yaml, versions, exists, born>>
    BY <1>1 DEF Activate, SetActive
  <2>2. ASSUME NEW pc \in Ended, End(s, pc) PROVE HeldInv'
    BY <2>1, <2>2, EndHeld
  <2>3. CASE run[s].pc = "activate" /\ Becomes(s, Applied(s))
    <3>1. Applied(s).pc = "apply" /\ Applied(s).cfg = run[s].cfg
      BY <2>3, AppliedType
    <3>2. Held(Applied(s), yaml, versions, exists, born)
      BY <1>0, <3>1, HeldFree
    <3> QED
      BY <2>1, <2>3, <3>2, HeldQuiet
  <2> QED
    BY <1>1, <2>2, <2>3 DEF Activate, SetActive, Ended
<1>2. CASE PostVersion(s)
  <2> DEFINE a == run[s].app
             v == Store(BuildRequest(Cfg(s)[a], run[s].base), Newest(a))
  <2>0. run[s].pc = "post" /\ UNCHANGED <<yaml, exists, born>>
    BY <1>2 DEF PostVersion
  <2>1. CASE ~Alive(a, run[s].id)
    BY <1>2, <2>0, <2>1, EndHeld DEF PostVersion, Ended
  <2>2. CASE Alive(a, run[s].id)
    <3>1. /\ versions' = [versions EXCEPT ![a] = Append(@, v)]
          /\ Becomes(s, IF run[s].opts
                        THEN [run[s] EXCEPT !.pc = "activate", !.made = Len(versions[a]) + 1]
                        ELSE Applied(s))
      BY <1>2, <2>2 DEF PostVersion
    <3>2. a \in Apps /\ v \in Version
      BY <2>0, PostedType
    <3> HIDE DEF v
    <3>3. /\ Grows /\ born' \in [Apps -> Nat]
          /\ Len(versions[a]) \in Nat /\ Len(versions'[a]) = Len(versions[a]) + 1
      BY <2>0, <3>1, <3>2, AppendGrows
    <3>4. CASE run[s].opts
      <4> DEFINE r == [run[s] EXCEPT !.pc = "activate", !.made = Len(versions[a]) + 1]
      <4>1. /\ r.cfg = run[s].cfg /\ r.pc = "activate" /\ r.app = a /\ r.id = run[s].id
            /\ r.made = Len(versions[a]) + 1
        BY <1>0 DEF Runs
      <4>2. Becomes(s, r)
        BY <3>1, <3>4
      <4> HIDE DEF r
      <4>3. run[s].id <= born'[a]
        BY <1>0, <2>0, <3>2 DEF Held
      <4>4. Held(r, yaml', versions', exists', born')
        BY <1>0, <3>2, <3>3, <4>1, <4>3 DEF Held
      <4> QED
        BY <1>0, <3>3, <4>2, <4>4, HeldStep
    <3>5. CASE ~run[s].opts
      <4>1. Applied(s).pc = "apply" /\ Applied(s).cfg = run[s].cfg /\ Becomes(s, Applied(s))
        BY <2>0, <3>1, <3>5, AppliedType
      <4>2. Held(Applied(s), yaml', versions', exists', born')
        BY <1>0, <4>1, HeldFree
      <4> QED
        BY <1>0, <3>3, <4>1, <4>2, HeldStep
    <3> QED
      BY <3>4, <3>5
  <2> QED
    BY <2>1, <2>2
<1>3. ASSUME NEW a \in Apps, CreateApplication(s, a) PROVE HeldInv'
  <2>1. CASE a \in exists
    BY <1>3, <2>1, EndHeld DEF CreateApplication, Ended
  <2>2. CASE a \notin exists
    <3> DEFINE r == [run[s] EXCEPT !.pc = "post", !.app = a, !.id = born[a] + 1,
                                   !.base = NilVersion]
    <3>1. /\ exists' = exists \cup {a} /\ born' = [born EXCEPT ![a] = @ + 1]
          /\ versions' = versions /\ Becomes(s, r)
      BY <1>3, <2>2 DEF CreateApplication
    <3>2. /\ r.cfg = run[s].cfg /\ r.pc = "post" /\ r.app = a /\ r.id = born[a] + 1
          /\ r.base = NilVersion
      BY <1>0 DEF Runs
    <3> HIDE DEF r
    <3>3. /\ born' \in [Apps -> Nat] /\ born'[a] = born[a] + 1
          /\ \A b \in Apps \ {a} : born'[b] = born[b]
      BY <1>0, <3>1
    <3>4. Grows
      BY <1>0, <3>1, <3>3 DEF Grows
    <3>5. Held(r, yaml', versions', exists', born')
      BY <1>0, <3>1, <3>2, <3>3 DEF Held, BasesOf
    <3> QED
      BY <1>0, <3>1, <3>3, <3>4, <3>5, HeldStep
  <2> QED
    BY <2>1, <2>2
<1> QED
  BY <1>1, <1>2, <1>3

LEMMA OutsideStepHeld ==
  ASSUME TypeInv, HeldInv,
         \/ LoseFile \/ RepairFile \/ Edit \/ UNCHANGED vars
         \/ \E a \in Apps : Remove(a) \/ \E img \in DeployImages : Deploy(a, img)
  PROVE  HeldInv'
<1>0. run \in [Slots -> Runs] /\ yaml \in Nat /\ born \in [Apps -> Nat]
  BY HistoryAssumption DEF TypeInv, Typed
<1>1. ASSUME Grows, yaml' \in Nat, yaml <= yaml', born' = born, run' = run PROVE HeldInv'
  <2>1. \A s \in Slots : run[s] \in Runs /\ Held(run[s], yaml, versions, exists, born)
    BY <1>0 DEF HeldInv
  <2>2. \A s \in Slots : Held(run[s], yaml', versions', exists', born')
    BY <1>0, <1>1, <2>1, HeldKept
  <2> QED
    BY <1>1, <2>2 DEF HeldInv
<1>2. CASE LoseFile \/ RepairFile \/ Edit \/ UNCHANGED vars
  <2>1. /\ UNCHANGED <<versions, exists, born, run>> /\ yaml' \in Nat /\ yaml <= yaml'
    BY <1>0, <1>2 DEF LoseFile, RepairFile, NoFile, Edit, vars, server
  <2> QED
    BY <1>1, <2>1, StillGrows
<1>3. ASSUME NEW a \in Apps, Remove(a) PROVE HeldInv'
  <2>1. /\ exists' = exists \ {a} /\ UNCHANGED <<yaml, born, run>>
        /\ \A b \in Apps \ {a} : versions'[b] = versions[b]
    BY <1>3 DEF Remove, TypeInv, Typed
  <2>2. Grows
    BY <1>0, <2>1 DEF Grows
  <2> QED
    BY <1>0, <1>1, <2>1, <2>2
<1>4. ASSUME NEW a \in Apps, NEW img \in DeployImages, Deploy(a, img) PROVE HeldInv'
  <2> DEFINE v == [Newest(a) EXCEPT !.image = img]
  <2>1. v \in Version
    BY NewestType, BoundsAssumption DEF TypeInv, Version, Opt
  <2>2. /\ versions' = [versions EXCEPT ![a] = Append(@, v)]
        /\ UNCHANGED <<yaml, exists, born, run>>
    BY <1>4 DEF Deploy
  <2> HIDE DEF v
  <2>3. Grows
    BY <2>1, <2>2, AppendGrows
  <2> QED
    BY <1>0, <1>1, <2>2, <2>3
<1> QED
  BY <1>2, <1>3, <1>4

LEMMA StepHeld == TypeInv /\ HeldInv /\ [Next]_vars => HeldInv'
<1> SUFFICES ASSUME TypeInv, HeldInv, [Next]_vars PROVE HeldInv'
  OBVIOUS
<1>1. ASSUME NEW s \in Slots,
             \/ Command(s) \/ Start(s) \/ StartActivate(s) \/ Approve(s) \/ Cancel(s)
             \/ Abandon(s) \/ Fail(s)
      PROVE  HeldInv'
  BY <1>1, ReadStepHeld, TakeHeld, WriteStepHeld DEF Command
<1> QED
  BY <1>1, OutsideStepHeld DEF Next

-----------------------------------------------------------------------------
\* The refinement.

\* The pure part is the same in both.
LEMMA SameOperators ==
  /\ Promise!Settings = Settings /\ Promise!NilVersion = NilVersion
  /\ Promise!Version = Version
  /\ \A env : Promise!Names(env) = Names(env)
  /\ \A v : Promise!Read(v) = Read(v)
  /\ \A v, c : InSync(v, c) => Promise!InSync(v, c)
<1>1. /\ Promise!Settings = Settings /\ Promise!NilVersion = NilVersion
      /\ Promise!Version = Version
  BY DEF Promise!Settings, Settings, Promise!NilVersion, NilVersion, Promise!NoEnv, NoEnv,
         Promise!Version, Version, Promise!Opt, Opt, Promise!EnvOf, EnvOf, Promise!EnvVar, EnvVar
<1>2. \A env : Promise!Names(env) = Names(env) /\ Promise!Masked(env) = Masked(env)
  BY DEF Promise!Names, Names, Promise!Masked, Masked
<1>3. \A v : Promise!Read(v) = Read(v)
  BY <1>2 DEF Promise!Read, Read
<1>4. \A v, c : EnvInSync(v, c) => Promise!EnvInSync(v, c)
  BY <1>2 DEF Promise!EnvInSync, EnvInSync
<1>5. \A v, c : InSync(v, c) => Promise!InSync(v, c)
  BY <1>1, <1>4 DEF Promise!InSync, InSync
<1> QED
  BY <1>1, <1>2, <1>3, <1>5

\* What the service stores inherits from the base of the request what the YAML
\* leaves out, whatever version is the newest by then.
LEMMA StoreInherits ==
  ASSUME NEW c \in ApplicationSpec, NEW b \in Version, NEW prev \in Version
  PROVE  Promise!Inherits(Store(BuildRequest(c, b), prev), c, b)
<1> DEFINE v == Store(BuildRequest(c, b), prev)
<1>1. /\ v.image = BuildImage(c, b) /\ v.env = StoredEnv(BuildEnv(c, b), prev.env)
      /\ v.user = IF c.user # None THEN c.user ELSE b.user
      /\ \A f \in Settings : v.settings[f] = IF c.settings[f] # None THEN c.settings[f]
                                              ELSE b.settings[f]
  BY DEF Store, BuildRequest
<1>2. v.image \in {c.image, b.image} /\ (c.inheritImage /\ b # NilVersion => v.image = b.image)
  BY <1>1 DEF BuildImage, ApplicationSpec
<1>3. ASSUME Names(c.env) = {}
      PROVE  /\ Names(v.env) = Names(b.env)
             /\ \A k \in Names(b.env) : b.env[k].secret \/ v.env[k] = b.env[k]
  <2> DEFINE m == Masked(b.env)
  <2>1. v.env = StoredEnv(m, prev.env)
    BY <1>1, <1>3 DEF BuildEnv
  <2>2. /\ b.env \in [Keys -> Opt(EnvVar)] /\ prev.env \in [Keys -> Opt(EnvVar)]
        /\ None \notin EnvVar
    BY NoneAssumption DEF Version, EnvOf, EnvVar, Opt
  <2>3. \A k \in Keys : m[k] = IF b.env[k] # None /\ b.env[k].secret
                               THEN [secret |-> TRUE, value |-> None] ELSE b.env[k]
    BY DEF Masked
  <2> HIDE DEF m
  <2>4. \A k \in Keys : v.env[k] =
          IF k \in Names(m) \cap Names(prev.env) /\ m[k].secret /\ m[k].value = None
          THEN [secret |-> m[k].secret, value |-> prev.env[k].value] ELSE m[k]
    BY <2>1 DEF StoredEnv
  <2>5. ASSUME NEW k \in Keys
        PROVE  /\ b.env[k] = None => v.env[k] = None
               /\ b.env[k] # None => v.env[k] # None
               /\ b.env[k] # None => b.env[k].secret \/ v.env[k] = b.env[k]
    <3>1. CASE b.env[k] = None
      BY <2>3, <2>4, <3>1 DEF Names
    <3>2. CASE b.env[k] # None
      <4>1. b.env[k] \in EnvVar
        BY <2>2, <3>2 DEF Opt
      <4>2. CASE ~b.env[k].secret
        BY <2>3, <2>4, <3>2, <4>1, <4>2
      <4>3. CASE b.env[k].secret
        <5>1. m[k] = [secret |-> TRUE, value |-> None]
          BY <2>3, <3>2, <4>3
        <5>2. m[k] \in EnvVar
          BY <5>1 DEF EnvVar, Opt
        <5>3. k \in Names(prev.env) => prev.env[k] \in EnvVar
          BY <2>2 DEF Names, Opt
        <5>4. k \in Names(prev.env) =>
                [secret |-> m[k].secret, value |-> prev.env[k].value] \in EnvVar
          BY <5>2, <5>3 DEF EnvVar
        <5> QED
          BY <2>2, <2>4, <4>1, <4>3, <5>2, <5>4, <3>2
      <4> QED
        BY <4>2, <4>3
    <3> QED
      BY <3>1, <3>2
  <2> QED
    BY <2>5 DEF Names
<1> HIDE DEF v
<1>4. Promise!Inherits(v, c, b)
  BY <1>1, <1>2, <1>3, SameOperators DEF Promise!Inherits
<1> QED
  BY <1>4 DEF v

Abstract == [Promise!Next]_<<yaml, versions, exists, active>>

\* The YAML of a command is among those there have been.
LEMMA SpecThere ==
  ASSUME TypeInv, HeldInv, NEW s \in Slots, NEW a \in Wanted(s)
  PROVE  Cfg(s)[a] \in Promise!Specs(a)
<1>1. /\ run[s].cfg \in 1..Len(History) /\ run[s].cfg <= yaml /\ yaml \in Nat
      /\ Cfg(s) = History[run[s].cfg] /\ Wanted(s) = DOMAIN History[run[s].cfg]
  BY RunFacts, HistoryAssumption DEF TypeInv, Typed, HeldInv, Held, Wanted
<1>2. run[s].cfg \in {j \in 1..yaml : a \in DOMAIN History[j]}
  BY <1>1
<1> QED
  BY <1>1, <1>2 DEF Promise!Specs

LEMMA PostAbstract ==
  ASSUME TypeInv, HeldInv, NEW s \in Slots, PostVersion(s)
  PROVE  Abstract
<1> DEFINE a == run[s].app
           c == Cfg(s)[a]
           v == Store(BuildRequest(c, run[s].base), Newest(a))
<1>0. run[s].pc = "post" /\ UNCHANGED <<yaml, exists, born, active>> /\ run[s] \in Runs
  BY RunFacts DEF PostVersion
<1>1. CASE ~Alive(a, run[s].id)
  BY <1>0, <1>1 DEF PostVersion, Abstract
<1>2. CASE Alive(a, run[s].id)
  <2>1. a \in Apps /\ a \in Wanted(s) /\ c \in ApplicationSpec
    BY <1>0, RunFacts DEF Wanted, Cfg
  <2>2. v \in Version /\ InSync(v, c)
    BY <1>0, PostedType
  <2>3. run[s].base \in Version /\ Newest(a) \in Version
    BY <1>0, <2>1, NewestType DEF TypeInv, Runs
  <2>4. Promise!Inherits(v, c, run[s].base)
    BY <2>1, <2>3, StoreInherits
  <2>5. run[s].base \in Promise!Bases(a)
    <3>1. run[s].base \in BasesOf(versions[a])
      BY <1>0, <1>2 DEF HeldInv, Held, Alive
    <3> QED
      BY <3>1, SameOperators DEF BasesOf, Promise!Bases
  <2>6. versions' = [versions EXCEPT ![a] = Append(@, v)]
    BY <1>2 DEF PostVersion
  <2>7. c \in Promise!Specs(a)
    BY <2>1, SpecThere
  <2> HIDE DEF v, c
  <2>8. Len(versions'[a]) = Len(versions[a]) + 1 /\ versions'[a][Len(versions'[a])] = v
    BY <1>0, <2>1, <2>2, <2>6, AppendGrows
  <2>9. Promise!Gets(a, v) /\ v \in Promise!Version /\ Promise!InSync(v, c)
    BY <2>2, <2>6, SameOperators DEF Promise!Gets
  <2>10. Promise!Release(a)
    BY <1>0, <1>2, <2>4, <2>5, <2>7, <2>8, <2>9 DEF Promise!Release, Alive
  <2> QED
    BY <2>1, <2>10 DEF Abstract, Promise!Next
<1> QED
  BY <1>1, <1>2

LEMMA StepAbstract == TypeInv /\ HeldInv /\ [Next]_vars => Abstract
<1> SUFFICES ASSUME TypeInv, HeldInv, [Next]_vars PROVE Abstract
  OBVIOUS
<1>1. ASSUME UNCHANGED <<yaml, server>> PROVE Abstract
  BY <1>1 DEF Abstract, server
<1>2. ASSUME NEW s \in Slots, Activate(s) \/ SetActive(s) PROVE Abstract
  <2> DEFINE a == run[s].app
  <2>1. run[s].pc \in {"activate", "set"} /\ UNCHANGED <<yaml, versions, exists, born>>
    BY <1>2 DEF Activate, SetActive
  <2>2. CASE Alive(a, run[s].id)
    <3>1. active' = [active EXCEPT ![a] = run[s].made]
      BY <1>2, <2>2 DEF Activate, SetActive
    <3>2. a \in Apps /\ a \in exists /\ run[s].made \in 1..Len(versions[a])
      BY <2>1, <2>2 DEF HeldInv, Held, Alive
    <3>3. Promise!Activate(a, run[s].made)
      BY <2>1, <3>1, <3>2 DEF Promise!Activate
    <3> QED
      BY <3>2, <3>3 DEF Abstract, Promise!Next
  <2>3. CASE ~Alive(a, run[s].id)
    BY <1>1, <1>2, <2>1, <2>3 DEF Activate, SetActive, server
  <2> QED
    BY <2>2, <2>3
<1>3. ASSUME NEW s \in Slots, NEW a \in Apps, CreateApplication(s, a) PROVE Abstract
  <2>1. CASE a \in exists
    BY <1>1, <1>3, <2>1 DEF CreateApplication, server
  <2>2. CASE a \notin exists
    <3>1. a \in Wanted(s)
      BY <1>3, RunFacts DEF CreateApplication, Turn, Wanted, Cfg
    <3>2. Promise!Create(a)
      BY <1>3, <2>2, <3>1, SpecThere DEF CreateApplication, Promise!Create
    <3> QED
      BY <3>2 DEF Abstract, Promise!Next
  <2> QED
    BY <2>1, <2>2
<1>4. ASSUME NEW a \in Apps, Remove(a) PROVE Abstract
  BY <1>4 DEF Remove, Promise!Remove, Abstract, Promise!Next
<1>5. ASSUME NEW a \in Apps, NEW img \in DeployImages, Deploy(a, img) PROVE Abstract
  <2>1. Promise!Deploy(a, img)
    BY <1>5, BoundsAssumption DEF Deploy, Newest, Promise!Deploy, Promise!Gets
  <2> QED
    BY <2>1 DEF Abstract, Promise!Next
<1>6. CASE Edit
  BY <1>6 DEF Edit, server, Promise!Edit, Abstract, Promise!Next
<1>7. ASSUME NEW s \in Slots,
             \/ Start(s) \/ StartActivate(s) \/ LoadState(s) \/ ListForPlan(s) \/ Decide(s)
             \/ Approve(s) \/ Cancel(s) \/ Abandon(s) \/ ListForApply(s) \/ FinishApply(s) \/ SaveTruncate(s)
             \/ SaveWrite(s) \/ Fail(s) \/ ResolveLatest(s)
             \/ \E a \in Apps : \/ PlanCreate(s, a) \/ PlanUpdate(s, a) \/ ApplyNoop(s, a)
                                \/ ReadBase(s, a) \/ FindApplication(s, a)
      PROVE  UNCHANGED <<yaml, server>>
  BY <1>7 DEF Start, LoadState, StartActivate, ListForPlan, Decide, Approve, Cancel, Abandon, ListForApply,
         FinishApply, SaveTruncate, SaveWrite, Fail, ResolveLatest, PlanCreate, PlanUpdate,
         ApplyNoop, ReadBase, FindApplication
<1>8. CASE LoseFile \/ RepairFile \/ UNCHANGED vars
  BY <1>1, <1>8 DEF LoseFile, RepairFile, NoFile, vars, server
<1> QED
  BY <1>1, <1>2, <1>3, <1>4, <1>5, <1>6, <1>7, <1>8, PostAbstract DEF Next, Command

\* Any number of applies, activations, deployments and removals, interleaved and
\* interrupted at any call, keep the promise of Releases: createApplication and
\* updateApplication (sync.go:629-712) only post versions in sync with a
\* YAML, built on a version of the same application, and activate what is there.
THEOREM AppsKeepPromise == Spec => KeepsPromise
<1>1. Init => TypeInv /\ HeldInv /\ Promise!Init
  BY InitTypeInv, InitHeld DEF Init, Promise!Init
<1>2. TypeInv /\ HeldInv /\ [Next]_vars =>
        TypeInv' /\ HeldInv' /\ [Promise!Next]_<<yaml, versions, exists, active>>
  BY StepTypeInv, StepHeld, StepAbstract DEF Abstract
<1> QED
  BY <1>1, <1>2, PTL DEF Spec, Promise!Spec, KeepsPromise

-----------------------------------------------------------------------------
\* What the promise means for the applications.  Promised is the module the facts
\* about Releases are proved in; what it says of the state is what Promise says.

LEMMA PromisedOperators ==
  /\ Promised!Settings = Settings /\ Promised!NilVersion = NilVersion
  /\ Promised!Version = Version
  /\ \A env : Promised!Names(env) = Names(env)
  /\ \A v : Promised!Read(v) = Read(v)
  /\ \A v, c : Promise!InSync(v, c) => Promised!InSync(v, c)
<1>1. /\ Promised!Settings = Settings /\ Promised!NilVersion = NilVersion
      /\ Promised!Version = Version
  BY DEF Promised!Settings, Settings, Promised!NilVersion, NilVersion, Promised!NoEnv, NoEnv,
         Promised!Version, Version, Promised!Opt, Opt, Promised!EnvOf, EnvOf,
         Promised!EnvVar, EnvVar
<1>2. \A env : Promised!Names(env) = Names(env) /\ Promised!Masked(env) = Masked(env)
  BY DEF Promised!Names, Names, Promised!Masked, Masked
<1>3. \A v : Promised!Read(v) = Read(v)
  BY <1>2 DEF Promised!Read, Read
<1>4. \A v, c : Promise!EnvInSync(v, c) => Promised!EnvInSync(v, c)
  BY <1>2, SameOperators DEF Promised!EnvInSync, Promise!EnvInSync
<1>5. \A v, c : Promise!InSync(v, c) => Promised!InSync(v, c)
  BY <1>1, <1>4, SameOperators DEF Promised!InSync, Promise!InSync
<1> QED
  BY <1>1, <1>2, <1>3, <1>5

LEMMA PromisedStep ==
  [Promise!Next]_<<yaml, versions, exists, active>> =>
    [Promised!Next]_<<yaml, versions, exists, active>>
<1>1. \A a \in Apps : Promise!Specs(a) = Promised!Specs(a) /\ Promise!Bases(a) = Promised!Bases(a)
  BY SameOperators, PromisedOperators
     DEF Promise!Specs, Promised!Specs, Promise!Bases, Promised!Bases
<1>2. \A v, c, b : Promise!Inherits(v, c, b) => Promised!Inherits(v, c, b)
  BY SameOperators, PromisedOperators DEF Promise!Inherits, Promised!Inherits
<1>3. ASSUME NEW a \in Apps, Promise!Release(a) PROVE Promised!Release(a)
  BY <1>1, <1>2, <1>3, SameOperators, PromisedOperators
     DEF Promise!Release, Promised!Release, Promise!Gets, Promised!Gets
<1>4. Promise!Edit => Promised!Edit
  BY DEF Promise!Edit, Promised!Edit
<1>5. ASSUME NEW a \in Apps
      PROVE  /\ Promise!Create(a) => Promised!Create(a)
             /\ Promise!Remove(a) => Promised!Remove(a)
             /\ \A img \in DeployImages : Promise!Deploy(a, img) => Promised!Deploy(a, img)
             /\ \A n : Promise!Activate(a, n) => Promised!Activate(a, n)
  BY <1>1 DEF Promise!Create, Promised!Create, Promise!Remove, Promised!Remove,
     Promise!Deploy, Promised!Deploy, Promise!Gets, Promised!Gets,
     Promise!Activate, Promised!Activate
<1> QED
  BY <1>3, <1>4, <1>5 DEF Promise!Next, Promised!Next

\* An active version is always one the application has, and every setting and image
\* of a version was given to this very application by a YAML or by the CI, although
\* versions are built from one another by commands that may fail at any call.
THEOREM VersionsSourced == Spec => [](Promise!ActiveIsThere /\ Promise!Sourced)
<1>1. Promised!Spec => [](Promised!ActiveIsThere /\ Promised!Sourced)
  BY Promised!ReleasesSourced, ValuesAssumption, NoneAssumption
<1>2. Promise!Init => Promised!Init
  BY DEF Promise!Init, Promised!Init
<1>3. Promise!Spec => Promised!Spec
  BY <1>2, PromisedStep, PTL DEF Promise!Spec, Promised!Spec
<1>4. Promised!ActiveIsThere => Promise!ActiveIsThere
  BY DEF Promised!ActiveIsThere, Promise!ActiveIsThere
<1>5. Promised!Sourced => Promise!Sourced
  BY SameOperators, PromisedOperators
     DEF Promised!Sourced, Promise!Sourced, Promised!Specs, Promise!Specs
<1> QED
  BY <1>1, <1>3, <1>4, <1>5, AppsKeepPromise, PTL DEF KeepsPromise

-----------------------------------------------------------------------------
\* What dump can rely on.  Every version the service has was accepted by
\* validateApplication as far as the API returns it, those with inherited parts and
\* those of the CI included: what a YAML must spell out is never inherited, and an
\* image is inherited from a version that has one.

Whole(v) ==
  /\ v.image # None
  /\ \A f \in {"cpu", "memory", "exposedPorts"} : v.settings[f] # None
  /\ v.settings["scalingMode"] \in {Manual, CpuMode}
  /\ \A f \in ModeSettings(v.settings["scalingMode"]) : v.settings[f] # None

WholeInv ==
  \A a \in Apps :
    /\ Len(versions[a]) <= MaxVersions
    /\ \A j \in 1..Len(versions[a]) : Whole(versions[a][j])

LEMMA WholePosted ==
  ASSUME TypeInv, HeldInv, WholeInv, NEW s \in Slots, run[s].pc = "post",
         Alive(run[s].app, run[s].id)
  PROVE  Whole(Store(BuildRequest(Cfg(s)[run[s].app], run[s].base), Newest(run[s].app)))
<1> DEFINE a == run[s].app
           c == Cfg(s)[a]
           b == run[s].base
           v == Store(BuildRequest(c, b), Newest(a))
<1>1. /\ a \in Apps /\ a \in DOMAIN History[run[s].cfg] /\ run[s].cfg \in 1..Len(History)
      /\ c = History[run[s].cfg][a]
  BY RunFacts
<1>2. Validate(c) /\ c \in ApplicationSpec
  BY <1>1, HistoryAssumption
<1>3. b \in BasesOf(versions[a])
  BY <1>1 DEF HeldInv, Held, Alive
<1>4. /\ v.image = BuildImage(c, b)
      /\ \A f \in Settings : c.settings[f] # None => v.settings[f] = c.settings[f]
  BY DEF Store, BuildRequest
<1>5. v.image # None
  <2>1. CASE b = NilVersion
    BY <1>2, <1>4, <2>1 DEF BuildImage, Validate
  <2>2. CASE b # NilVersion
    <3>1. PICK j \in 1..Len(versions[a]) : b = Read(versions[a][j])
      BY <1>3, <2>2 DEF BasesOf
    <3>2. versions[a][j] \in Version
      BY <1>1, ElementOfSeq DEF TypeInv, Typed
    <3>3. b.image = versions[a][j].image
      BY <3>1, <3>2 DEF Read, Version
    <3>4. b.image # None
      BY <1>1, <3>3 DEF WholeInv, Whole
    <3> QED
      BY <1>4, <2>2, <3>4 DEF BuildImage
  <2> QED
    BY <2>1, <2>2
<1> HIDE DEF v, c
<1>6. /\ \A f \in {"cpu", "memory", "exposedPorts"} : v.settings[f] = c.settings[f]
      /\ v.settings["scalingMode"] = c.settings["scalingMode"]
  BY <1>2, <1>4, ValuesAssumption, NoneAssumption DEF Validate, Settings
<1>7. \A f \in ModeSettings(c.settings["scalingMode"]) : v.settings[f] = c.settings[f]
  BY <1>2, <1>4 DEF Validate, ModeSettings, Settings
<1>8. Whole(v)
  BY <1>2, <1>5, <1>6, <1>7 DEF Whole, Validate
<1> QED
  BY <1>8 DEF v, c

\* The versions of one application grow by one that is whole.
LEMMA WholeAppended ==
  ASSUME TypeInv, WholeInv, NEW a \in Apps, NEW v \in Version, Whole(v),
         Len(versions[a]) < MaxVersions, versions' = [versions EXCEPT ![a] = Append(@, v)]
  PROVE  WholeInv'
<1>1. versions \in [Apps -> Seq(Version)]
  BY DEF TypeInv, Typed
<1>2. /\ versions'[a] = Append(versions[a], v)
      /\ \A b \in Apps \ {a} : versions'[b] = versions[b]
  BY <1>1
<1>3. /\ Len(versions[a]) \in Nat /\ Len(versions'[a]) = Len(versions[a]) + 1
      /\ versions'[a][Len(versions[a]) + 1] = v
      /\ \A j \in 1..Len(versions[a]) : versions'[a][j] = versions[a][j]
  BY <1>1, <1>2, AppendPosted
<1>4. Len(versions'[a]) <= MaxVersions
  BY <1>3, BoundsAssumption
<1>5. ASSUME NEW j \in 1..Len(versions'[a]) PROVE Whole(versions'[a][j])
  BY <1>3 DEF WholeInv
<1> QED
  BY <1>2, <1>4, <1>5 DEF WholeInv

LEMMA InitWhole == Init => WholeInv
  BY BoundsAssumption DEF Init, WholeInv

LEMMA StepWhole == TypeInv /\ HeldInv /\ WholeInv /\ [Next]_vars => WholeInv'
<1> SUFFICES ASSUME TypeInv, HeldInv, WholeInv, [Next]_vars PROVE WholeInv'
  OBVIOUS
<1>1. CASE UNCHANGED versions
  BY <1>1 DEF WholeInv
<1>2. ASSUME NEW s \in Slots, PostVersion(s), Alive(run[s].app, run[s].id) PROVE WholeInv'
  <2> DEFINE a == run[s].app
             v == Store(BuildRequest(Cfg(s)[a], run[s].base), Newest(a))
  <2>1. run[s].pc = "post" /\ Len(versions[a]) < MaxVersions
        /\ versions' = [versions EXCEPT ![a] = Append(@, v)]
    BY <1>2 DEF PostVersion
  <2>2. a \in Apps /\ v \in Version /\ Whole(v)
    BY <1>2, <2>1, PostedType, WholePosted
  <2> HIDE DEF v
  <2> QED
    BY <2>1, <2>2, WholeAppended
<1>3. ASSUME NEW a \in Apps, NEW img \in DeployImages, Deploy(a, img) PROVE WholeInv'
  <2> DEFINE v == [Newest(a) EXCEPT !.image = img]
  <2>1. /\ versions[a] # <<>> /\ Len(versions[a]) < MaxVersions
        /\ versions' = [versions EXCEPT ![a] = Append(@, v)]
    BY <1>3 DEF Deploy
  <2>2. Newest(a) = versions[a][Len(versions[a])] /\ Len(versions[a]) \in 1..Len(versions[a])
    BY <2>1, EmptySeq, LenProperties DEF Newest, TypeInv, Typed
  <2>3. Whole(Newest(a)) /\ Newest(a) \in Version
    BY <2>2, NewestType DEF WholeInv, TypeInv
  <2>4. v.settings = Newest(a).settings /\ v.image = img
    BY <2>3 DEF Version
  <2>5. img \in Images /\ img # None
    BY BoundsAssumption, NoneAssumption
  <2>6. Whole(v) /\ v \in Version
    BY <2>3, <2>4, <2>5 DEF Whole, Version, Opt
  <2> HIDE DEF v
  <2> QED
    BY <2>1, <2>6, WholeAppended
<1>4. ASSUME NEW a \in Apps, Remove(a) PROVE WholeInv'
  <2>1. /\ \A b \in Apps \ {a} : versions'[b] = versions[b]
        /\ versions'[a] = <<>>
    BY <1>4 DEF Remove, TypeInv, Typed
  <2>2. Len(versions'[a]) = 0 /\ MaxVersions >= 0
    BY <2>1, BoundsAssumption
  <2> QED
    BY <2>1, <2>2 DEF WholeInv
<1> QED
  BY <1>1, <1>2, <1>3, <1>4, VersionsStep

LEMMA WholeVersions == Spec => [](TypeInv /\ HeldInv /\ WholeInv)
  BY InitTypeInv, InitHeld, InitWhole, StepTypeInv, StepHeld, StepWhole, PTL DEF Spec

\* The YAML of a dump of the newest version of any application there is plans
\* nothing when it is read back, is what that version carries, and loads, whatever
\* commands, the CI and users have done: DumpClusterConfig leaves out nothing that
\* validateApplication asks for but the numbers of secrets.
THEOREM DumpsTaken == Spec => []DumpTaken
<1>1. ASSUME TypeInv, WholeInv PROVE DumpTaken
  <2> SUFFICES ASSUME NEW a \in exists, versions[a] # <<>>
               PROVE  LET v == Newest(a)
                          c == DumpSpec(Read(v))
                      IN  /\ file[a].pw = None => ~Changed(Read(v), c, file[a])
                          /\ InSync(v, c)
                          /\ (\A k \in Names(v.env) : ~v.env[k].secret) => Validate(c)
    BY DEF DumpTaken
  <2> DEFINE v == Newest(a)
             c == DumpSpec(Read(v))
  <2>1. a \in Apps /\ file[a] \in Entry
    BY <1>1 DEF TypeInv, Typed
  <2>2. v \in Version
    BY <1>1, <2>1, NewestType DEF TypeInv
  <2>3. Whole(v)
    <3>1. v = versions[a][Len(versions[a])] /\ Len(versions[a]) \in 1..Len(versions[a])
      BY <1>1, <2>1, EmptySeq, LenProperties DEF Newest, TypeInv, Typed
    <3> QED
      BY <1>1, <2>1, <3>1 DEF WholeInv
  <2> HIDE DEF v
  <2>4. NoEntry \in Entry /\ NoEntry.pw = None
    BY DEF NoEntry, Entry, Opt
  <2>5. InSync(v, c) /\ (file[a].pw = None => ~Changed(Read(v), c, file[a]))
    BY <2>1, <2>2, <2>4, DumpPlansNothing
  <2>6. ASSUME \A k \in Names(v.env) : ~v.env[k].secret PROVE Validate(c)
    <3>1. c.settings = v.settings /\ c.image = v.image /\ c.password = None
      BY <2>2 DEF DumpSpec, Read, Version
    <3>2. ASSUME NEW k \in Names(c.env) PROVE ~c.env[k].secret
      <4>1. Read(v).env = Masked(v.env) /\ v.env \in [Keys -> Opt(EnvVar)]
        BY <2>2 DEF Read, Version, EnvOf
      <4>2. k \in Keys /\ Masked(v.env)[k] # None
        BY <4>1 DEF Names, DumpSpec
      <4>3. c.env[k].secret = Masked(v.env)[k].secret
        BY <4>1, <4>2 DEF DumpSpec
      <4>4. v.env[k] # None
        BY <4>2 DEF Masked
      <4>5. ~v.env[k].secret
        BY <2>6, <4>2, <4>4 DEF Names
      <4>6. Masked(v.env)[k] = v.env[k]
        BY <4>2, <4>5 DEF Masked
      <4> QED
        BY <4>3, <4>5, <4>6
    <3> HIDE DEF c
    <3> QED
      BY <2>3, <3>1, <3>2 DEF Validate, Whole
  <2> QED
    BY <2>5, <2>6 DEF v
<1> QED
  BY <1>1, WholeVersions, PTL

-----------------------------------------------------------------------------
\* One command at a time.

OneCommand == \A s, t \in Slots : s = t

\* A command that found no version to build on is the only one that could have posted
\* one since; and what others removed took its versions with it.
Fresh(s) ==
  run[s].pc = "post" /\ Alive(run[s].app, run[s].id) /\ run[s].base = NilVersion =>
    versions[run[s].app] = <<>>

FreshInv ==
  /\ \A a \in Apps : a \notin exists => versions[a] = <<>>
  /\ \A s \in Slots : Fresh(s)

LEMMA InitFresh == Init => FreshInv
  BY DEF Init, FreshInv, Fresh, At

\* The steps that have nothing to do with the base of a command.
LEMMA FreshElsewhere ==
  ASSUME TypeInv, NEW s \in Slots,
         \/ Start(s) \/ StartActivate(s) \/ LoadState(s) \/ ListForPlan(s) \/ Decide(s)
         \/ Approve(s) \/ Cancel(s) \/ Abandon(s) \/ ListForApply(s) \/ FinishApply(s) \/ SaveTruncate(s)
         \/ SaveWrite(s) \/ Fail(s) \/ ResolveLatest(s) \/ SetActive(s) \/ Activate(s)
         \/ \E a \in Apps : \/ PlanCreate(s, a) \/ PlanUpdate(s, a) \/ ApplyNoop(s, a)
                            \/ FindApplication(s, a)
  PROVE  UNCHANGED <<versions, exists, born>> /\ run'[s].pc # "post"
<1>0. run[s] \in Runs /\ run \in [Slots -> Runs]
  BY RunFacts DEF TypeInv, Typed
<1>1. UNCHANGED <<versions, exists, born>>
  BY DEF Start, LoadState, StartActivate, ListForPlan, Decide, Approve, Cancel, Abandon, ListForApply,
         FinishApply, SaveTruncate, SaveWrite, Fail, ResolveLatest, Activate, SetActive,
         PlanCreate, PlanUpdate, ApplyNoop, FindApplication, server
<1>a. SUFFICES run'[s].pc # "post"
  BY <1>1
<1>2. ASSUME NEW r, Becomes(s, r), r.pc # "post" PROVE run'[s].pc # "post"
  BY <1>0, <1>2 DEF Becomes
<1>3. ASSUME NEW pc \in Ended, End(s, pc) PROVE run'[s].pc # "post"
  BY <1>2, <1>3 DEF End, At, Ended
<1>4. CASE Start(s) \/ StartActivate(s)
  BY <1>0, <1>2, <1>4 DEF Start, StartActivate, At
<1>12. CASE LoadState(s)
  BY <1>0, <1>2, <1>3, <1>12 DEF LoadState, Runs, Ended
<1>5. CASE ListForPlan(s) \/ ListForApply(s) \/ Approve(s) \/ SaveTruncate(s)
  BY <1>0, <1>2, <1>5 DEF ListForPlan, ListForApply, Approve, SaveTruncate, Runs
<1>6. CASE Decide(s) \/ FinishApply(s)
  BY <1>0, <1>2, <1>3, <1>6 DEF Decide, FinishApply, Runs, Ended
<1>7. CASE Cancel(s) \/ Abandon(s) \/ SetActive(s) \/ Fail(s) \/ SaveWrite(s)
  BY <1>3, <1>7 DEF Cancel, Abandon, SetActive, Fail, SaveWrite, Ended
<1>8. CASE ResolveLatest(s)
  BY <1>0, <1>2, <1>3, <1>8 DEF ResolveLatest, Runs, Ended
<1>9. CASE Activate(s)
  <2>1. run[s].pc = "activate" => Applied(s).pc = "apply"
    BY AppliedType
  <2> QED
    BY <1>2, <1>3, <1>9, <2>1 DEF Activate, Ended
<1>10. CASE \E a \in Apps : PlanCreate(s, a) \/ PlanUpdate(s, a) \/ ApplyNoop(s, a)
  BY <1>0, <1>2, <1>3, <1>10 DEF PlanCreate, PlanUpdate, ApplyNoop, Turn, Planned, Runs, Ended
<1>11. CASE \E a \in Apps : FindApplication(s, a)
  BY <1>0, <1>2, <1>3, <1>11 DEF FindApplication, Runs, Ended
<1> QED
  BY <1>4, <1>5, <1>6, <1>7, <1>8, <1>9, <1>10, <1>11, <1>12

LEMMA CommandFresh ==
  ASSUME OneCommand, TypeInv, HeldInv, WholeInv, FreshInv, NEW s \in Slots,
         \/ PostVersion(s) \/ \E a \in Apps : CreateApplication(s, a) \/ ReadBase(s, a)
  PROVE  FreshInv'
<1>0. run[s] \in Runs /\ run \in [Slots -> Runs] /\ \A t \in Slots : t = s
  BY RunFacts DEF TypeInv, Typed, OneCommand
<1>1. ASSUME NEW pc \in Ended, End(s, pc) PROVE run'[s].pc # "post"
  BY <1>0, <1>1 DEF End, Becomes, At, Ended
<1>2. CASE PostVersion(s)
  <2> DEFINE a == run[s].app
             v == Store(BuildRequest(Cfg(s)[a], run[s].base), Newest(a))
  <2>1. run[s].pc = "post" /\ UNCHANGED exists
    BY <1>2 DEF PostVersion
  <2>2. run'[s].pc # "post"
    <3>1. Applied(s).pc = "apply"
      BY <2>1, AppliedType
    <3>2. [run[s] EXCEPT !.pc = "activate", !.made = Len(versions[a]) + 1].pc = "activate"
      BY <1>0 DEF Runs
    <3>3. \/ Becomes(s, [run[s] EXCEPT !.pc = "activate", !.made = Len(versions[a]) + 1])
          \/ Becomes(s, Applied(s)) \/ End(s, "failed")
      BY <1>2 DEF PostVersion
    <3> QED
      BY <1>0, <1>1, <3>1, <3>2, <3>3 DEF Becomes, Ended
  <2>3. \A b \in Apps : b \notin exists => versions'[b] = versions[b]
    <3>1. UNCHANGED versions \/ (Alive(a, run[s].id) /\ versions' = [versions EXCEPT ![a] = Append(@, v)])
      BY <1>2 DEF PostVersion
    <3> HIDE DEF v
    <3> QED
      BY <3>1 DEF Alive, TypeInv, Typed
  <2> QED
    BY <1>0, <2>1, <2>2, <2>3 DEF FreshInv, Fresh
<1>3. ASSUME NEW a \in Apps, CreateApplication(s, a) PROVE FreshInv'
  <2>1. versions' = versions
    BY <1>3 DEF CreateApplication
  <2>2. CASE a \in exists
    BY <1>0, <1>1, <1>3, <2>1, <2>2 DEF CreateApplication, FreshInv, Fresh, Ended
  <2>3. CASE a \notin exists
    <3> DEFINE r == [run[s] EXCEPT !.pc = "post", !.app = a, !.id = born[a] + 1,
                                   !.base = NilVersion]
    <3>1. exists' = exists \cup {a} /\ Becomes(s, r)
      BY <1>3, <2>3 DEF CreateApplication
    <3>2. r.app = a
      BY <1>0 DEF Runs
    <3> HIDE DEF r
    <3>3. run'[s].app = a
      BY <1>0, <3>1, <3>2 DEF Becomes
    <3> QED
      BY <1>0, <2>1, <2>3, <3>1, <3>3 DEF FreshInv, Fresh
  <2> QED
    BY <2>2, <2>3
<1>4. ASSUME NEW a \in Apps, ReadBase(s, a) PROVE FreshInv'
  <2>1. UNCHANGED <<versions, exists, born>>
    BY <1>4 DEF ReadBase, server
  <2>2. CASE End(s, "failed")
    BY <1>0, <1>1, <2>1, <2>2 DEF FreshInv, Fresh, Ended
  <2>3. CASE ~End(s, "failed")
    <3>1. PICK b \in Latest(a) :
            Becomes(s, [run[s] EXCEPT !.pc = "post", !.app = a, !.id = run[s].known[a],
                                      !.base = b])
      BY <1>4, <2>3 DEF ReadBase
    <3>2. run'[s].app = a /\ run'[s].base = b
      BY <1>0, <3>1 DEF Becomes, Runs
    <3>3. PICK n \in LatestOf(a) : b = IF n = 0 THEN NilVersion ELSE Read(versions[a][n])
      BY DEF Latest
    <3>4. CASE n = 0
      <4>1. versions[a] = <<>>
        BY <3>4, LatestType DEF TypeInv
      <4> QED
        BY <1>0, <2>1, <3>2, <4>1 DEF FreshInv, Fresh
    <3>5. CASE n # 0
      <4>1. n \in 1..Len(versions[a]) /\ versions[a][n] \in Version
        BY <3>5, LatestType, LenProperties DEF TypeInv, Typed
      <4>2. b.image = versions[a][n].image /\ versions[a][n].image # None
        BY <3>3, <3>5, <4>1 DEF Read, Version, WholeInv, Whole
      <4>3. b # NilVersion
        BY <4>2 DEF NilVersion
      <4> QED
        BY <1>0, <2>1, <3>2, <4>3 DEF FreshInv, Fresh
    <3> QED
      BY <3>4, <3>5
  <2> QED
    BY <2>2, <2>3
<1> QED
  BY <1>2, <1>3, <1>4

LEMMA StepFresh ==
  ASSUME OneCommand, TypeInv, HeldInv, WholeInv, FreshInv, [Next]_vars
  PROVE  FreshInv'
<1>1. ASSUME NEW s \in Slots,
             \/ Start(s) \/ StartActivate(s) \/ LoadState(s) \/ ListForPlan(s) \/ Decide(s)
             \/ Approve(s) \/ Cancel(s) \/ Abandon(s) \/ ListForApply(s) \/ FinishApply(s) \/ SaveTruncate(s)
             \/ SaveWrite(s) \/ Fail(s) \/ ResolveLatest(s) \/ SetActive(s) \/ Activate(s)
             \/ \E a \in Apps : \/ PlanCreate(s, a) \/ PlanUpdate(s, a) \/ ApplyNoop(s, a)
                                \/ FindApplication(s, a)
      PROVE  FreshInv'
  <2>1. UNCHANGED <<versions, exists, born>> /\ run'[s].pc # "post" /\ \A t \in Slots : t = s
    BY <1>1, FreshElsewhere DEF OneCommand
  <2> QED
    BY <2>1 DEF FreshInv, Fresh
<1>2. CASE LoseFile \/ RepairFile \/ Edit \/ UNCHANGED vars
  BY <1>2 DEF LoseFile, RepairFile, NoFile, Edit, vars, server, FreshInv, Fresh, Alive
<1>3. ASSUME NEW a \in Apps, Remove(a) PROVE FreshInv'
  <2>1. /\ exists' = exists \ {a} /\ versions' = [versions EXCEPT ![a] = <<>>]
        /\ UNCHANGED <<born, run>> /\ versions \in [Apps -> Seq(Version)]
    BY <1>3 DEF Remove, TypeInv, Typed
  <2>2. \A b \in Apps : versions'[b] = <<>> \/ (versions'[b] = versions[b] /\ (b \in exists' <=> b \in exists))
    BY <2>1
  <2>3. ASSUME NEW s \in Slots PROVE Fresh(s)'
    <3>1. run[s].pc = "post" => run[s].app \in Apps
      BY RunFacts
    <3>2. Fresh(s)
      BY DEF FreshInv
    <3> QED
      BY <2>1, <2>2, <3>1, <3>2 DEF Fresh, Alive
  <2>4. \A b \in Apps : b \notin exists' => versions'[b] = <<>>
    BY <2>2 DEF FreshInv
  <2> QED
    BY <2>3, <2>4 DEF FreshInv
<1>4. ASSUME NEW a \in Apps, NEW img \in DeployImages, Deploy(a, img) PROVE FreshInv'
  <2> DEFINE v == [Newest(a) EXCEPT !.image = img]
  <2>1. /\ a \in exists /\ versions[a] # <<>> /\ versions' = [versions EXCEPT ![a] = Append(@, v)]
        /\ UNCHANGED <<exists, born, run>> /\ versions \in [Apps -> Seq(Version)]
    BY <1>4 DEF Deploy, TypeInv, Typed
  <2> HIDE DEF v
  <2>2. \A b \in Apps \ {a} : versions'[b] = versions[b]
    BY <2>1
  <2>3. ASSUME NEW s \in Slots PROVE Fresh(s)'
    <3>1. run[s].pc = "post" => run[s].app \in Apps
      BY RunFacts
    <3>2. Fresh(s)
      BY DEF FreshInv
    <3> QED
      BY <2>1, <2>2, <3>1, <3>2 DEF Fresh, Alive
  <2>4. \A b \in Apps : b \notin exists' => versions'[b] = <<>>
    BY <2>1, <2>2 DEF FreshInv
  <2> QED
    BY <2>3, <2>4 DEF FreshInv
<1> QED
  BY <1>1, <1>2, <1>3, <1>4, CommandFresh DEF Next, Command

LEMMA FreshVersions ==
  ASSUME OneCommand
  PROVE  Spec => [](TypeInv /\ HeldInv /\ WholeInv /\ FreshInv)
<1>1. FreshInv /\ TypeInv /\ HeldInv /\ WholeInv /\ [Next]_vars => FreshInv'
  BY StepFresh
<1> QED
  BY <1>1, InitTypeInv, InitHeld, InitWhole, InitFresh, StepTypeInv, StepHeld, StepWhole, PTL
     DEF Spec

\* With one command at a time, the image of a version posted with inheritImage is the
\* image of a version that was there: that of the YAML is taken only if no version was
\* found to build on (sync.go:723-730), and then there still is none.  (Two commands may
\* both find an application without versions, and both then post the image of the YAML.)
THEOREM ImagesInherited ==
  ASSUME OneCommand
  PROVE  Spec => ImageInherited
<1> DEFINE Kept(s, a) ==
      (/\ run[s].pc = "post" /\ run'[s] # run[s] /\ run[s].app = a /\ Cfg(s)[a].inheritImage
       /\ versions[a] # <<>> /\ Len(versions'[a]) > Len(versions[a])) =>
         \E j \in 1..Len(versions[a]) :
           versions'[a][Len(versions'[a])].image = versions[a][j].image
<1>1. ASSUME TypeInv, HeldInv, WholeInv, FreshInv, [Next]_vars, NEW s \in Slots, NEW a \in Apps
      PROVE  Kept(s, a)
  <2> SUFFICES ASSUME run[s].pc = "post", run'[s] # run[s], run[s].app = a,
                      Cfg(s)[a].inheritImage, versions[a] # <<>>,
                      Len(versions'[a]) > Len(versions[a])
               PROVE  \E j \in 1..Len(versions[a]) :
                        versions'[a][Len(versions'[a])].image = versions[a][j].image
    OBVIOUS
  <2>0. versions \in [Apps -> Seq(Version)] /\ Len(versions[a]) \in Nat
    BY <1>1, LenProperties DEF TypeInv, Typed
  <2>1. PostVersion(s) /\ Alive(a, run[s].id)
    <3>1. versions' # versions
      BY <2>0
    <3>2. ~\E b \in Apps : Deploy(b, None) \/ \E img \in DeployImages : Deploy(b, img)
      BY DEF Deploy
    <3>3. ~\E b \in Apps : Remove(b)
      BY DEF Remove
    <3> QED
      BY <1>1, <3>1, <3>2, <3>3, VersionsStep DEF OneCommand
  <2> DEFINE c == Cfg(s)[a]
             b == run[s].base
             v == Store(BuildRequest(c, b), Newest(a))
  <2>2. versions' = [versions EXCEPT ![a] = Append(@, v)]
    BY <2>1 DEF PostVersion
  <2>3. v \in Version
    BY <1>1, PostedType
  <2>4. b # NilVersion
    BY <1>1, <2>1 DEF FreshInv, Fresh
  <2>5. v.image = b.image
    BY <2>4 DEF Store, BuildRequest, BuildImage
  <2> HIDE DEF v
  <2>6. versions'[a][Len(versions'[a])] = v
    <3>1. versions'[a] = Append(versions[a], v)
      BY <2>0, <2>2
    <3> QED
      BY <2>0, <2>3, <3>1, AppendPosted
  <2>7. PICK j \in 1..Len(versions[a]) : b = Read(versions[a][j])
    BY <1>1, <2>1, <2>4 DEF HeldInv, Held, Alive, BasesOf
  <2>8. versions[a][j] \in Version
    BY <2>0, ElementOfSeq
  <2>9. b.image = versions[a][j].image
    BY <2>7, <2>8 DEF Read, Version
  <2> QED
    BY <2>5, <2>6, <2>9
<1>2. TypeInv /\ HeldInv /\ WholeInv /\ FreshInv /\ [Next]_vars =>
        [\A s \in Slots, a \in Apps : Kept(s, a)]_vars
  BY <1>1
<1> QED
  BY <1>2, FreshVersions, PTL DEF Spec, ImageInherited

-----------------------------------------------------------------------------
\* What the state file knows.  The numbers in it, and in the memory of a command, are
\* of YAML files up to some i, and the newest version of the application has all that
\* the YAML i spells out, but for the image.  A command that failed may have posted
\* more than the file knows of, never less.

Numbered(e, a, i) ==
  /\ e.pw # None => \E j \in 1..i : a \in DOMAIN History[j] /\ History[j][a].pwVersion = e.pw
  /\ \A k \in Keys : e.sec[k] # None =>
       \E j \in 1..i : /\ a \in DOMAIN History[j] /\ k \in Names(History[j][a].env)
                       /\ History[j][a].env[k].secret
                       /\ History[j][a].env[k].secretVersion = e.sec[k]

Remembered(a, i) ==
  /\ Numbered(file[a], a, i)
  /\ \A s \in Slots : Numbered(run[s].mem[a], a, i)

Carries(v, c) == InSync(v, [c EXCEPT !.inheritImage = TRUE])

Given(a, i) ==
  /\ a \in DOMAIN History[i] /\ Carries(Newest(a), History[i][a])
  /\ Remembered(a, i)
  /\ \A s \in Slots : run[s].pc \notin Ended => i <= run[s].cfg
  /\ \A s \in Slots : run[s].pc = "activate" /\ run[s].app = a => i = run[s].cfg

Known(a) ==
  /\ Remembered(a, yaml)
  /\ \A s \in Slots : run[s].pc \notin Ended => Remembered(a, run[s].cfg)
  /\ versions[a] # <<>> => \E i \in 1..yaml : Given(a, i)

KnownInv == \A a \in Apps : Known(a)

LEMMA EmptyNumbered ==
  ASSUME NEW a, NEW i
  PROVE  Numbered(NoEntry, a, i)
BY DEF Numbered, NoEntry

LEMMA NumberedLater ==
  ASSUME NEW e, NEW a, NEW i \in Nat, NEW l \in Nat, i <= l, Numbered(e, a, i)
  PROVE  Numbered(e, a, l)
<1>1. 1..i \subseteq 1..l
  OBVIOUS
<1> QED
  BY <1>1 DEF Numbered

LEMMA RecordedNumbered ==
  ASSUME NEW e, NEW i \in 1..Len(History), NEW a \in DOMAIN History[i], NEW kind,
         Numbered(e, a, i)
  PROVE  Numbered(Recorded(e, History[i][a], kind), a, i)
<1> DEFINE c == History[i][a]
           n == Recorded(e, c, kind)
<1>1. n.pw = RecordPw(e, c, kind) /\ n.sec = RecordSec(e, c) /\ i \in 1..i
  BY DEF Recorded
<1>2. n.pw # None => \E j \in 1..i : a \in DOMAIN History[j] /\ History[j][a].pwVersion = n.pw
  BY <1>1 DEF RecordPw, Numbered
<1>3. ASSUME NEW k \in Keys, n.sec[k] # None
      PROVE  \E j \in 1..i : /\ a \in DOMAIN History[j] /\ k \in Names(History[j][a].env)
                             /\ History[j][a].env[k].secret
                             /\ History[j][a].env[k].secretVersion = n.sec[k]
  <2>1. CASE k \in Names(c.env) /\ c.env[k].secret /\ c.env[k].secretVersion # None
    <3>1. n.sec[k] = c.env[k].secretVersion
      BY <1>1, <2>1 DEF RecordSec
    <3> QED
      BY <1>1, <2>1, <3>1
  <2>2. CASE ~(k \in Names(c.env) /\ c.env[k].secret /\ c.env[k].secretVersion # None)
    <3>1. n.sec[k] = e.sec[k]
      BY <1>1, <2>2 DEF RecordSec
    <3> QED
      BY <1>3, <3>1 DEF Numbered
  <2> QED
    BY <2>1, <2>2
<1> HIDE DEF n
<1>4. Numbered(n, a, i)
  BY <1>2, <1>3 DEF Numbered
<1> QED
  BY <1>4 DEF n

\* A version with another image carries what it did.
LEMMA CarriesImage ==
  ASSUME NEW v \in Version, NEW img, NEW c \in ApplicationSpec
  PROVE  /\ InSync(v, c) => Carries(v, c)
         /\ Carries(v, c) => Carries([v EXCEPT !.image = img], c)
<1> DEFINE w == [v EXCEPT !.image = img]
           d == [c EXCEPT !.inheritImage = TRUE]
<1>1. w.settings = v.settings /\ w.user = v.user /\ w.password = v.password /\ w.env = v.env
  BY DEF Version
<1>2. /\ d.settings = c.settings /\ d.user = c.user /\ d.password = c.password
      /\ d.env = c.env /\ d.inheritImage
  BY DEF ApplicationSpec
<1> HIDE DEF w, d
<1>3. InSync(v, c) => InSync(v, d)
  BY <1>2 DEF InSync, EnvInSync
<1>4. InSync(v, d) => InSync(w, d)
  BY <1>1, <1>2 DEF InSync, EnvInSync
<1> QED
  BY <1>3, <1>4 DEF Carries, w, d

\* A step that posts nothing for a and remembers nothing new of it.
LEMMA KnownKept ==
  ASSUME TypeInv, NEW a \in Apps, Known(a), yaml' \in Nat, yaml <= yaml',
         \A e \in {file'[a]} \cup {run'[s].mem[a] : s \in Slots} :
           e = NoEntry \/ e = file[a] \/ \E s \in Slots : e = run[s].mem[a],
         \A s \in Slots : run'[s].pc \notin Ended =>
           (run[s].pc \notin Ended /\ run'[s].cfg = run[s].cfg) \/ run'[s].cfg = yaml,
         \A s \in Slots : run'[s].pc = "activate" /\ run'[s].app = a =>
           run[s].pc = "activate" /\ run[s].app = a /\ run'[s].cfg = run[s].cfg,
         versions'[a] # <<>> =>
           versions[a] # <<>> /\ \A c \in ApplicationSpec :
                                   Carries(Newest(a), c) => Carries(Newest(a)', c)
  PROVE  Known(a)'
<1>0. yaml \in Nat /\ yaml \in 1..Len(History) /\ \A s \in Slots : run[s].cfg \in 1..Len(History)
  BY HistoryAssumption, RunFacts DEF TypeInv, Typed
<1>1. ASSUME NEW i, Remembered(a, i) PROVE Remembered(a, i)'
  <2>1. \A e : e = NoEntry \/ e = file[a] \/ (\E s \in Slots : e = run[s].mem[a]) =>
          Numbered(e, a, i)
    BY <1>1, EmptyNumbered DEF Remembered
  <2>2. Numbered(file'[a], a, i) /\ \A s \in Slots : Numbered(run'[s].mem[a], a, i)
    BY <2>1
  <2> QED
    BY <2>2 DEF Remembered
<1>2. Remembered(a, yaml)
  BY DEF Known
<1>3. ASSUME NEW l \in Nat, yaml <= l PROVE Remembered(a, l)'
  <2>1. Remembered(a, l)
    BY <1>0, <1>2, <1>3, NumberedLater DEF Remembered
  <2> QED
    BY <1>1, <2>1
<1>4. Remembered(a, yaml)'
  <2>1. Numbered(file'[a], a, yaml') /\ \A s \in Slots : Numbered(run'[s].mem[a], a, yaml')
    BY <1>3 DEF Remembered
  <2> QED
    BY <2>1 DEF Remembered
<1>5. ASSUME NEW s \in Slots, run'[s].pc \notin Ended PROVE Remembered(a, run[s].cfg)'
  <2>1. \A i : Remembered(a, i) => Numbered(file'[a], a, i) /\ \A t \in Slots : Numbered(run'[t].mem[a], a, i)
    BY <1>1 DEF Remembered
  <2>2. Remembered(a, run'[s].cfg)
    BY <1>2, <1>5 DEF Known
  <2>3. Numbered(file'[a], a, run'[s].cfg) /\ \A t \in Slots : Numbered(run'[t].mem[a], a, run'[s].cfg)
    BY <2>1, <2>2
  <2> QED
    BY <2>3 DEF Remembered
<1>6. ASSUME versions'[a] # <<>> PROVE \E i \in 1..yaml' : Given(a, i)'
  <2>1. PICK i \in 1..yaml : Given(a, i)
    BY <1>6 DEF Known
  <2>2. i \in 1..yaml' /\ i \in Nat /\ i \in 1..Len(History)
    BY <1>0
  <2>3. a \in DOMAIN History[i] /\ Carries(Newest(a), History[i][a])
    BY <2>1 DEF Given
  <2>4. Carries(Newest(a), History[i][a])'
    <3>1. History[i][a] \in ApplicationSpec
      BY <2>2, <2>3, WantedType
    <3> QED
      BY <1>6, <2>3, <3>1
  <2>5. Remembered(a, i)'
    BY <1>1, <2>1 DEF Given
  <2>6. \A s \in Slots : run'[s].pc \notin Ended => i <= run'[s].cfg
    BY <1>0, <2>1 DEF Given
  <2>7. \A s \in Slots : run'[s].pc = "activate" /\ run'[s].app = a => i = run'[s].cfg
    BY <2>1 DEF Given
  <2>8. Given(a, i)'
    BY <2>3, <2>4, <2>5, <2>6, <2>7 DEF Given
  <2> QED
    BY <2>2, <2>8
<1> QED
  BY <1>4, <1>5, <1>6 DEF Known

\* The steps of a command but for those that post and activate.
LEMMA CommandKnown ==
  ASSUME TypeInv, KnownInv, NEW s \in Slots,
         \/ Start(s) \/ StartActivate(s) \/ LoadState(s) \/ ListForPlan(s) \/ Decide(s)
         \/ Approve(s) \/ Cancel(s) \/ Abandon(s) \/ ListForApply(s) \/ FinishApply(s) \/ SaveTruncate(s)
         \/ SaveWrite(s) \/ Fail(s) \/ ResolveLatest(s) \/ SetActive(s)
         \/ \E a \in Apps : \/ PlanCreate(s, a) \/ PlanUpdate(s, a) \/ ApplyNoop(s, a)
                            \/ FindApplication(s, a) \/ ReadBase(s, a)
                            \/ CreateApplication(s, a)
  PROVE  KnownInv'
<1>0. run[s] \in Runs /\ run \in [Slots -> Runs] /\ yaml \in Nat
  BY RunFacts, HistoryAssumption DEF TypeInv, Typed
<1>1. UNCHANGED <<yaml, versions>> /\ (file' = file \/ file' = run[s].mem)
  BY DEF Start, LoadState, StartActivate, ListForPlan, Decide, Approve, Cancel, Abandon, ListForApply,
         FinishApply, SaveTruncate, SaveWrite, Fail, ResolveLatest, SetActive,
         PlanCreate, PlanUpdate, ApplyNoop, FindApplication, ReadBase, CreateApplication,
         server, disk
<1> DEFINE Fits(r) ==
      /\ r.pc # "activate"
      /\ r.mem = run[s].mem \/ r.mem = file \/ r.mem = EmptyFile
      /\ r.pc \in Ended \/ (run[s].pc \notin Ended /\ r.cfg = run[s].cfg) \/ r.cfg = yaml
<1>2. SUFFICES \E r : Becomes(s, r) /\ Fits(r)
  <2>1. PICK r : Becomes(s, r) /\ Fits(r)
    BY <1>2
  <2>2. run'[s] = r /\ \A t \in Slots \ {s} : run'[t] = run[t]
    BY <1>0, <2>1 DEF Becomes
  <2>3. ASSUME NEW a \in Apps
        PROVE  /\ \A e \in {file'[a]} \cup {run'[t].mem[a] : t \in Slots} :
                    e = NoEntry \/ e = file[a] \/ \E t \in Slots : e = run[t].mem[a]
               /\ \A t \in Slots : run'[t].pc = "activate" =>
                    run[t].pc = "activate" /\ run'[t] = run[t]
    <3>1. EmptyFile[a] = NoEntry
      BY DEF EmptyFile
    <3> QED
      BY <1>1, <2>1, <2>2, <3>1
  <2>4. \A t \in Slots : run'[t].pc \notin Ended =>
          (run[t].pc \notin Ended /\ run'[t].cfg = run[t].cfg) \/ run'[t].cfg = yaml
    BY <2>1, <2>2
  <2>5. ASSUME NEW a \in Apps
        PROVE  versions'[a] # <<>> =>
                 versions[a] # <<>> /\ \A c \in ApplicationSpec :
                                         Carries(Newest(a), c) => Carries(Newest(a)', c)
    BY <1>1 DEF Newest
  <2>6. ASSUME NEW a \in Apps PROVE Known(a)'
    <3>1. Known(a) /\ yaml' \in Nat /\ yaml <= yaml'
      BY <1>0, <1>1 DEF KnownInv
    <3>2. \A t \in Slots : run'[t].pc = "activate" /\ run'[t].app = a =>
            run[t].pc = "activate" /\ run[t].app = a /\ run'[t].cfg = run[t].cfg
      BY <2>3
    <3> HIDE DEF Fits
    <3> QED
      BY <2>3, <2>4, <2>5, <3>1, <3>2, KnownKept
  <2> QED
    BY <2>6 DEF KnownInv
<1>3. ASSUME NEW pc \in Ended, End(s, pc) PROVE \E r : Becomes(s, r) /\ Fits(r)
  <2>1. Becomes(s, At(pc)) /\ At(pc).pc = pc /\ At(pc).mem = EmptyFile
    BY <1>3 DEF End, At
  <2> QED
    BY <1>3, <2>1 DEF Ended
<1>4. CASE Start(s)
  <2>1. PICK opts \in BOOLEAN : Becomes(s, [At("load") EXCEPT !.cfg = yaml, !.opts = opts])
    BY <1>4 DEF Start
  <2> DEFINE r == [At("load") EXCEPT !.cfg = yaml, !.opts = opts]
  <2>2. r.pc = "load" /\ r.mem = EmptyFile /\ r.cfg = yaml
    BY DEF At
  <2> QED
    BY <2>1, <2>2
<1>15. CASE LoadState(s)
  <2> DEFINE r == [run[s] EXCEPT !.pc = "list", !.mem = file]
  <2>1. r.pc = "list" /\ r.mem = file /\ r.cfg = run[s].cfg
    BY <1>0 DEF Runs
  <2>2. run[s].pc \notin Ended /\ (Becomes(s, r) \/ End(s, "failed"))
    BY <1>15 DEF LoadState, Ended
  <2> QED
    BY <1>3, <2>1, <2>2 DEF Ended
<1>5. CASE StartActivate(s)
  <2> DEFINE r == [At("find") EXCEPT !.cfg = yaml]
  <2>1. r.pc = "find" /\ r.mem = EmptyFile /\ r.cfg = yaml
    BY DEF At
  <2> QED
    BY <1>5, <2>1 DEF StartActivate
<1>6. ASSUME run[s].pc \notin Ended, NEW r, Becomes(s, r), r.pc # "activate",
             r.mem = run[s].mem, r.cfg = run[s].cfg
      PROVE  \E q : Becomes(s, q) /\ Fits(q)
  BY <1>6
<1> HIDE DEF Fits
<1>7. CASE ListForPlan(s) \/ ListForApply(s) \/ Approve(s) \/ SaveTruncate(s)
  BY <1>0, <1>6, <1>7 DEF ListForPlan, ListForApply, Approve, SaveTruncate, Runs, Ended
<1>8. CASE Decide(s) \/ FinishApply(s)
  BY <1>0, <1>3, <1>6, <1>8 DEF Decide, FinishApply, Runs, Ended
<1>9. CASE Cancel(s) \/ Abandon(s) \/ SetActive(s) \/ Fail(s) \/ SaveWrite(s)
  BY <1>3, <1>9 DEF Cancel, Abandon, SetActive, Fail, SaveWrite, Ended
<1>10. CASE ResolveLatest(s)
  BY <1>0, <1>3, <1>6, <1>10 DEF ResolveLatest, Runs, Ended
<1>11. CASE \E a \in Apps : PlanCreate(s, a) \/ PlanUpdate(s, a) \/ ApplyNoop(s, a)
  BY <1>0, <1>3, <1>6, <1>11 DEF PlanCreate, PlanUpdate, ApplyNoop, Turn, Planned, Runs, Ended
<1>12. CASE \E a \in Apps : FindApplication(s, a)
  BY <1>0, <1>3, <1>6, <1>12 DEF FindApplication, Runs, Ended
<1>13. CASE \E a \in Apps : ReadBase(s, a)
  BY <1>0, <1>3, <1>6, <1>13 DEF ReadBase, Turn, Runs, Ended
<1>14. CASE \E a \in Apps : CreateApplication(s, a)
  BY <1>0, <1>3, <1>6, <1>14 DEF CreateApplication, Turn, Runs, Ended
<1> QED
  BY <1>4, <1>5, <1>7, <1>8, <1>9, <1>10, <1>11, <1>12, <1>13, <1>14, <1>15

\* What others do, and the operator.
LEMMA OutsideKnown ==
  ASSUME TypeInv, KnownInv,
         \/ LoseFile \/ RepairFile \/ Edit \/ UNCHANGED vars
         \/ \E a \in Apps : Remove(a) \/ \E img \in DeployImages : Deploy(a, img)
  PROVE  KnownInv'
<1>0. yaml \in Nat /\ versions \in [Apps -> Seq(Version)]
  BY HistoryAssumption DEF TypeInv, Typed
<1>1. run' = run /\ (file' = file \/ file' = EmptyFile) /\ yaml' \in Nat /\ yaml <= yaml'
  <2>1. CASE LoseFile \/ RepairFile
    BY <1>0, <2>1 DEF LoseFile, RepairFile, NoFile
  <2>2. CASE Edit \/ UNCHANGED vars
    BY <1>0, <2>2 DEF Edit, vars, disk
  <2>3. ASSUME NEW a \in Apps, Remove(a) \/ \E img \in DeployImages : Deploy(a, img)
        PROVE  UNCHANGED <<run, file, yaml>>
    BY <2>3 DEF Remove, Deploy, disk
  <2> QED
    BY <1>0, <2>1, <2>2, <2>3
<1>2. ASSUME NEW a \in Apps,
             versions'[a] # <<>> =>
               versions[a] # <<>> /\ \A c \in ApplicationSpec :
                                       Carries(Newest(a), c) => Carries(Newest(a)', c)
      PROVE  Known(a)'
  <2>1. EmptyFile[a] = NoEntry
    BY DEF EmptyFile
  <2>2. /\ \A e \in {file'[a]} \cup {run'[t].mem[a] : t \in Slots} :
             e = NoEntry \/ e = file[a] \/ \E t \in Slots : e = run[t].mem[a]
        /\ Known(a)
    BY <1>1, <2>1 DEF KnownInv
  <2> QED
    BY <1>1, <1>2, <2>2, KnownKept
<1>3. ASSUME NEW a \in Apps, versions'[a] = versions[a] PROVE Known(a)'
  BY <1>2, <1>3 DEF Newest
<1>4. CASE LoseFile \/ RepairFile \/ Edit \/ UNCHANGED vars
  <2>1. versions' = versions
    BY <1>4 DEF LoseFile, RepairFile, NoFile, Edit, vars, server
  <2> QED
    BY <1>3, <2>1 DEF KnownInv
<1>5. ASSUME NEW b \in Apps, Remove(b) PROVE KnownInv'
  <2>1. versions'[b] = <<>> /\ \A a \in Apps \ {b} : versions'[a] = versions[a]
    BY <1>0, <1>5 DEF Remove
  <2>2. ASSUME NEW a \in Apps PROVE Known(a)'
    BY <1>2, <1>3, <2>1
  <2> QED
    BY <2>2 DEF KnownInv
<1>6. ASSUME NEW b \in Apps, NEW img \in DeployImages, Deploy(b, img) PROVE KnownInv'
  <2> DEFINE v == [Newest(b) EXCEPT !.image = img]
  <2>1. versions[b] # <<>> /\ versions' = [versions EXCEPT ![b] = Append(@, v)]
    BY <1>6 DEF Deploy
  <2>2. Newest(b) \in Version /\ v \in Version
    BY NewestType, BoundsAssumption DEF TypeInv, Version, Opt
  <2>3. \A c \in ApplicationSpec : Carries(Newest(b), c) => Carries(v, c)
    BY <2>2, CarriesImage
  <2> HIDE DEF v
  <2>4. versions'[b] = Append(versions[b], v) /\ \A a \in Apps \ {b} : versions'[a] = versions[a]
    BY <1>0, <2>1
  <2>5. Len(versions'[b]) = Len(versions[b]) + 1 /\ versions'[b][Len(versions'[b])] = v
        /\ Len(versions[b]) \in Nat
    BY <1>0, <2>2, <2>4, AppendPosted
  <2>6. Newest(b)' = v
    BY <2>5 DEF Newest
  <2>7. Known(b)'
    BY <1>2, <2>1, <2>3, <2>6
  <2>8. ASSUME NEW a \in Apps PROVE Known(a)'
    BY <1>3, <2>4, <2>7
  <2> QED
    BY <2>8 DEF KnownInv
<1> QED
  BY <1>4, <1>5, <1>6

\* The command in slot s has posted for a what its YAML says.
LEMMA KnownGiven ==
  ASSUME OneCommand, TypeInv, HeldInv, KnownInv, NEW s \in Slots, run[s].pc \notin Ended,
         NEW a \in DOMAIN History[run[s].cfg], NEW kind,
         UNCHANGED <<yaml, file>>, run'[s].cfg = run[s].cfg,
         \/ run'[s].mem[a] = run[s].mem[a]
         \/ run'[s].mem[a] = Recorded(run[s].mem[a], History[run[s].cfg][a], kind),
         versions'[a] # <<>> => Carries(Newest(a), History[run[s].cfg][a])'
  PROVE  Known(a)'
<1> DEFINE i == run[s].cfg
<1>0. /\ i \in 1..Len(History) /\ i \in Nat /\ yaml \in Nat /\ i <= yaml /\ i \in 1..yaml
      /\ a \in Apps /\ \A t \in Slots : t = s
  BY RunFacts, HistoryAssumption DEF TypeInv, Typed, HeldInv, Held, OneCommand
<1>1. Numbered(file[a], a, i) /\ Numbered(run[s].mem[a], a, i)
  BY <1>0 DEF KnownInv, Known, Remembered
<1>2. Numbered(run'[s].mem[a], a, i)
  BY <1>0, <1>1, RecordedNumbered
<1>3. ASSUME NEW l \in Nat, i <= l PROVE Remembered(a, l)'
  <2>1. Numbered(file'[a], a, l) /\ Numbered(run'[s].mem[a], a, l)
    BY <1>0, <1>1, <1>2, <1>3, NumberedLater
  <2>2. \A t \in Slots : Numbered(run'[t].mem[a], a, l)
    BY <1>0, <2>1
  <2> QED
    BY <2>1, <2>2 DEF Remembered
<1>4. Remembered(a, i)'
  <2>1. Numbered(file'[a], a, i) /\ \A t \in Slots : Numbered(run'[t].mem[a], a, i)
    BY <1>0, <1>1, <1>2
  <2>2. run'[s].cfg = i
    OBVIOUS
  <2>3. Numbered(file'[a], a, run'[s].cfg) /\ \A t \in Slots : Numbered(run'[t].mem[a], a, run'[s].cfg)
    BY <2>1, <2>2
  <2> QED
    BY <2>3 DEF Remembered
<1>5. Remembered(a, yaml)'
  <2>1. Numbered(file'[a], a, yaml') /\ \A t \in Slots : Numbered(run'[t].mem[a], a, yaml')
    BY <1>0, <1>3 DEF Remembered
  <2> QED
    BY <2>1 DEF Remembered
<1>6. \A t \in Slots : Remembered(a, run[t].cfg)'
  BY <1>0, <1>4
<1>7. ASSUME versions'[a] # <<>> PROVE \E j \in 1..yaml' : Given(a, j)'
  <2>1. Carries(Newest(a)', History[i][a]) /\ \A t \in Slots : run'[t].cfg = i
    BY <1>0, <1>7
  <2>2. Numbered(file'[a], a, i) /\ \A t \in Slots : Numbered(run'[t].mem[a], a, i)
    BY <1>0, <1>1, <1>2
  <2>3. ASSUME NEW j, j = i PROVE Given(a, j)'
    <3>1. Remembered(a, j)'
      BY <2>2, <2>3 DEF Remembered
    <3>2. \A t \in Slots : run'[t].cfg = j /\ j <= run'[t].cfg
      BY <1>0, <2>1, <2>3
    <3> QED
      BY <2>1, <2>3, <3>1, <3>2 DEF Given
  <2> QED
    BY <1>0, <2>3
<1> QED
  BY <1>5, <1>6, <1>7 DEF Known

LEMMA WriteKnown ==
  ASSUME OneCommand, TypeInv, HeldInv, KnownInv, NEW s \in Slots, PostVersion(s) \/ Activate(s)
  PROVE  KnownInv'
<1>a. run[s].pc \in {"post", "activate"}
  BY DEF PostVersion, Activate
<1>b. PICK a \in DOMAIN History[run[s].cfg] : a = run[s].app
  BY <1>a, RunFacts
<1>c. PICK c \in ApplicationSpec : c = Cfg(s)[a]
  BY RunFacts
<1> DEFINE v == Store(BuildRequest(c, run[s].base), Newest(a))
<1>0. /\ run[s] \in Runs /\ run \in [Slots -> Runs] /\ run[s].pc \in {"post", "activate"}
      /\ UNCHANGED <<yaml, file>> /\ yaml \in Nat /\ versions \in [Apps -> Seq(Version)]
      /\ \A t \in Slots : t = s
  BY <1>a, RunFacts, HistoryAssumption
     DEF TypeInv, Typed, PostVersion, Activate, disk, OneCommand
<1>1. /\ a \in DOMAIN History[run[s].cfg] /\ a \in Apps /\ c = History[run[s].cfg][a]
      /\ c \in ApplicationSpec /\ run[s].pc \notin Ended
  BY <1>0, <1>c, RunFacts DEF Ended
<1>2. ASSUME NEW b \in Apps, run'[s].mem[b] \in {run[s].mem[b], EmptyFile[b]},
             versions'[b] = versions[b] \/ versions'[b] = <<>>,
             run'[s].pc \in Ended \/ run'[s].cfg = run[s].cfg,
             run'[s].pc = "activate" => run'[s].app # b
      PROVE  Known(b)'
  <2>1. EmptyFile[b] = NoEntry
    BY DEF EmptyFile
  <2>2. /\ \A e \in {file'[b]} \cup {run'[t].mem[b] : t \in Slots} :
             e = NoEntry \/ e = file[b] \/ \E t \in Slots : e = run[t].mem[b]
        /\ Known(b) /\ yaml' \in Nat /\ yaml <= yaml'
    BY <1>0, <1>2, <2>1 DEF KnownInv
  <2>3. versions'[b] # <<>> =>
          versions[b] # <<>> /\ \A d \in ApplicationSpec :
                                  Carries(Newest(b), d) => Carries(Newest(b)', d)
    BY <1>2 DEF Newest
  <2>4. \A t \in Slots : run'[t].pc \notin Ended =>
          (run[t].pc \notin Ended /\ run'[t].cfg = run[t].cfg) \/ run'[t].cfg = yaml
    BY <1>0, <1>1, <1>2
  <2>5. \A t \in Slots : run'[t].pc = "activate" /\ run'[t].app = b =>
          run[t].pc = "activate" /\ run[t].app = b /\ run'[t].cfg = run[t].cfg
    BY <1>0, <1>2
  <2> QED
    BY <2>2, <2>3, <2>4, <2>5, KnownKept
<1>3. CASE End(s, "failed") /\ UNCHANGED versions
  <2>1. run'[s].pc = "failed" /\ run'[s].mem = EmptyFile
    BY <1>0, <1>3 DEF End, Becomes, At
  <2>2. ASSUME NEW b \in Apps PROVE Known(b)'
    BY <1>2, <1>3, <2>1 DEF Ended
  <2> QED
    BY <2>2 DEF KnownInv
<1>4. Applied(s).cfg = run[s].cfg /\ Applied(s).pc = "apply"
      /\ Applied(s).mem = [run[s].mem EXCEPT ![a] = Recorded(@, c, run[s].plan[a])]
  BY <1>0, <1>b, <1>c, AppliedType
<1>5. ASSUME \A b \in Apps \ {a} : versions'[b] = versions[b],
             versions'[a] # <<>> => Carries(Newest(a)', c),
             \/ Becomes(s, Applied(s))
             \/ Becomes(s, [run[s] EXCEPT !.pc = "activate", !.made = Len(versions[a]) + 1])
      PROVE  KnownInv'
  <2>1. /\ run'[s].cfg = run[s].cfg
        /\ run'[s].pc = "activate" => run'[s].app = a
        /\ \/ run'[s].mem = run[s].mem
           \/ run'[s].mem = [run[s].mem EXCEPT ![a] = Recorded(@, c, run[s].plan[a])]
    <3>1. CASE Becomes(s, Applied(s))
      BY <1>0, <1>4, <3>1 DEF Becomes
    <3>2. CASE Becomes(s, [run[s] EXCEPT !.pc = "activate", !.made = Len(versions[a]) + 1])
      BY <1>0, <1>b, <3>2 DEF Becomes, Runs
    <3> QED
      BY <1>5, <3>1, <3>2
  <2>2. /\ run[s].mem \in [Apps -> Entry]
        /\ \A b \in Apps \ {a} : run'[s].mem[b] = run[s].mem[b]
        /\ \/ run'[s].mem[a] = run[s].mem[a]
           \/ run'[s].mem[a] = Recorded(run[s].mem[a], c, run[s].plan[a])
    <3>1. run[s].mem \in [Apps -> Entry]
      BY <1>0 DEF Runs
    <3> QED
      BY <1>1, <2>1, <3>1
  <2>3. Known(a)'
    <3>1. Carries(Newest(a), History[run[s].cfg][a])' <=> Carries(Newest(a)', c)
      BY <1>1, <2>1
    <3> QED
      BY <1>0, <1>1, <1>5, <2>1, <2>2, <3>1, KnownGiven
  <2>4. ASSUME NEW b \in Apps \ {a} PROVE Known(b)'
    BY <1>2, <1>5, <2>1, <2>2
  <2> QED
    BY <2>3, <2>4 DEF KnownInv
<1>6. CASE PostVersion(s) /\ Alive(a, run[s].id)
  <2>1. /\ versions' = [versions EXCEPT ![a] = Append(@, v)]
        /\ \/ Becomes(s, Applied(s))
           \/ Becomes(s, [run[s] EXCEPT !.pc = "activate", !.made = Len(versions[a]) + 1])
    BY <1>6, <1>b, <1>c DEF PostVersion
  <2>2. v \in Version /\ InSync(v, c)
    BY <1>6, <1>b, <1>c, PostedType DEF PostVersion
  <2> HIDE DEF v
  <2>3. Carries(v, c)
    BY <1>1, <2>2, CarriesImage
  <2>4. versions'[a] = Append(versions[a], v) /\ \A b \in Apps \ {a} : versions'[b] = versions[b]
    BY <1>0, <1>1, <2>1
  <2>5. Len(versions'[a]) = Len(versions[a]) + 1 /\ versions'[a][Len(versions'[a])] = v
    BY <1>0, <1>1, <2>2, <2>4, AppendPosted
  <2>6. versions'[a] # <<>> => Newest(a)' = v
    BY <2>5 DEF Newest
  <2> QED
    BY <1>5, <2>1, <2>3, <2>4, <2>6
<1>7. CASE Activate(s) /\ Alive(a, run[s].id)
  <2>1. versions' = versions /\ Becomes(s, Applied(s)) /\ run[s].pc = "activate"
    BY <1>7, <1>b DEF Activate
  <2>2. ASSUME versions[a] # <<>> PROVE Carries(Newest(a), c)
    <3>1. PICK i \in 1..yaml : Given(a, i)
      BY <1>1, <2>2 DEF KnownInv, Known
    <3> QED
      BY <1>1, <1>b, <2>1, <3>1 DEF Given
  <2>3. versions'[a] # <<>> => Carries(Newest(a)', c)
    BY <2>1, <2>2 DEF Newest
  <2> QED
    BY <1>5, <2>1, <2>3
<1> QED
  BY <1>3, <1>6, <1>7, <1>b DEF PostVersion, Activate

LEMMA InitKnown == Init => KnownInv
<1> SUFFICES ASSUME Init, NEW a \in Apps PROVE Known(a)
  BY DEF KnownInv
<1>1. /\ file[a] = NoEntry /\ versions[a] = <<>>
      /\ \A s \in Slots : run[s].mem[a] = NoEntry /\ run[s].pc \in Ended
  BY DEF Init, At, EmptyFile, Ended
<1> QED
  BY <1>1, EmptyNumbered DEF Known, Remembered

LEMMA StepKnown ==
  ASSUME OneCommand, TypeInv, HeldInv, KnownInv, [Next]_vars
  PROVE  KnownInv'
  BY CommandKnown, OutsideKnown, WriteKnown DEF Next, Command

LEMMA KnownVersions ==
  ASSUME OneCommand
  PROVE  Spec => [](TypeInv /\ HeldInv /\ WholeInv /\ FreshInv /\ KnownInv)
<1>1. KnownInv /\ TypeInv /\ HeldInv /\ [Next]_vars => KnownInv'
  BY StepKnown
<1> QED
  BY <1>1, FreshVersions, InitKnown, PTL DEF Spec

\* What compareVersion cannot see it may take from the state file: the number of a
\* password or of a secret stands for the content that the newest version carries.
LEMMA NothingUnseen ==
  ASSUME NumbersMoveOn, NEW a \in Apps,
         NEW i \in 1..Len(History), NEW l \in 1..Len(History), i <= l,
         a \in DOMAIN History[i], a \in DOMAIN History[l],
         NEW v \in Version, Carries(v, History[i][a]),
         NEW e, Numbered(e, a, i), ~Changed(Read(v), History[l][a], e)
  PROVE  InSync(v, History[l][a])
<1> DEFINE c == History[l][a]
           o == History[i][a]
<1>0. c \in ApplicationSpec /\ o \in ApplicationSpec /\ Validate(c)
  BY HistoryAssumption
<1>1. /\ Read(v).settings = v.settings /\ Read(v).image = v.image /\ Read(v).user = v.user
      /\ Read(v).env = Masked(v.env) /\ v.env \in [Keys -> Opt(EnvVar)]
  BY DEF Read, Version, EnvOf
<1>2. InSync(v, [o EXCEPT !.inheritImage = TRUE])
  BY DEF Carries
<1>3. /\ o.password = None \/ v.password = o.password
      /\ EnvInSync(v, o)
  <2>1. /\ [o EXCEPT !.inheritImage = TRUE].password = o.password
        /\ [o EXCEPT !.inheritImage = TRUE].env = o.env
    BY <1>0 DEF ApplicationSpec
  <2> HIDE DEF o
  <2> QED
    BY <1>2, <2>1 DEF InSync, EnvInSync
<1>4. ASSUME NEW j \in 1..i, a \in DOMAIN History[j]
      PROVE  LET old == History[j][a]
             IN  /\ (c.pwVersion # None /\ old.pwVersion = c.pwVersion) =>
                      o.pwVersion = c.pwVersion /\ o.password = c.password
                 /\ \A k \in Names(c.env) :
                      /\ ~c.env[k].secret => c.env[k].value # None
                      /\ (/\ c.env[k].secret /\ k \in Names(old.env) /\ old.env[k].secret
                          /\ old.env[k].secretVersion = c.env[k].secretVersion) =>
                           o.env[k] = c.env[k]
  <2>1. j \in 1..Len(History) /\ j <= i /\ \A n \in {j, i, l} : a \in DOMAIN History[n]
    BY <1>4, HistoryAssumption
  <2> QED
    BY <2>1, SMTT(30) DEF NumbersMoveOn
<1>5. i \in 1..i
  OBVIOUS
<1> HIDE DEF c, o
<1>6. /\ SettingChanges(Read(v), c) = {} /\ ~ImageChanged(Read(v), c)
      /\ Read(v).user = c.user /\ ~PasswordChanged(c, e)
      /\ \A k \in Keys : ~EnvChanged(Read(v), c, e, k)
  BY DEF Changed, c
<1>7. \A f \in Settings : c.settings[f] # None => v.settings[f] = c.settings[f]
  BY <1>1, <1>6 DEF SettingChanges
<1>8. c.inheritImage \/ c.image = None \/ v.image = c.image
  BY <1>1, <1>6 DEF ImageChanged
<1>9. c.password = None \/ v.password = c.password
  <2> SUFFICES ASSUME c.password # None PROVE v.password = c.password
    OBVIOUS
  <2>1. c.pwVersion # None /\ e.pw = c.pwVersion
    BY <1>0, <1>6 DEF Validate, PasswordChanged
  <2>2. PICK j \in 1..i : a \in DOMAIN History[j] /\ History[j][a].pwVersion = c.pwVersion
    BY <2>1 DEF Numbered
  <2>3. o.password = c.password
    BY <1>4, <2>1, <2>2
  <2> QED
    BY <1>3, <2>3
<1>10. Names(v.env) = Names(c.env)
  <2>1. ASSUME NEW k \in Keys PROVE Masked(v.env)[k] = None <=> v.env[k] = None
    <3>1. None # [secret |-> TRUE, value |-> None]
      <4>1. [secret |-> TRUE, value |-> None] \in [secret : BOOLEAN, value : Values \cup {None}]
        OBVIOUS
      <4> QED
        BY <4>1, NoneAssumption
    <3> QED
      BY <3>1 DEF Masked
  <2>2. Names(Masked(v.env)) = Names(v.env)
    BY <2>1 DEF Names
  <2> QED
    BY <1>1, <1>6, <2>2 DEF EnvChanged, Names
<1>11. ASSUME NEW k \in Names(c.env)
       PROVE  /\ v.env[k].secret = c.env[k].secret
              /\ (c.env[k].secret /\ c.env[k].value = None) \/ v.env[k].value = c.env[k].value
  <2>0. k \in Keys /\ k \in Names(v.env) /\ k \in Names(Masked(v.env)) /\ v.env[k] \in EnvVar
        /\ c.env[k] \in EnvVarConfig /\ ~EnvChanged(Read(v), c, e, k)
    <3>1. k \in Keys /\ k \in Names(v.env)
      BY <1>10 DEF Names
    <3>2. v.env[k] \in EnvVar
      BY <1>1, <3>1 DEF Names, Opt
    <3>3. c.env[k] \in EnvVarConfig
      BY <1>0 DEF ApplicationSpec, EnvOf, Names, Opt
    <3>4. k \in Names(Masked(v.env))
      BY <1>1, <1>6, <3>1 DEF EnvChanged
    <3> QED
      BY <1>6, <3>1, <3>2, <3>3, <3>4
  <2>1. CASE c.env[k].secret
    <3>1. e.sec[k] = c.env[k].secretVersion /\ c.env[k].secretVersion # None
      BY <1>0, <1>1, <2>0, <2>1 DEF EnvChanged, SecretVersionChanged, Validate
    <3>2. PICK j \in 1..i : /\ a \in DOMAIN History[j] /\ k \in Names(History[j][a].env)
                            /\ History[j][a].env[k].secret
                            /\ History[j][a].env[k].secretVersion = c.env[k].secretVersion
      BY <2>0, <3>1 DEF Numbered
    <3>3. o.env[k] = c.env[k]
      BY <1>4, <2>1, <3>2
    <3>4. k \in Names(o.env)
      BY <3>3 DEF Names
    <3> QED
      BY <1>3, <3>3, <3>4 DEF EnvInSync
  <2>2. CASE ~c.env[k].secret
    <3>1. Masked(v.env)[k].value = c.env[k].value
      BY <1>1, <2>0, <2>2 DEF EnvChanged
    <3>2. c.env[k].value # None
      BY <1>4, <1>5, <2>2 DEF o
    <3>3. ~v.env[k].secret
      BY <2>0, <3>1, <3>2 DEF Masked, Names
    <3>4. Masked(v.env)[k] = v.env[k]
      BY <2>0, <3>3 DEF Masked
    <3>5. v.env[k].secret = c.env[k].secret
      BY <2>0, <2>2, <3>3 DEF EnvVar, EnvVarConfig
    <3> QED
      BY <3>1, <3>4, <3>5
  <2> QED
    BY <2>1, <2>2
<1>12. EnvInSync(v, c)
  BY <1>10, <1>11 DEF EnvInSync
<1>13. InSync(v, c)
  BY <1>1, <1>6, <1>7, <1>8, <1>9, <1>12 DEF InSync
<1> QED
  BY <1>13 DEF c

\* The step that finds an application up to date.
LEMMA NoopPlanned ==
  ASSUME TypeInv, [Next]_vars, NEW s \in Slots, NEW a \in Apps,
         run[s].plan[a] # "noop", run'[s].plan[a] = "noop"
  PROVE  /\ run[s].pc = "plan" /\ a \in run[s].todo
         /\ \E cur \in Latest(a) : cur # NilVersion /\ ~Changed(cur, Cfg(s)[a], run[s].mem[a])
<1>0. run \in [Slots -> Runs] /\ run[s] \in Runs
  BY RunFacts DEF TypeInv, Typed
<1>1. ASSUME NEW t \in Slots, NEW r, Becomes(t, r), t = s => r.plan[a] # "noop" PROVE FALSE
  BY <1>0, <1>1 DEF Becomes
<1>2. ASSUME NEW t \in Slots, NEW pc, End(t, pc) PROVE FALSE
  <2>1. At(pc).plan[a] # "noop"
    BY DEF At
  <2> QED
    BY <1>1, <1>2, <2>1 DEF End
<1>3. ASSUME NEW t \in Slots, Start(t) \/ StartActivate(t) PROVE FALSE
  <2>1. ASSUME NEW opts \in BOOLEAN,
               Becomes(t, [At("load") EXCEPT !.cfg = yaml, !.opts = opts])
        PROVE  FALSE
    <3>1. [At("load") EXCEPT !.cfg = yaml, !.opts = opts].plan[a] = "none"
      BY DEF At
    <3> QED
      BY <1>1, <2>1, <3>1
  <2>2. [At("find") EXCEPT !.cfg = yaml].plan[a] = "none"
    BY DEF At
  <2> QED
    BY <1>1, <1>3, <2>1, <2>2 DEF Start, StartActivate
<1>4. ASSUME NEW t \in Slots, NEW r, Becomes(t, r), r.plan = run[t].plan PROVE FALSE
  BY <1>1, <1>4
<1>5. ASSUME NEW t \in Slots PROVE run[t] \in Runs
  BY RunFacts
<1>6. ASSUME NEW t \in Slots, ListForPlan(t) \/ ListForApply(t) \/ Approve(t) \/ SaveTruncate(t)
      PROVE  FALSE
  BY <1>4, <1>5, <1>6 DEF ListForPlan, ListForApply, Approve, SaveTruncate, Runs
<1>7. ASSUME NEW t \in Slots, LoadState(t) \/ Decide(t) \/ FinishApply(t) \/ ResolveLatest(t)
      PROVE  FALSE
  BY <1>2, <1>4, <1>5, <1>7 DEF LoadState, Decide, FinishApply, ResolveLatest, Runs
<1>8. ASSUME NEW t \in Slots,
             Cancel(t) \/ Abandon(t) \/ SetActive(t) \/ Fail(t) \/ SaveWrite(t)
      PROVE  FALSE
  BY <1>2, <1>8 DEF Cancel, Abandon, SetActive, Fail, SaveWrite
<1>9. ASSUME NEW t \in Slots, NEW b \in Apps, FindApplication(t, b) \/ ReadBase(t, b) PROVE FALSE
  BY <1>2, <1>4, <1>5, <1>9 DEF FindApplication, ReadBase, Runs
<1>10. ASSUME NEW t \in Slots, NEW b \in Apps, CreateApplication(t, b) \/ ApplyNoop(t, b)
       PROVE  FALSE
  BY <1>2, <1>4, <1>5, <1>10 DEF CreateApplication, ApplyNoop, Runs
<1>11. ASSUME NEW t \in Slots, PostVersion(t) \/ Activate(t) PROVE FALSE
  <2>1. Applied(t).plan = run[t].plan
    BY <1>5 DEF Applied, Runs
  <2>2. [run[t] EXCEPT !.pc = "activate", !.made = Len(versions[run[t].app]) + 1].plan = run[t].plan
    BY <1>5 DEF Runs
  <2> QED
    BY <1>2, <1>4, <1>11, <2>1, <2>2 DEF PostVersion, Activate
<1>12. ASSUME LoseFile \/ RepairFile \/ Edit \/ UNCHANGED vars PROVE FALSE
  BY <1>12 DEF LoseFile, RepairFile, NoFile, Edit, vars
<1>13. ASSUME NEW b \in Apps, Remove(b) \/ \E img \in DeployImages : Deploy(b, img) PROVE FALSE
  BY <1>13 DEF Remove, Deploy
<1>14. PICK t \in Slots, b \in Apps : PlanCreate(t, b) \/ PlanUpdate(t, b)
  BY <1>3, <1>6, <1>7, <1>8, <1>9, <1>10, <1>11, <1>12, <1>13 DEF Next, Command
<1>15. PICK kind : Planned(t, b, kind) /\ run[t].pc = "plan" /\ b \in run[t].todo
                   /\ (kind = "create" \/ \E cur \in Latest(b) :
                         kind = IF cur = NilVersion \/ Changed(cur, Cfg(t)[b], run[t].mem[b])
                                THEN "update" ELSE "noop")
  BY <1>2, <1>14 DEF PlanCreate, PlanUpdate
<1>16. t = s /\ b = a /\ kind = "noop"
  <2>1. [run[t] EXCEPT !.plan[b] = kind, !.todo = @ \ {b}].plan = [run[t].plan EXCEPT ![b] = kind]
        /\ run[t].plan \in [Apps -> Kinds]
    BY <1>5 DEF Runs
  <2>2. t = s => [run[t].plan EXCEPT ![b] = kind][a] = "noop"
    BY <1>1, <1>15, <2>1 DEF Planned
  <2>3. t = s
    BY <1>1, <1>15 DEF Planned
  <2> QED
    BY <2>1, <2>2, <2>3
<1> QED
  BY <1>15, <1>16

\* It is up to date: KnownInv says which YAML its newest version has all of.
LEMMA NoopGrounded ==
  ASSUME NumbersMoveOn, MaxVersions <= PageSize, TypeInv, HeldInv, WholeInv, KnownInv, [Next]_vars,
         NEW s \in Slots, NEW a \in Apps,
         run[s].plan[a] # "noop", run'[s].plan[a] = "noop"
  PROVE  versions[a] # <<>> /\ InSync(Newest(a), Cfg(s)[a])
<1>1. /\ run[s].pc = "plan" /\ a \in run[s].todo
      /\ \E cur \in Latest(a) : cur # NilVersion /\ ~Changed(cur, Cfg(s)[a], run[s].mem[a])
  BY NoopPlanned
<1>2. PICK n \in LatestOf(a) : /\ n # 0
                               /\ ~Changed(Read(versions[a][n]), Cfg(s)[a], run[s].mem[a])
  BY <1>1 DEF Latest
<1>3. versions[a] \in Seq(Version) /\ Len(versions[a]) \in Nat /\ Len(versions[a]) <= MaxVersions
  BY LenProperties DEF TypeInv, Typed, WholeInv
<1>4. n = Len(versions[a])
  BY <1>2, <1>3, BoundsAssumption DEF LatestOf
<1>5. versions[a] # <<>> /\ Newest(a) = versions[a][n] /\ Newest(a) \in Version
  <2>1. versions[a] # <<>>
    BY <1>2, <1>4
  <2> QED
    BY <1>4, <2>1, NewestType DEF Newest, TypeInv
<1>6. PICK i \in 1..yaml : Given(a, i)
  BY <1>1, <1>5 DEF KnownInv, Known
<1>7. /\ yaml \in 1..Len(History) /\ run[s].cfg \in 1..Len(History)
      /\ a \in DOMAIN History[run[s].cfg] /\ Cfg(s) = History[run[s].cfg]
  BY <1>1, RunFacts DEF TypeInv, Typed
<1>8. /\ i \in 1..Len(History) /\ i <= run[s].cfg /\ a \in DOMAIN History[i]
      /\ Carries(Newest(a), History[i][a]) /\ Numbered(run[s].mem[a], a, i)
  BY <1>1, <1>6, <1>7, HistoryAssumption DEF Given, Remembered, Ended
<1> QED
  BY <1>2, <1>5, <1>7, <1>8, NothingUnseen

\* An application that a plan calls up to date is: with one command at a time, pages
\* that hold all versions and numbers that move on, planUpdate (sync.go:384-411) may
\* trust the state file for what the API does not return, wherever earlier applies
\* failed between a post and the save, and whatever the CI deployed, was removed or lost.
THEOREM NoopsInSync ==
  ASSUME OneCommand, NumbersMoveOn, MaxVersions <= PageSize
  PROVE  Spec => NoopIsInSync
<1>1. ASSUME TypeInv, HeldInv, WholeInv, KnownInv, [Next]_vars, NEW s \in Slots, NEW a \in Apps,
             run[s].plan[a] # "noop", run'[s].plan[a] = "noop"
      PROVE  InSync(Newest(a), Cfg(s)[a])
  BY <1>1, NoopGrounded
<1>2. TypeInv /\ HeldInv /\ WholeInv /\ KnownInv /\ [Next]_vars =>
        [\A s \in Slots, a \in Apps :
           run[s].plan[a] # "noop" /\ run'[s].plan[a] = "noop" =>
             InSync(Newest(a), Cfg(s)[a])]_vars
  BY <1>1
<1> QED
  BY <1>2, KnownVersions, PTL DEF Spec, NoopIsInSync

-----------------------------------------------------------------------------
\* What an apply that completes has achieved.  With one command at a time, and nothing
\* deleted in the console, every application that the plan calls up to date, and every
\* one that the loop of Apply is through with, is as compareVersion wants it.

\* What compareVersion compares with the version, but for the image ...
Shows(v, c) ==
  /\ \A f \in Settings : v.settings[f] = c.settings[f]
  /\ v.user = c.user
  /\ Names(v.env) = Names(c.env)
  /\ \A k \in Names(c.env) : ~c.env[k].secret => Masked(v.env)[k].value = c.env[k].value

\* ... and with the state file.
Tallies(e, c) ==
  /\ e.pw = c.pwVersion
  /\ \A k \in Names(c.env) : c.env[k].secret => ~SecretVersionChanged(c, e, k)

There(a, c, vs, ex) == a \in ex /\ vs[a] # <<>> /\ Shows(vs[a][Len(vs[a])], c)

Done(r, a, vs, ex) ==
  /\ a \in DOMAIN History[r.cfg]
  /\ There(a, History[r.cfg][a], vs, ex) /\ Tallies(r.mem[a], History[r.cfg][a])

\* How far the command r has come.
Tracks(r, vs, ex) ==
  /\ \A a \in Apps : r.plan[a] = "noop" => Done(r, a, vs, ex)
  /\ r.pc \in {"apply", "post", "activate", "save", "write"} =>
       \A a \in DOMAIN History[r.cfg] : a \notin r.todo => Done(r, a, vs, ex)
  /\ r.pc \in {"save", "write"} => r.todo = {}
  /\ r.pc \in {"post", "activate"} => r.app \in r.todo /\ r.plan[r.app] # "noop"
  /\ r.pc = "activate" => There(r.app, History[r.cfg][r.app], vs, ex)
  /\ r.pc \in {"load", "list"} => \A a \in Apps : r.plan[a] = "none"
  /\ r.pc = "plan" => \A a \in r.todo : r.known[a] = 0 => r.mem[a].pw = None
  /\ \A a \in Apps : r.plan[a] = "create" /\ (r.pc \in {"plan", "approve", "relist"} \/ a \in r.todo) =>
       r.mem[a].pw = None

\* Nothing in a version is left out by the YAML files from now on, or from that of the
\* command in progress.
Within(v, c) ==
  /\ \A f \in Settings : v.settings[f] # None => c.settings[f] # None
  /\ v.user # None => c.user # None
  /\ Names(v.env) # {} => Names(c.env) # {}

Sober ==
  \A a \in Apps : \A j \in 1..Len(versions[a]) : \A l \in 1..Len(History) :
    a \in DOMAIN History[l] /\ (yaml <= l \/ \E s \in Slots : run[s].pc \notin Ended /\ run[s].cfg <= l) =>
      Within(versions[a][j], History[l][a])

Clean(r) == r.pc \in Ended \cup {"load", "find", "latest", "set"} \/ r.dirty \/ r.mem = file

TrackInv ==
  /\ \A a \in exists : born[a] # 0
  /\ \A s \in Slots : Clean(run[s])
  /\ Sober
  /\ count.removes = 0 => \A s \in Slots : Tracks(run[s], versions, exists)

LEMMA MaskedNames ==
  ASSUME NEW v \in Version
  PROVE  Names(Masked(v.env)) = Names(v.env)
<1>1. None # [secret |-> TRUE, value |-> None]
  <2>1. [secret |-> TRUE, value |-> None] \in [secret : BOOLEAN, value : Values \cup {None}]
    OBVIOUS
  <2> QED
    BY <2>1, NoneAssumption
<1>2. ASSUME NEW k \in Keys PROVE Masked(v.env)[k] = None <=> v.env[k] = None
  BY <1>1 DEF Masked
<1> QED
  BY <1>2 DEF Names

LEMMA ReadFields ==
  ASSUME NEW v \in Version
  PROVE  /\ Read(v).settings = v.settings /\ Read(v).image = v.image /\ Read(v).user = v.user
         /\ Read(v).env = Masked(v.env)
  BY DEF Read, Version

\* Shows and Tallies are what compareVersion looks at.
LEMMA UnchangedShows ==
  ASSUME NEW v \in Version, NEW c \in ApplicationSpec, NEW e, ~Changed(Read(v), c, e)
  PROVE  Shows(v, c) /\ Tallies(e, c)
<1>1. /\ SettingChanges(Read(v), c) = {} /\ Read(v).user = c.user /\ e.pw = c.pwVersion
      /\ \A k \in Keys : ~EnvChanged(Read(v), c, e, k)
  BY DEF Changed, PasswordChanged
<1>2. Names(v.env) = Names(c.env)
  <2>1. \A k \in Keys : k \in Names(c.env) <=> k \in Names(Masked(v.env))
    BY <1>1, ReadFields DEF EnvChanged
  <2> QED
    BY <2>1, MaskedNames DEF Names
<1>3. ASSUME NEW k \in Names(c.env)
      PROVE  /\ ~c.env[k].secret => Masked(v.env)[k].value = c.env[k].value
             /\ c.env[k].secret => ~SecretVersionChanged(c, e, k)
  <2>1. k \in Keys /\ k \in Names(Masked(v.env))
    BY <1>2, <1>3, MaskedNames DEF Names
  <2> QED
    BY <1>1, <1>3, <2>1, ReadFields DEF EnvChanged
<1>4. \A f \in Settings : v.settings[f] = c.settings[f]
  BY <1>1, ReadFields DEF SettingChanges
<1> QED
  BY <1>1, <1>2, <1>3, <1>4, ReadFields DEF Shows, Tallies

LEMMA ShowsUnchanged ==
  ASSUME NEW v \in Version, NEW c \in ApplicationSpec, NEW e, Shows(v, c), Tallies(e, c)
  PROVE  ~Changed(Read(v), [c EXCEPT !.inheritImage = TRUE], e)
<1> DEFINE d == [c EXCEPT !.inheritImage = TRUE]
<1>1. /\ d.inheritImage /\ d.settings = c.settings /\ d.user = c.user
      /\ d.pwVersion = c.pwVersion /\ d.env = c.env
  BY DEF ApplicationSpec
<1> HIDE DEF d
<1>2. SettingChanges(Read(v), d) = {} /\ ~ImageChanged(Read(v), d) /\ Read(v).user = d.user
  BY <1>1, ReadFields DEF Shows, SettingChanges, ImageChanged
<1>3. ASSUME NEW k \in Keys PROVE ~EnvChanged(Read(v), d, e, k)
  <2>1. SecretVersionChanged(d, e, k) = SecretVersionChanged(c, e, k)
    BY <1>1 DEF SecretVersionChanged
  <2>2. Names(Read(v).env) = Names(d.env) /\ Read(v).env = Masked(v.env)
    BY <1>1, MaskedNames, ReadFields DEF Shows
  <2> QED
    BY <1>1, <2>1, <2>2 DEF EnvChanged, Shows, Tallies
<1>4. ~PasswordChanged(d, e)
  BY <1>1 DEF PasswordChanged, Tallies
<1>5. ~Changed(Read(v), d, e)
  BY <1>2, <1>3, <1>4 DEF Changed
<1> QED
  BY <1>5 DEF d

\* A new version built on one that has nothing else shows what the YAML says.
LEMMA StoreShows ==
  ASSUME NEW c \in ApplicationSpec, NEW b \in Version, NEW prev \in Version, Within(b, c)
  PROVE  Shows(Store(BuildRequest(c, b), prev), c)
<1> DEFINE v == Store(BuildRequest(c, b), prev)
<1>0. v \in Version
  BY StoreType
<1>1. \A f \in Settings : v.settings[f] = c.settings[f]
  BY DEF Store, BuildRequest, Within
<1>2. v.user = c.user
  BY DEF Store, BuildRequest, Within
<1>3. v.env = StoredEnv(BuildEnv(c, b), prev.env)
  BY DEF Store, BuildRequest
<1> HIDE DEF v
<1>4. EnvInSync(v, c)
  BY <1>3, EnvInSyncStore
<1>5. CASE Names(c.env) = {}
  <2>1. Names(Masked(b.env)) = {}
    BY <1>5, MaskedNames DEF Within
  <2>2. BuildEnv(c, b) = Masked(b.env)
    BY <1>5 DEF BuildEnv
  <2>3. \A k \in Keys : v.env[k] = None
    BY <1>3, <2>1, <2>2 DEF StoredEnv, Names
  <2>4. Names(v.env) = {}
    BY <2>3 DEF Names
  <2> QED
    BY <1>1, <1>2, <1>5, <2>4 DEF Shows, v
<1>6. CASE Names(c.env) # {}
  <2>1. Names(v.env) = Names(c.env)
    BY <1>4, <1>6 DEF EnvInSync
  <2>2. ASSUME NEW k \in Names(c.env), ~c.env[k].secret
        PROVE  Masked(v.env)[k].value = c.env[k].value
    <3>1. v.env[k].secret = c.env[k].secret /\ v.env[k].value = c.env[k].value /\ k \in Keys
      BY <1>4, <1>6, <2>2 DEF EnvInSync, Names
    <3>2. Masked(v.env)[k] = v.env[k]
      BY <2>2, <3>1 DEF Masked
    <3> QED
      BY <3>1, <3>2
  <2> QED
    BY <1>1, <1>2, <2>1, <2>2 DEF Shows, v
<1> QED
  BY <1>5, <1>6

LEMMA RecordedTallies ==
  ASSUME NEW c \in ApplicationSpec, NEW e \in Entry, NEW kind, kind = "create" => e.pw = None
  PROVE  Tallies(Recorded(e, c, kind), c)
<1>1. Recorded(e, c, kind).pw = c.pwVersion
  BY DEF Recorded, RecordPw
<1>2. ASSUME NEW k \in Names(c.env), c.env[k].secret
      PROVE  ~SecretVersionChanged(c, Recorded(e, c, kind), k)
  BY <1>2 DEF SecretVersionChanged, Recorded, RecordSec, Names
<1> QED
  BY <1>1, <1>2 DEF Tallies

\* Of its image none of this speaks.
LEMMA ImageAside ==
  ASSUME NEW v \in Version, NEW img, NEW c
  PROVE  /\ Shows(v, c) => Shows([v EXCEPT !.image = img], c)
         /\ Within(v, c) => Within([v EXCEPT !.image = img], c)
<1> DEFINE w == [v EXCEPT !.image = img]
<1>1. w.settings = v.settings /\ w.user = v.user /\ w.env = v.env
  BY DEF Version
<1> HIDE DEF w
<1>2. (Shows(v, c) => Shows(w, c)) /\ (Within(v, c) => Within(w, c))
  BY <1>1 DEF Shows, Within
<1> QED
  BY <1>2 DEF w

LEMMA NilWithin ==
  ASSUME NEW c
  PROVE  Within(NilVersion, c)
  BY DEF Within, NilVersion, NoEnv, Names

LEMMA ReadWithin ==
  ASSUME NEW v \in Version, NEW c, Within(v, c)
  PROVE  Within(Read(v), c)
  BY ReadFields, MaskedNames DEF Within

LEMMA WithinLater ==
  ASSUME NothingOmitted, NEW i \in 1..Len(History), NEW l \in 1..Len(History), i <= l,
         NEW a, a \in DOMAIN History[i], a \in DOMAIN History[l],
         NEW v, Within(v, History[i][a])
  PROVE  Within(v, History[l][a])
<1>1. Keeps(History[i][a], History[l][a])
  BY DEF NothingOmitted
<1> QED
  BY <1>1 DEF Keeps, Within

-----------------------------------------------------------------------------
\* How a command goes on.

Follows(s) ==
  \E r : Becomes(s, r) /\ Clean(r) /\ (count.removes = 0 => Tracks(r, versions', exists'))

LEMMA TracksFree ==
  ASSUME NEW r, NEW vs, NEW ex, \A a \in Apps : r.plan[a] = "none",
         r.pc \in Ended \cup {"load", "list", "find"}
  PROVE  Tracks(r, vs, ex)
BY DEF Tracks, Ended

LEMMA EndFollows ==
  ASSUME NEW s \in Slots, NEW pc \in Ended, End(s, pc)
  PROVE  Follows(s)
<1>1. At(pc).pc = pc /\ \A a \in Apps : At(pc).plan[a] = "none"
  BY DEF At
<1>2. Tracks(At(pc), versions', exists') /\ Clean(At(pc))
  BY <1>1, TracksFree DEF Clean
<1> QED
  BY <1>2 DEF End, Follows

LEMMA StartFollows ==
  ASSUME NEW s \in Slots, Start(s) \/ StartActivate(s)
  PROVE  Follows(s)
<1>1. ASSUME NEW opts \in BOOLEAN,
             Becomes(s, [At("load") EXCEPT !.cfg = yaml, !.opts = opts])
      PROVE  Follows(s)
  <2> DEFINE r == [At("load") EXCEPT !.cfg = yaml, !.opts = opts]
  <2>1. r.pc = "load" /\ \A a \in Apps : r.plan[a] = "none"
    BY DEF At
  <2> HIDE DEF r
  <2>2. Tracks(r, versions', exists') /\ Clean(r)
    BY <2>1, TracksFree DEF Clean
  <2> QED
    BY <1>1, <2>2 DEF Follows, r
<1>2. ASSUME Becomes(s, [At("find") EXCEPT !.cfg = yaml]) PROVE Follows(s)
  <2> DEFINE r == [At("find") EXCEPT !.cfg = yaml]
  <2>1. r.pc = "find" /\ \A a \in Apps : r.plan[a] = "none"
    BY DEF At
  <2> HIDE DEF r
  <2>2. Tracks(r, versions', exists') /\ Clean(r)
    BY <2>1, TracksFree DEF Clean
  <2> QED
    BY <1>2, <2>2 DEF Follows, r
<1> QED
  BY <1>1, <1>2 DEF Start, StartActivate

LEMMA LoadFollows ==
  ASSUME TypeInv, TrackInv, NEW s \in Slots, LoadState(s)
  PROVE  Follows(s)
<1>1. CASE fileOk
  <2> DEFINE r == [run[s] EXCEPT !.pc = "list", !.mem = file]
  <2>1. r.pc = "list" /\ r.mem = file /\ r.plan = run[s].plan
    BY RunFacts DEF Runs
  <2>2. Becomes(s, r) /\ run[s].pc = "load"
    BY <1>1 DEF LoadState
  <2> HIDE DEF r
  <2>3. ASSUME count.removes = 0 PROVE Tracks(r, versions', exists')
    <3>1. \A a \in Apps : r.plan[a] = "none"
      BY <2>1, <2>2, <2>3 DEF TrackInv, Tracks
    <3> QED
      BY <2>1, <3>1, TracksFree
  <2> QED
    BY <2>1, <2>2, <2>3 DEF Follows, Clean
<1>2. CASE ~fileOk
  BY <1>2, EndFollows DEF LoadState, Ended
<1> QED
  BY <1>1, <1>2

\* The service has what it had, and more.
LEMMA DoneStays ==
  ASSUME NEW r, NEW a, NEW vs, NEW ex, NEW vs2, NEW ex2, NEW q, Done(r, a, vs, ex),
         vs2[a] = vs[a], ex \subseteq ex2, q.cfg = r.cfg, q.mem[a] = r.mem[a]
  PROVE  Done(q, a, vs2, ex2)
BY DEF Done, There

\* Steps that change only the phase.
LEMMA TracksOn ==
  ASSUME NEW r, NEW q, NEW vs, NEW ex, Tracks(r, vs, ex),
         q.cfg = r.cfg, q.plan = r.plan, q.mem = r.mem, q.todo = r.todo,
         \/ r.pc = "plan" /\ q.pc = "approve"
         \/ r.pc = "approve" /\ q.pc = "relist"
         \/ r.pc = "apply" /\ r.todo = {} /\ q.pc = "save"
         \/ r.pc = "save" /\ q.pc = "write"
         \/ q.pc \in {"latest", "set"}
  PROVE  Tracks(q, vs, ex)
<1>1. \A a : Done(r, a, vs, ex) => Done(q, a, vs, ex)
  BY DEF Done
<1> QED
  BY <1>1 DEF Tracks

LEMMA PhaseFollows ==
  ASSUME TypeInv, TrackInv, NEW s \in Slots,
         \/ Decide(s) \/ Approve(s) \/ Cancel(s) \/ Abandon(s) \/ FinishApply(s)
         \/ SaveTruncate(s) \/ SaveWrite(s) \/ Fail(s) \/ ResolveLatest(s) \/ SetActive(s)
         \/ \E a \in Apps : FindApplication(s, a)
  PROVE  Follows(s)
<1>0. run[s] \in Runs
  BY RunFacts
<1>1. ASSUME UNCHANGED <<versions, exists>>, NEW q, Becomes(s, q),
             q.cfg = run[s].cfg, q.plan = run[s].plan, q.mem = run[s].mem, q.todo = run[s].todo,
             q.dirty = run[s].dirty,
             \/ run[s].pc = "plan" /\ q.pc = "approve"
             \/ run[s].pc = "approve" /\ q.pc = "relist"
             \/ run[s].pc = "apply" /\ run[s].todo = {} /\ q.pc = "save"
             \/ run[s].pc = "save" /\ q.pc = "write"
             \/ q.pc \in {"latest", "set"}
      PROVE  Follows(s)
  <2>1. count.removes = 0 => Tracks(q, versions', exists')
    BY <1>1, TracksOn DEF TrackInv
  <2>2. Clean(q)
    BY <1>1 DEF TrackInv, Clean, Ended
  <2> QED
    BY <1>1, <2>1, <2>2 DEF Follows
<1>2. ASSUME NEW pc \in Ended, End(s, pc) PROVE Follows(s)
  BY <1>2, EndFollows
<1>3. CASE Cancel(s) \/ Abandon(s) \/ Fail(s) \/ SaveWrite(s) \/ SetActive(s)
  BY <1>2, <1>3 DEF Cancel, Abandon, Fail, SaveWrite, SetActive, Ended
<1>4. CASE Decide(s)
  BY <1>0, <1>1, <1>2, <1>4 DEF Decide, server, Runs, Ended
<1>5. CASE Approve(s)
  BY <1>0, <1>1, <1>5 DEF Approve, server, Runs
<1>6. CASE FinishApply(s)
  BY <1>0, <1>1, <1>2, <1>6 DEF FinishApply, server, Runs, Ended
<1>7. CASE SaveTruncate(s)
  BY <1>0, <1>1, <1>7 DEF SaveTruncate, server, Runs
<1>8. CASE ResolveLatest(s)
  BY <1>0, <1>1, <1>2, <1>8 DEF ResolveLatest, server, Runs, Ended
<1>9. CASE \E a \in Apps : FindApplication(s, a)
  BY <1>0, <1>1, <1>2, <1>9 DEF FindApplication, server, Runs, Ended
<1> QED
  BY <1>3, <1>4, <1>5, <1>6, <1>7, <1>8, <1>9

\* What is not there has no number of a password in the state file.
LEMMA NotThere ==
  ASSUME SafeInv, FreshInv, count.removes = 0, NEW s \in Slots, NEW a \in Apps, a \notin exists
  PROVE  run[s].mem[a].pw = None
<1>1. versions[a] = <<>> /\ Truthful(versions[a], a, run[s].mem[a])
  BY DEF SafeInv, MemoryBehind, FreshInv
<1> QED
  BY <1>1 DEF Truthful, PasswordPosted, Posted

LEMMA ListFollows ==
  ASSUME TypeInv, SafeInv, FreshInv, TrackInv, NEW s \in Slots,
         ListForPlan(s) \/ ListForApply(s)
  PROVE  Follows(s)
<1>0. run[s] \in Runs /\ UNCHANGED <<versions, exists>> /\ Wanted(s) = DOMAIN History[run[s].cfg]
      /\ Wanted(s) \subseteq Apps
  BY RunFacts DEF ListForPlan, ListForApply, server, Wanted
<1>1. PICK q : /\ Becomes(s, q)
               /\ \/ /\ run[s].pc = "list"
                     /\ q = [run[s] EXCEPT !.pc = "plan", !.known = IDs, !.todo = Wanted(s)]
                  \/ /\ run[s].pc = "relist"
                     /\ q = [run[s] EXCEPT !.pc = "apply", !.known = IDs, !.todo = Wanted(s)]
  BY DEF ListForPlan, ListForApply
<1>11. /\ q.known = IDs /\ q.todo = Wanted(s)
       /\ q.cfg = run[s].cfg /\ q.plan = run[s].plan /\ q.mem = run[s].mem
       /\ q.dirty = run[s].dirty
       /\ \/ run[s].pc = "list" /\ q.pc = "plan"
          \/ run[s].pc = "relist" /\ q.pc = "apply"
  BY <1>0, <1>1 DEF Runs
<1>2. ASSUME count.removes = 0 PROVE Tracks(q, versions, exists)
  <2>1. Tracks(run[s], versions, exists)
    BY <1>2 DEF TrackInv
  <2>2. \A a : Done(run[s], a, versions, exists) => Done(q, a, versions, exists)
    BY <1>11 DEF Done
  <2>3. \A a \in Wanted(s) : q.known[a] = 0 => q.mem[a].pw = None
    <3>1. \A a \in Apps : IDs[a] = 0 => a \notin exists
      BY DEF IDs, TrackInv
    <3> QED
      BY <1>0, <1>11, <1>2, <3>1, NotThere
  <2>4. CASE q.pc = "apply"
    BY <1>0, <1>11, <2>1, <2>2, <2>4 DEF Tracks
  <2>5. CASE q.pc = "plan"
    <3>1. \A a \in Apps : q.plan[a] = "create" => q.mem[a].pw = None
      BY <1>11, <2>1, <2>5 DEF Tracks
    <3> QED
      BY <1>11, <2>1, <2>2, <2>3, <2>5, <3>1 DEF Tracks
  <2> QED
    BY <1>11, <2>4, <2>5
<1>3. Clean(q)
  BY <1>11 DEF TrackInv, Clean, Ended
<1> QED
  BY <1>0, <1>1, <1>2, <1>3 DEF Follows

LEMMA TurnFollows ==
  ASSUME TypeInv, TrackInv, NEW s \in Slots, NEW a \in Apps,
         ApplyNoop(s, a) \/ PlanCreate(s, a) \/ ReadBase(s, a)
  PROVE  Follows(s)
<1>0. run[s] \in Runs /\ UNCHANGED <<versions, exists>>
  BY RunFacts DEF ApplyNoop, PlanCreate, ReadBase, server
<1>1. CASE ApplyNoop(s, a)
  <2>1. PICK q : /\ Becomes(s, q) /\ q.pc = "apply" /\ q.todo = run[s].todo \ {a}
                 /\ q.cfg = run[s].cfg /\ q.plan = run[s].plan /\ q.mem = run[s].mem
                 /\ q.dirty = run[s].dirty
    <3>1. PICK q : Becomes(s, q) /\ q = [run[s] EXCEPT !.todo = @ \ {a}] /\ run[s].pc = "apply"
      BY <1>1 DEF ApplyNoop, Turn
    <3>2. /\ q.pc = "apply" /\ q.todo = run[s].todo \ {a}
          /\ q.cfg = run[s].cfg /\ q.plan = run[s].plan /\ q.mem = run[s].mem
          /\ q.dirty = run[s].dirty
      BY <1>0, <3>1 DEF Runs
    <3> QED
      BY <3>1, <3>2
  <2>2. run[s].pc = "apply" /\ run[s].plan[a] = "noop"
    BY <1>1 DEF ApplyNoop, Turn
  <2>3. \A b : Done(run[s], b, versions, exists) => Done(q, b, versions, exists)
    BY <2>1 DEF Done
  <2>4. Tracks(run[s], versions, exists) => Tracks(q, versions, exists)
    BY <2>1, <2>2, <2>3 DEF Tracks
  <2>5. Clean(q)
    BY <2>1, <2>2 DEF TrackInv, Clean, Ended
  <2> QED
    BY <1>0, <2>1, <2>4, <2>5 DEF Follows, TrackInv
<1>2. CASE PlanCreate(s, a)
  <2>1. /\ run[s].pc = "plan" /\ a \in run[s].todo /\ run[s].known[a] = 0
        /\ run[s].plan \in [Apps -> Kinds]
    BY <1>0, <1>2 DEF PlanCreate, Runs
  <2>2. PICK q : /\ Becomes(s, q) /\ q.pc = "plan" /\ q.todo = run[s].todo \ {a}
                 /\ q.cfg = run[s].cfg /\ q.plan = [run[s].plan EXCEPT ![a] = "create"]
                 /\ q.mem = run[s].mem /\ q.dirty = run[s].dirty /\ q.known = run[s].known
    <3>1. PICK q : Becomes(s, q) /\ q = [run[s] EXCEPT !.plan[a] = "create", !.todo = @ \ {a}]
      BY <1>2 DEF PlanCreate, Planned
    <3>2. /\ q.pc = "plan" /\ q.todo = run[s].todo \ {a}
          /\ q.cfg = run[s].cfg /\ q.plan = [run[s].plan EXCEPT ![a] = "create"]
          /\ q.mem = run[s].mem /\ q.dirty = run[s].dirty /\ q.known = run[s].known
      BY <1>0, <2>1, <3>1 DEF Runs
    <3> QED
      BY <3>1, <3>2
  <2>3. \A b : Done(run[s], b, versions, exists) => Done(q, b, versions, exists)
    BY <2>2 DEF Done
  <2>4. Tracks(run[s], versions, exists) => Tracks(q, versions, exists)
    BY <2>1, <2>2, <2>3 DEF Tracks
  <2>5. Clean(q)
    BY <2>1, <2>2 DEF TrackInv, Clean, Ended
  <2> QED
    BY <1>0, <2>2, <2>4, <2>5 DEF Follows, TrackInv
<1>3. CASE ReadBase(s, a)
  <2>1. run[s].pc = "apply" /\ a \in run[s].todo /\ run[s].plan[a] = "update"
    BY <1>3 DEF ReadBase, Turn
  <2>2. ASSUME NEW b,
               Becomes(s, [run[s] EXCEPT !.pc = "post", !.app = a, !.id = run[s].known[a],
                                         !.base = b])
        PROVE  Follows(s)
    <3>1. PICK q : /\ Becomes(s, q) /\ q.pc = "post" /\ q.todo = run[s].todo /\ q.app = a
                   /\ q.cfg = run[s].cfg /\ q.plan = run[s].plan /\ q.mem = run[s].mem
                   /\ q.dirty = run[s].dirty
      <4>1. PICK q : /\ Becomes(s, q)
                     /\ q = [run[s] EXCEPT !.pc = "post", !.app = a, !.id = run[s].known[a],
                                           !.base = b]
        BY <2>2
      <4>2. /\ q.pc = "post" /\ q.todo = run[s].todo /\ q.app = a
            /\ q.cfg = run[s].cfg /\ q.plan = run[s].plan /\ q.mem = run[s].mem
            /\ q.dirty = run[s].dirty
        BY <1>0, <4>1 DEF Runs
      <4> QED
        BY <4>1, <4>2
    <3>2. \A d : Done(run[s], d, versions, exists) => Done(q, d, versions, exists)
      BY <3>1 DEF Done
    <3>3. Tracks(run[s], versions, exists) => Tracks(q, versions, exists)
      BY <2>1, <3>1, <3>2 DEF Tracks
    <3>4. Clean(q)
      BY <2>1, <3>1 DEF TrackInv, Clean, Ended
    <3> QED
      BY <1>0, <3>1, <3>3, <3>4 DEF Follows, TrackInv
  <2>3. End(s, "failed") => Follows(s)
    BY EndFollows DEF Ended
  <2> QED
    BY <1>3, <2>2, <2>3 DEF ReadBase
<1> QED
  BY <1>1, <1>2, <1>3

LEMMA PlanUpdateFollows ==
  ASSUME MaxVersions <= PageSize, TypeInv, WholeInv, TrackInv, NEW s \in Slots, NEW a \in Apps,
         PlanUpdate(s, a)
  PROVE  Follows(s)
<1>0. run[s] \in Runs /\ UNCHANGED <<versions, exists>>
  BY RunFacts DEF PlanUpdate, server
<1>1. /\ run[s].pc = "plan" /\ a \in run[s].todo /\ a \in DOMAIN History[run[s].cfg]
      /\ Cfg(s) = History[run[s].cfg] /\ Cfg(s)[a] \in ApplicationSpec
      /\ run[s].plan \in [Apps -> Kinds]
  BY <1>0, RunFacts DEF PlanUpdate, Runs
<1>2. ASSUME NEW kind, Planned(s, a, kind), kind = "update" \/ Done(run[s], a, versions, exists),
             kind \in {"update", "noop"}
      PROVE  Follows(s)
  <2>1. PICK q : /\ Becomes(s, q) /\ q.pc = "plan" /\ q.todo = run[s].todo \ {a}
                 /\ q.cfg = run[s].cfg /\ q.plan = [run[s].plan EXCEPT ![a] = kind]
                 /\ q.mem = run[s].mem /\ q.dirty = run[s].dirty /\ q.known = run[s].known
    <3>1. PICK q : Becomes(s, q) /\ q = [run[s] EXCEPT !.plan[a] = kind, !.todo = @ \ {a}]
      BY <1>2 DEF Planned
    <3>2. /\ q.pc = "plan" /\ q.todo = run[s].todo \ {a}
          /\ q.cfg = run[s].cfg /\ q.plan = [run[s].plan EXCEPT ![a] = kind]
          /\ q.mem = run[s].mem /\ q.dirty = run[s].dirty /\ q.known = run[s].known
      BY <1>0, <1>1, <3>1 DEF Runs
    <3> QED
      BY <3>1, <3>2
  <2>2. \A b : Done(run[s], b, versions, exists) => Done(q, b, versions, exists)
    BY <2>1 DEF Done
  <2>3. \A b \in Apps : q.plan[b] = IF b = a THEN kind ELSE run[s].plan[b]
    BY <1>1, <2>1
  <2>4. Tracks(run[s], versions, exists) => Tracks(q, versions, exists)
    BY <1>1, <1>2, <2>1, <2>2, <2>3 DEF Tracks
  <2>5. Clean(q)
    BY <1>1, <2>1 DEF TrackInv, Clean, Ended
  <2> QED
    BY <1>0, <2>1, <2>4, <2>5 DEF Follows, TrackInv
<1>3. ASSUME Alive(a, run[s].known[a]), NEW cur \in Latest(a), cur # NilVersion,
             ~Changed(cur, Cfg(s)[a], run[s].mem[a])
      PROVE  Done(run[s], a, versions, exists)
  <2>1. PICK n \in LatestOf(a) : n # 0 /\ cur = Read(versions[a][n])
    BY <1>3 DEF Latest
  <2>2. versions[a] \in Seq(Version) /\ Len(versions[a]) \in Nat /\ Len(versions[a]) <= MaxVersions
    BY LenProperties DEF TypeInv, Typed, WholeInv
  <2>3. n = Len(versions[a])
    BY <2>1, <2>2, BoundsAssumption DEF LatestOf
  <2>4. versions[a] # <<>> /\ versions[a][n] \in Version
    <3>1. versions[a] # <<>> /\ n \in 1..Len(versions[a])
      BY <2>1, <2>2, <2>3
    <3> QED
      BY <2>2, <3>1, ElementOfSeq
  <2>5. Shows(versions[a][n], Cfg(s)[a]) /\ Tallies(run[s].mem[a], Cfg(s)[a])
    BY <1>1, <1>3, <2>1, <2>4, UnchangedShows
  <2> QED
    BY <1>1, <1>3, <2>3, <2>4, <2>5 DEF Done, There, Alive
<1>4. CASE Alive(a, run[s].known[a])
  <2>1. PICK cur \in Latest(a) :
          Planned(s, a, IF cur = NilVersion \/ Changed(cur, Cfg(s)[a], run[s].mem[a])
                        THEN "update" ELSE "noop")
    BY <1>4 DEF PlanUpdate
  <2> QED
    BY <1>2, <1>3, <1>4, <2>1
<1>5. CASE ~Alive(a, run[s].known[a])
  BY <1>5, EndFollows DEF PlanUpdate, Ended
<1> QED
  BY <1>4, <1>5

LEMMA CreateFollows ==
  ASSUME TypeInv, TrackInv, NEW s \in Slots, NEW a \in Apps, CreateApplication(s, a)
  PROVE  Follows(s)
<1>0. run[s] \in Runs /\ versions' = versions /\ exists \subseteq exists'
  BY RunFacts DEF CreateApplication
<1>1. CASE a \in exists
  BY <1>1, EndFollows DEF CreateApplication, Ended
<1>2. CASE a \notin exists
  <2>1. PICK q : /\ Becomes(s, q)
                 /\ q = [run[s] EXCEPT !.pc = "post", !.app = a, !.id = born[a] + 1,
                                       !.base = NilVersion]
    BY <1>2 DEF CreateApplication
  <2>2. /\ q.pc = "post" /\ q.todo = run[s].todo /\ q.app = a
        /\ q.cfg = run[s].cfg /\ q.plan = run[s].plan /\ q.mem = run[s].mem
        /\ q.dirty = run[s].dirty
    BY <1>0, <2>1 DEF Runs
  <2>3. run[s].pc = "apply" /\ a \in run[s].todo /\ run[s].plan[a] = "create"
    BY DEF CreateApplication, Turn
  <2>4. \A d : Done(run[s], d, versions, exists) => Done(q, d, versions', exists')
    BY <1>0, <2>2, DoneStays
  <2>5. Tracks(run[s], versions, exists) => Tracks(q, versions', exists')
    BY <2>2, <2>3, <2>4 DEF Tracks
  <2>6. Clean(q)
    BY <2>2, <2>3 DEF TrackInv, Clean, Ended
  <2> QED
    BY <2>1, <2>5, <2>6 DEF Follows, TrackInv
<1> QED
  BY <1>1, <1>2

LEMMA AppliedFields ==
  ASSUME TypeInv, NEW s \in Slots, NEW a, a = run[s].app, run[s].pc \in {"post", "activate"}
  PROVE  /\ Applied(s).pc = "apply" /\ Applied(s).cfg = run[s].cfg
         /\ Applied(s).plan = run[s].plan /\ Applied(s).todo = run[s].todo \ {a}
         /\ Applied(s).mem = [run[s].mem EXCEPT ![a] = Recorded(@, Cfg(s)[a], run[s].plan[a])]
         /\ Applied(s).dirty <=>
              run[s].dirty \/ Modifies(run[s].mem[a], Cfg(s)[a], run[s].plan[a])
<1>1. run[s] \in Runs /\ Applied(s).pc = "apply" /\ Applied(s).cfg = run[s].cfg
  BY RunFacts, AppliedType
<1>2. Applied(s).mem = [run[s].mem EXCEPT ![a] = Recorded(@, Cfg(s)[a], run[s].plan[a])]
  BY AppliedType
<1>3. Applied(s).plan = run[s].plan
  BY <1>1 DEF Applied, Runs
<1>4. Applied(s).todo = run[s].todo \ {a}
  BY <1>1 DEF Applied, Runs
<1> DEFINE d == run[s].dirty \/ Modifies(run[s].mem[a], Cfg(s)[a], run[s].plan[a])
<1>5. Applied(s).dirty = d
  BY <1>1 DEF Applied, Runs
<1> QED
  BY <1>1, <1>2, <1>3, <1>4, <1>5

\* The loop of Apply is through with an application.
LEMMA AppliedFollows ==
  ASSUME TypeInv, TrackInv, NEW s \in Slots, NEW a, a = run[s].app,
         run[s].pc \in {"post", "activate"}, Becomes(s, Applied(s)), UNCHANGED exists,
         \A b \in Apps \ {a} : versions'[b] = versions[b],
         count.removes = 0 => There(a, Cfg(s)[a], versions', exists)
  PROVE  Follows(s)
<1> DEFINE q == Applied(s)
           r == run[s]
           c == Cfg(s)[a]
<1>1. /\ q.pc = "apply" /\ q.cfg = r.cfg /\ q.plan = r.plan /\ q.todo = r.todo \ {a}
      /\ q.mem = [r.mem EXCEPT ![a] = Recorded(@, c, r.plan[a])]
      /\ q.dirty <=> r.dirty \/ Modifies(r.mem[a], c, r.plan[a])
  BY AppliedFields
<1>2. /\ a \in Apps /\ a \in DOMAIN History[r.cfg] /\ DOMAIN History[r.cfg] \subseteq Apps
      /\ Cfg(s) = History[r.cfg] /\ c \in ApplicationSpec
      /\ r.mem \in [Apps -> Entry] /\ r.mem[a] \in Entry
  BY RunFacts DEF Runs
<1> HIDE DEF q
<1>3. /\ q.mem[a] = Recorded(r.mem[a], c, r.plan[a])
      /\ \A b \in Apps \ {a} : q.mem[b] = r.mem[b]
  BY <1>1, <1>2
<1>4. Clean(q)
  <2>1. r.dirty \/ r.mem = file
    BY DEF TrackInv, Clean, Ended
  <2>2. CASE Modifies(r.mem[a], c, r.plan[a])
    BY <1>1, <2>2 DEF Clean
  <2>3. CASE ~Modifies(r.mem[a], c, r.plan[a])
    <3>1. Recorded(r.mem[a], c, r.plan[a]) = r.mem[a]
      BY <2>3 DEF Modifies
    <3>2. q.mem = r.mem
      BY <1>1, <1>2, <3>1
    <3> QED
      BY <1>1, <2>1, <3>2 DEF Clean
  <2> QED
    BY <2>2, <2>3
<1>5. ASSUME count.removes = 0 PROVE Tracks(q, versions', exists')
  <2>1. Tracks(r, versions, exists) /\ a \in r.todo /\ r.plan[a] # "noop"
    BY <1>5 DEF TrackInv, Tracks
  <2>2. r.plan[a] = "create" => r.mem[a].pw = None
    BY <1>2, <2>1 DEF Tracks
  <2>3. Done(q, a, versions', exists')
    BY <1>1, <1>2, <1>3, <1>5, <2>2, RecordedTallies DEF Done
  <2>4. \A b \in Apps \ {a} : Done(r, b, versions, exists) => Done(q, b, versions', exists')
    BY <1>1, <1>3, DoneStays
  <2>5. \A b \in Apps : q.plan[b] = "noop" => Done(q, b, versions', exists')
    BY <1>1, <2>1, <2>4 DEF Tracks
  <2>6. \A b \in DOMAIN History[q.cfg] : b \notin q.todo => Done(q, b, versions', exists')
    BY <1>1, <1>2, <2>1, <2>3, <2>4 DEF Tracks
  <2>7. \A b \in Apps : q.plan[b] = "create" /\ b \in q.todo => q.mem[b].pw = None
    BY <1>1, <1>3, <2>1 DEF Tracks
  <2> QED
    BY <1>1, <2>5, <2>6, <2>7 DEF Tracks
<1> QED
  BY <1>4, <1>5 DEF Follows, q

LEMMA ActivateFollows ==
  ASSUME TypeInv, TrackInv, NEW s \in Slots, Activate(s)
  PROVE  Follows(s)
<1>1. CASE ~Alive(run[s].app, run[s].id)
  BY <1>1, EndFollows DEF Activate, Ended
<1>2. CASE Alive(run[s].app, run[s].id)
  <2>1. run[s].pc = "activate" /\ Becomes(s, Applied(s)) /\ UNCHANGED <<versions, exists>>
    BY <1>2 DEF Activate
  <2>2. count.removes = 0 => There(run[s].app, Cfg(s)[run[s].app], versions', exists)
    BY <2>1, RunFacts DEF TrackInv, Tracks
  <2> QED
    BY <2>1, <2>2, AppliedFollows
<1> QED
  BY <1>1, <1>2

\* What is posted is within what was there and the YAML of the command.
LEMMA BaseWithin ==
  ASSUME TypeInv, HeldInv, Sober, NEW s \in Slots, NEW a, a = run[s].app, run[s].pc = "post",
         Alive(a, run[s].id)
  PROVE  Within(run[s].base, Cfg(s)[a])
<1>1. /\ a \in Apps /\ a \in DOMAIN History[run[s].cfg] /\ run[s].cfg \in 1..Len(History)
      /\ Cfg(s) = History[run[s].cfg] /\ run[s].pc \notin Ended /\ run[s].cfg <= run[s].cfg
  BY RunFacts, HistoryAssumption DEF Ended
<1>2. run[s].base \in BasesOf(versions[a])
  BY <1>1 DEF HeldInv, Held, Alive
<1>3. CASE run[s].base = NilVersion
  BY <1>3, NilWithin
<1>4. CASE run[s].base # NilVersion
  <2>1. PICK j \in 1..Len(versions[a]) : run[s].base = Read(versions[a][j])
    BY <1>2, <1>4 DEF BasesOf
  <2>2. versions[a][j] \in Version
    BY <1>1, ElementOfSeq DEF TypeInv, Typed
  <2>3. Within(versions[a][j], Cfg(s)[a])
    BY <1>1 DEF Sober
  <2> QED
    BY <2>1, <2>2, <2>3, ReadWithin
<1> QED
  BY <1>3, <1>4

LEMMA PostShows ==
  ASSUME TypeInv, HeldInv, Sober, NEW s \in Slots, NEW a, a = run[s].app, run[s].pc = "post",
         Alive(a, run[s].id)
  PROVE  Shows(Store(BuildRequest(Cfg(s)[a], run[s].base), Newest(a)), Cfg(s)[a])
<1>1. /\ a \in Apps /\ Cfg(s)[a] \in ApplicationSpec /\ run[s].base \in Version
  BY RunFacts DEF Runs
<1>2. Newest(a) \in Version
  BY <1>1, NewestType DEF TypeInv
<1> QED
  BY <1>1, <1>2, BaseWithin, StoreShows

LEMMA PostFollows ==
  ASSUME TypeInv, HeldInv, TrackInv, NEW s \in Slots, PostVersion(s)
  PROVE  Follows(s)
<1> DEFINE v == Store(BuildRequest(Cfg(s)[run[s].app], run[s].base), Newest(run[s].app))
<1>0. /\ run[s] \in Runs /\ run[s].pc = "post" /\ UNCHANGED exists
      /\ versions \in [Apps -> Seq(Version)]
  BY RunFacts DEF PostVersion, TypeInv, Typed
<1>1. CASE ~Alive(run[s].app, run[s].id)
  BY <1>1, EndFollows DEF PostVersion, Ended
<1>2. CASE Alive(run[s].app, run[s].id)
  <2>1. PICK a \in Apps : a = run[s].app /\ a \in DOMAIN History[run[s].cfg]
    BY <1>0, RunFacts
  <2>2. /\ versions' = [versions EXCEPT ![a] = Append(@, v)]
        /\ Becomes(s, IF run[s].opts
                      THEN [run[s] EXCEPT !.pc = "activate", !.made = Len(versions[a]) + 1]
                      ELSE Applied(s))
    BY <1>2, <2>1 DEF PostVersion
  <2>3. v \in Version /\ Shows(v, Cfg(s)[a])
    BY <1>0, <1>2, <2>1, PostedType, PostShows DEF TrackInv
  <2> HIDE DEF v
  <2>4. versions'[a] = Append(versions[a], v) /\ \A b \in Apps \ {a} : versions'[b] = versions[b]
    BY <1>0, <2>2
  <2>5. There(a, Cfg(s)[a], versions', exists)
    <3>1. /\ Len(versions[a]) \in Nat /\ Len(versions'[a]) = Len(versions[a]) + 1
          /\ versions'[a][Len(versions[a]) + 1] = v
      BY <1>0, <2>3, <2>4, AppendPosted
    <3>2. versions'[a][Len(versions'[a])] = v /\ versions'[a] # <<>>
      BY <3>1
    <3> QED
      BY <1>2, <2>1, <2>3, <3>2 DEF There, Alive
  <2>6. CASE ~run[s].opts
    BY <1>0, <2>1, <2>2, <2>4, <2>5, <2>6, AppliedFollows
  <2>7. CASE run[s].opts
    <3>1. PICK q : /\ Becomes(s, q)
                   /\ q = [run[s] EXCEPT !.pc = "activate", !.made = Len(versions[a]) + 1]
      BY <2>2, <2>7
    <3>2. /\ q.pc = "activate" /\ q.todo = run[s].todo /\ q.app = a
          /\ q.cfg = run[s].cfg /\ q.plan = run[s].plan /\ q.mem = run[s].mem
          /\ q.dirty = run[s].dirty
      BY <1>0, <2>1, <3>1 DEF Runs
    <3>3. Clean(q)
      BY <1>0, <3>2 DEF TrackInv, Clean, Ended
    <3>4. ASSUME count.removes = 0 PROVE Tracks(q, versions', exists')
      <4>1. Tracks(run[s], versions, exists) /\ a \in run[s].todo /\ run[s].plan[a] # "noop"
        BY <1>0, <2>1, <3>4 DEF TrackInv, Tracks
      <4>2. \A b \in Apps \ {a} : Done(run[s], b, versions, exists) => Done(q, b, versions', exists')
        BY <1>0, <2>4, <3>2, DoneStays
      <4>3. \A b \in DOMAIN History[q.cfg] : b \in Apps
        BY <3>2, RunFacts
      <4>4. There(q.app, History[q.cfg][q.app], versions', exists')
        BY <1>0, <2>1, <2>5, <3>2, RunFacts
      <4>5. \A b \in Apps : q.plan[b] = "noop" => Done(q, b, versions', exists')
        BY <3>2, <4>1, <4>2 DEF Tracks
      <4>6. \A b \in DOMAIN History[q.cfg] : b \notin q.todo => Done(q, b, versions', exists')
        BY <1>0, <3>2, <4>1, <4>2, <4>3 DEF Tracks
      <4>7. \A b \in Apps : q.plan[b] = "create" /\ b \in q.todo => q.mem[b].pw = None
        BY <3>2, <4>1 DEF Tracks
      <4> QED
        BY <3>2, <4>1, <4>4, <4>5, <4>6, <4>7 DEF Tracks
    <3> QED
      BY <3>1, <3>3, <3>4 DEF Follows
  <2> QED
    BY <2>6, <2>7
<1> QED
  BY <1>1, <1>2

LEMMA CommandFollows ==
  ASSUME MaxVersions <= PageSize, TypeInv, SafeInv, HeldInv, WholeInv, FreshInv, TrackInv,
         NEW s \in Slots,
         \/ Command(s) \/ Start(s) \/ StartActivate(s) \/ Approve(s) \/ Cancel(s)
         \/ Abandon(s) \/ Fail(s)
  PROVE  Follows(s)
<1>1. CASE Start(s) \/ StartActivate(s)
  BY <1>1, StartFollows
<1>2. CASE Approve(s) \/ Cancel(s) \/ Abandon(s) \/ Fail(s)
  BY <1>2, PhaseFollows
<1>3. CASE Command(s)
  <2>1. CASE \/ Decide(s) \/ FinishApply(s) \/ SaveTruncate(s) \/ SaveWrite(s)
             \/ ResolveLatest(s) \/ SetActive(s) \/ \E a \in Apps : FindApplication(s, a)
    BY <2>1, PhaseFollows
  <2>2. CASE LoadState(s) \/ ListForPlan(s) \/ ListForApply(s)
    BY <2>2, LoadFollows, ListFollows
  <2>3. CASE PostVersion(s)
    BY <2>3, PostFollows
  <2>4. CASE Activate(s)
    BY <2>4, ActivateFollows
  <2>5. ASSUME NEW a \in Apps,
               \/ PlanCreate(s, a) \/ PlanUpdate(s, a) \/ ApplyNoop(s, a)
               \/ CreateApplication(s, a) \/ ReadBase(s, a)
        PROVE  Follows(s)
    BY <2>5, TurnFollows, PlanUpdateFollows, CreateFollows
  <2> QED
    BY <1>3, <2>1, <2>2, <2>3, <2>4, <2>5 DEF Command
<1> QED
  BY <1>1, <1>2, <1>3

\* What a step of a command leaves alone.
LEMMA CommandLeaves ==
  ASSUME TypeInv, NEW s \in Slots,
         \/ Command(s) \/ Start(s) \/ StartActivate(s) \/ Approve(s) \/ Cancel(s)
         \/ Abandon(s) \/ Fail(s)
  PROVE  /\ yaml' = yaml
         /\ UNCHANGED file \/ End(s, "idle")
         /\ count'.removes = count.removes
         /\ \A a \in exists' : (a \in exists /\ born'[a] = born[a]) \/ born'[a] # 0
<1>1. CASE \/ Start(s) \/ StartActivate(s) \/ LoadState(s) \/ ListForPlan(s) \/ Decide(s) \/ Approve(s)
           \/ Cancel(s) \/ Abandon(s) \/ ListForApply(s) \/ FinishApply(s) \/ SaveTruncate(s)
           \/ ResolveLatest(s) \/ Activate(s) \/ SetActive(s) \/ PostVersion(s)
           \/ \E a \in Apps : \/ PlanCreate(s, a) \/ PlanUpdate(s, a) \/ ApplyNoop(s, a)
                              \/ ReadBase(s, a) \/ FindApplication(s, a)
  <2>1. UNCHANGED <<yaml, file, count, exists, born>>
    BY <1>1 DEF Start, LoadState, StartActivate, ListForPlan, Decide, Approve, Cancel, Abandon,
           ListForApply, FinishApply, SaveTruncate, ResolveLatest, Activate, SetActive,
           PostVersion, PlanCreate, PlanUpdate, ApplyNoop, ReadBase, FindApplication,
           server, disk
  <2>2. \A a \in exists' : a \in exists /\ born'[a] = born[a]
    BY <2>1
  <2> QED
    BY <2>1, <2>2
<1>2. CASE SaveWrite(s)
  BY <1>2 DEF SaveWrite, server
<1>3. CASE Fail(s)
  <2>1. count'.removes = count.removes
    BY <1>3 DEF Fail, TypeInv, Typed, Counters
  <2>2. UNCHANGED <<yaml, file, exists, born>>
    BY <1>3 DEF Fail, server, disk
  <2> QED
    BY <2>1, <2>2
<1>4. ASSUME NEW a \in Apps, CreateApplication(s, a)
      PROVE  /\ UNCHANGED <<yaml, file, count>>
             /\ \A b \in exists' : (b \in exists /\ born'[b] = born[b]) \/ born'[b] # 0
  <2>1. UNCHANGED <<yaml, file, count>>
    BY <1>4 DEF CreateApplication, disk
  <2>2. UNCHANGED <<exists, born>> \/ (exists' = exists \cup {a} /\ born' = [born EXCEPT ![a] = @ + 1])
    BY <1>4 DEF CreateApplication
  <2>3. born \in [Apps -> Nat] /\ exists \subseteq Apps
    BY DEF TypeInv, Typed
  <2>4. CASE UNCHANGED <<exists, born>>
    BY <2>1, <2>4
  <2>5. CASE exists' = exists \cup {a} /\ born' = [born EXCEPT ![a] = @ + 1]
    <3>1. born'[a] # 0 /\ \A b \in Apps \ {a} : born'[b] = born[b]
      BY <2>3, <2>5
    <3>2. ASSUME NEW b \in exists' PROVE (b \in exists /\ born'[b] = born[b]) \/ born'[b] # 0
      BY <2>3, <2>5, <3>1
    <3> QED
      BY <2>1, <3>2
  <2> QED
    BY <2>2, <2>4, <2>5
<1> QED
  BY <1>1, <1>2, <1>3, <1>4 DEF Command

\* A command in progress keeps to the YAML it has loaded.
Onward(s) ==
  run'[s].pc \notin Ended =>
    \/ run'[s].cfg = yaml
    \/ run[s].pc \notin Ended /\ run'[s].cfg = run[s].cfg

LEMMA CommandOnward ==
  ASSUME TypeInv, NEW s \in Slots,
         \/ Command(s) \/ Start(s) \/ StartActivate(s) \/ Approve(s) \/ Cancel(s)
         \/ Abandon(s) \/ Fail(s)
  PROVE  Onward(s)
<1>0. run[s] \in Runs /\ run \in [Slots -> Runs]
  BY RunFacts DEF TypeInv, Typed
<1>1. ASSUME NEW r, Becomes(s, r), r.cfg = run[s].cfg, run[s].pc \notin Ended PROVE Onward(s)
  BY <1>0, <1>1 DEF Becomes, Onward
<1>2. ASSUME NEW pc \in Ended, End(s, pc) PROVE Onward(s)
  BY <1>0, <1>2 DEF End, Becomes, At, Onward
<1>3. ASSUME NEW r, Becomes(s, r), r.cfg = yaml PROVE Onward(s)
  BY <1>0, <1>3 DEF Becomes, Onward
<1>4. CASE Start(s) \/ StartActivate(s)
  <2>1. \A opts : [At("load") EXCEPT !.cfg = yaml, !.opts = opts].cfg = yaml
    BY DEF At
  <2>2. [At("find") EXCEPT !.cfg = yaml].cfg = yaml
    BY DEF At
  <2> QED
    BY <1>3, <1>4, <2>1, <2>2 DEF Start, StartActivate
<1>12. CASE LoadState(s)
  BY <1>0, <1>1, <1>2, <1>12 DEF LoadState, Runs, Ended
<1>5. CASE ListForPlan(s) \/ ListForApply(s) \/ Approve(s) \/ SaveTruncate(s)
  BY <1>0, <1>1, <1>5 DEF ListForPlan, ListForApply, Approve, SaveTruncate, Runs, Ended
<1>6. CASE Decide(s) \/ FinishApply(s)
  BY <1>0, <1>1, <1>2, <1>6 DEF Decide, FinishApply, Runs, Ended
<1>7. CASE Cancel(s) \/ Abandon(s) \/ SetActive(s) \/ Fail(s) \/ SaveWrite(s)
  BY <1>2, <1>7 DEF Cancel, Abandon, SetActive, Fail, SaveWrite, Ended
<1>8. CASE ResolveLatest(s)
  BY <1>0, <1>1, <1>2, <1>8 DEF ResolveLatest, Runs, Ended
<1>9. CASE PostVersion(s) \/ Activate(s)
  <2>1. run[s].pc \in {"post", "activate"}
    BY <1>9 DEF PostVersion, Activate
  <2>2. Applied(s).cfg = run[s].cfg
    BY <2>1, AppliedType
  <2>3. \A n : [run[s] EXCEPT !.pc = "activate", !.made = n].cfg = run[s].cfg
    BY <1>0 DEF Runs
  <2> QED
    BY <1>1, <1>2, <1>9, <2>1, <2>2, <2>3 DEF PostVersion, Activate, Ended
<1>10. CASE \E a \in Apps : PlanCreate(s, a) \/ PlanUpdate(s, a) \/ ApplyNoop(s, a)
  BY <1>0, <1>1, <1>2, <1>10 DEF PlanCreate, PlanUpdate, ApplyNoop, Turn, Planned, Runs, Ended
<1>11. CASE \E a \in Apps : FindApplication(s, a) \/ ReadBase(s, a) \/ CreateApplication(s, a)
  BY <1>0, <1>1, <1>2, <1>11
     DEF FindApplication, ReadBase, CreateApplication, Turn, Runs, Ended
<1> QED
  BY <1>4, <1>5, <1>6, <1>7, <1>8, <1>9, <1>10, <1>11, <1>12 DEF Command

\* The YAML files that are still to come, or are in use.
Ahead(l) == yaml <= l \/ \E s \in Slots : run[s].pc \notin Ended /\ run[s].cfg <= l

LEMMA AheadStep ==
  ASSUME OneCommand, TypeInv, [Next]_vars, NEW l \in 1..Len(History), Ahead(l)'
  PROVE  Ahead(l)
<1>0. yaml \in 1..Len(History) /\ yaml \in Nat /\ Len(History) \in Nat
  BY HistoryAssumption DEF TypeInv, Typed
<1>1. CASE UNCHANGED run
  <2>1. yaml' = yaml \/ yaml' = yaml + 1
    <3>1. CASE UNCHANGED vars \/ LoseFile \/ RepairFile \/ Edit
      BY <3>1 DEF vars, LoseFile, RepairFile, NoFile, Edit
    <3>2. CASE \E a \in Apps : Remove(a) \/ \E img \in DeployImages : Deploy(a, img)
      BY <3>2 DEF Remove, Deploy
    <3> QED
      BY <3>1, <3>2, CommandLeaves DEF Next
  <2> QED
    BY <1>0, <1>1, <2>1 DEF Ahead
<1>2. CASE ~UNCHANGED run
  <2>1. PICK s \in Slots :
          \/ Command(s) \/ Start(s) \/ StartActivate(s) \/ Approve(s) \/ Cancel(s)
          \/ Abandon(s) \/ Fail(s)
    BY <1>2 DEF Next, vars, LoseFile, RepairFile, NoFile, Edit, Remove, Deploy
  <2>2. yaml' = yaml /\ Onward(s) /\ \A t \in Slots : t = s
    BY <2>1, CommandLeaves, CommandOnward DEF OneCommand
  <2> QED
    BY <2>2 DEF Ahead, Onward
<1> QED
  BY <1>1, <1>2

LEMMA DeployedType ==
  ASSUME NEW v \in Version, NEW img \in DeployImages
  PROVE  [v EXCEPT !.image = img] \in Version
  BY ValuesAssumption, BoundsAssumption DEF Version, Opt

\* The steps by which an apply completes.
LEMMA CompletingStep ==
  ASSUME OneCommand, TypeInv, [Next]_vars, NEW s \in Slots,
         run[s].pc \in {"apply", "write"}, run'[s].pc = "idle"
  PROVE  FinishApply(s) \/ SaveWrite(s)
<1>0. /\ run[s] \in Runs /\ run \in [Slots -> Runs] /\ \A t \in Slots : t = s
      /\ run' # run /\ run[s].pc \notin Ended
  BY RunFacts DEF TypeInv, Typed, OneCommand, Ended
<1>1. \/ Command(s) \/ Fail(s)
  BY <1>0 DEF Next, vars, LoseFile, RepairFile, NoFile, Edit, Remove, Deploy, Start,
         StartActivate, Approve, Cancel, Abandon
<1>2. ASSUME NEW r, Becomes(s, r), r.pc # "idle" PROVE FALSE
  BY <1>0, <1>2 DEF Becomes
<1>3. ~End(s, "failed")
  BY <1>0 DEF End, Becomes, At
<1>4. CASE Fail(s)
  BY <1>3, <1>4 DEF Fail
<1>5. ASSUME NEW a \in Apps, ApplyNoop(s, a) \/ CreateApplication(s, a) \/ ReadBase(s, a)
      PROVE  FALSE
  BY <1>0, <1>2, <1>3, <1>5 DEF ApplyNoop, CreateApplication, ReadBase, Turn, Runs
<1>6. CASE Command(s)
  BY <1>0, <1>5, <1>6
     DEF Command, LoadState, ListForPlan, PlanCreate, PlanUpdate, Decide, ListForApply, PostVersion,
         Activate, SaveTruncate, FindApplication, ResolveLatest, SetActive
<1> QED
  BY <1>1, <1>4, <1>6

LEMMA StepSober ==
  ASSUME OneCommand, NothingOmitted, TypeInv, HeldInv, Sober, [Next]_vars
  PROVE  Sober'
<1>0. versions \in [Apps -> Seq(Version)] /\ \A a \in Apps : Len(versions[a]) \in Nat
  BY LenProperties DEF TypeInv, Typed
<1> DEFINE Fits(vs, a) == \A l \in 1..Len(History) :
             a \in DOMAIN History[l] /\ Ahead(l)' =>
               \A j \in 1..Len(vs) : Within(vs[j], History[l][a])
<1>1. ASSUME NEW a \in Apps PROVE Fits(versions[a], a)
  BY <1>1, AheadStep DEF Sober, Ahead
<1>2. ASSUME NEW a \in Apps, NEW v, versions' = [versions EXCEPT ![a] = Append(@, v)],
             v \in Version,
             \A l \in 1..Len(History) : a \in DOMAIN History[l] /\ Ahead(l)' =>
               Within(v, History[l][a])
      PROVE  \A b \in Apps : Fits(versions'[b], b)
  <2>1. /\ versions'[a] = Append(versions[a], v)
        /\ \A b \in Apps \ {a} : versions'[b] = versions[b]
    BY <1>0, <1>2
  <2>2. /\ Len(versions'[a]) = Len(versions[a]) + 1
        /\ versions'[a][Len(versions[a]) + 1] = v
        /\ \A j \in 1..Len(versions[a]) : versions'[a][j] = versions[a][j]
    BY <1>0, <1>2, <2>1, AppendPosted
  <2>3. Fits(versions'[a], a)
    BY <1>0, <1>1, <1>2, <2>2
  <2> QED
    BY <1>1, <2>1, <2>3
<1>3. \A b \in Apps : Fits(versions'[b], b)
  <2>1. CASE UNCHANGED versions
    BY <1>1, <2>1
  <2>2. ASSUME NEW s \in Slots, PostVersion(s), Alive(run[s].app, run[s].id)
        PROVE  \A b \in Apps : Fits(versions'[b], b)
    <3> DEFINE v == Store(BuildRequest(Cfg(s)[run[s].app], run[s].base), Newest(run[s].app))
               i == run[s].cfg
    <3>1. run[s].pc = "post"
      BY <2>2 DEF PostVersion
    <3>2. PICK a \in Apps : a = run[s].app /\ a \in DOMAIN History[i]
      BY <3>1, RunFacts
    <3>3. versions' = [versions EXCEPT ![a] = Append(@, v)]
      BY <2>2, <3>2 DEF PostVersion
    <3>4. v \in Version /\ Shows(v, History[i][a]) /\ i \in 1..Len(History)
      BY <2>2, <3>1, <3>2, PostedType, PostShows, RunFacts
    <3> HIDE DEF v
    <3>5. Within(v, History[i][a])
      BY <3>4 DEF Shows, Within
    <3>6. ASSUME NEW l \in 1..Len(History), Ahead(l)' PROVE i <= l
      <4>1. Ahead(l) /\ i <= yaml /\ \A t \in Slots : t = s
        BY <3>6, AheadStep DEF HeldInv, Held, OneCommand
      <4>2. i \in Nat /\ yaml \in Nat /\ l \in Nat
        BY <3>4, HistoryAssumption DEF TypeInv, Typed
      <4> QED
        BY <4>1, <4>2 DEF Ahead
    <3>7. \A l \in 1..Len(History) : a \in DOMAIN History[l] /\ Ahead(l)' =>
            Within(v, History[l][a])
      BY <3>2, <3>4, <3>5, <3>6, WithinLater
    <3> QED
      BY <1>2, <3>3, <3>4, <3>7
  <2>3. ASSUME NEW a \in Apps, Remove(a) PROVE \A b \in Apps : Fits(versions'[b], b)
    <3>1. versions'[a] = <<>> /\ \A b \in Apps \ {a} : versions'[b] = versions[b]
      BY <1>0, <2>3 DEF Remove
    <3> QED
      BY <1>1, <3>1
  <2>4. ASSUME NEW a \in Apps, NEW img \in DeployImages, Deploy(a, img)
        PROVE  \A b \in Apps : Fits(versions'[b], b)
    <3>1. /\ versions[a] # <<>>
          /\ versions' = [versions EXCEPT ![a] = Append(@, [Newest(a) EXCEPT !.image = img])]
      BY <2>4 DEF Deploy
    <3>2. PICK j \in 1..Len(versions[a]) : Newest(a) = versions[a][j] /\ versions[a][j] \in Version
      BY <1>0, <3>1, ElementOfSeq DEF Newest
    <3>3. \A l \in 1..Len(History) : a \in DOMAIN History[l] /\ Ahead(l)' =>
            Within([Newest(a) EXCEPT !.image = img], History[l][a])
      BY <1>1, <3>2, ImageAside
    <3>4. [Newest(a) EXCEPT !.image = img] \in Version
      BY <2>4, <3>2, DeployedType
    <3> QED
      BY <1>2, <3>1, <3>3, <3>4
  <2> QED
    BY <2>1, <2>2, <2>3, <2>4, VersionsStep
<1> QED
  BY <1>3 DEF Sober, Ahead

LEMMA InitTrack == Init => TrackInv
<1> SUFFICES ASSUME Init PROVE TrackInv
  OBVIOUS
<1>1. ASSUME NEW s \in Slots PROVE Clean(run[s]) /\ Tracks(run[s], versions, exists)
  <2>1. run[s] = At("idle") /\ At("idle").pc = "idle" /\ \A a \in Apps : At("idle").plan[a] = "none"
    BY <1>1 DEF Init, At
  <2> QED
    BY <2>1, TracksFree DEF Clean, Ended
<1>2. exists = {} /\ \A a \in Apps : versions[a] = <<>>
  BY DEF Init
<1>3. Sober
  BY <1>2 DEF Sober
<1> QED
  BY <1>1, <1>2, <1>3 DEF TrackInv

LEMMA StepTrack ==
  ASSUME OneCommand, NothingOmitted, MaxVersions <= PageSize,
         TypeInv, SafeInv, HeldInv, WholeInv, FreshInv, TrackInv, [Next]_vars
  PROVE  TrackInv'
<1>0. Sober' /\ run \in [Slots -> Runs] /\ count \in Counters
  BY StepSober DEF TrackInv, TypeInv, Typed
<1>1. ASSUME NEW s \in Slots,
             \/ Command(s) \/ Start(s) \/ StartActivate(s) \/ Approve(s) \/ Cancel(s)
             \/ Abandon(s) \/ Fail(s)
      PROVE  TrackInv'
  <2>1. PICK r : Becomes(s, r) /\ Clean(r) /\ (count.removes = 0 => Tracks(r, versions', exists'))
    BY <1>1, CommandFollows DEF Follows
  <2>2. run'[s] = r /\ \A t \in Slots : t = s
    BY <1>0, <2>1 DEF Becomes, OneCommand
  <2>3. /\ UNCHANGED file \/ End(s, "idle")
        /\ count'.removes = count.removes
        /\ \A a \in exists' : (a \in exists /\ born'[a] = born[a]) \/ born'[a] # 0
    BY <1>1, CommandLeaves
  <2>4. Clean(r)'
    <3>1. CASE UNCHANGED file
      BY <2>1, <3>1 DEF Clean
    <3>2. CASE End(s, "idle")
      BY <1>0, <2>2, <3>2 DEF End, Becomes, At, Clean, Ended
    <3> QED
      BY <2>3, <3>1, <3>2
  <2>5. \A t \in Slots : Clean(run[t])'
    BY <2>2, <2>4 DEF Clean
  <2>6. count'.removes = 0 => \A t \in Slots : Tracks(run'[t], versions', exists')
    BY <2>1, <2>2, <2>3
  <2>7. \A a \in exists' : born'[a] # 0
    BY <2>3 DEF TrackInv
  <2> QED
    BY <1>0, <2>5, <2>6, <2>7 DEF TrackInv
<1>2. CASE LoseFile \/ RepairFile
  <2>1. UNCHANGED <<versions, exists, born, run>> /\ \A s \in Slots : run[s].pc \in Ended
    BY <1>2 DEF LoseFile, RepairFile, NoFile, server
  <2>2. count'.removes = count.removes
    BY <1>0, <1>2 DEF LoseFile, RepairFile, Counters
  <2> QED
    BY <1>0, <2>1, <2>2 DEF TrackInv, Clean
<1>3. CASE Edit \/ UNCHANGED vars
  BY <1>0, <1>3 DEF Edit, vars, server, disk, TrackInv, Clean
<1>4. ASSUME NEW a \in Apps, Remove(a) PROVE TrackInv'
  <2>1. UNCHANGED <<born, run, file>> /\ exists' \subseteq exists
    BY <1>4 DEF Remove, disk
  <2>2. count'.removes # 0
    BY <1>0, <1>4 DEF Remove, Counters
  <2> QED
    BY <1>0, <2>1, <2>2 DEF TrackInv, Clean
<1>5. ASSUME NEW a \in Apps, NEW img \in DeployImages, Deploy(a, img) PROVE TrackInv'
  <2> DEFINE v == [Newest(a) EXCEPT !.image = img]
  <2>1. /\ versions[a] # <<>> /\ versions' = [versions EXCEPT ![a] = Append(@, v)]
        /\ UNCHANGED <<born, run, file, exists>> /\ versions \in [Apps -> Seq(Version)]
    BY <1>5 DEF Deploy, disk, TypeInv, Typed
  <2>2. count'.removes = count.removes
    BY <1>0, <1>5 DEF Deploy, Counters
  <2>3. Newest(a) = versions[a][Len(versions[a])] /\ Newest(a) \in Version /\ v \in Version
    BY <1>5, <2>1, NewestType, DeployedType DEF Newest, TypeInv
  <2>4. \A c : Shows(Newest(a), c) => Shows(v, c)
    BY <2>3, ImageAside
  <2> HIDE DEF v
  <2>5. versions'[a] = Append(versions[a], v) /\ \A b \in Apps \ {a} : versions'[b] = versions[b]
    BY <2>1
  <2>6. /\ Len(versions[a]) \in Nat /\ Len(versions'[a]) = Len(versions[a]) + 1
        /\ versions'[a][Len(versions'[a])] = v /\ versions'[a] # <<>>
    BY <2>1, <2>3, <2>5, AppendPosted
  <2>7. ASSUME NEW r, NEW b \in Apps, Done(r, b, versions, exists)
        PROVE  Done(r, b, versions', exists)
    <3>1. \A c : There(b, c, versions, exists) => There(b, c, versions', exists)
      BY <2>3, <2>4, <2>5, <2>6 DEF There
    <3> QED
      BY <2>7, <3>1 DEF Done
  <2>8. ASSUME NEW s \in Slots, Tracks(run[s], versions, exists)
        PROVE  Tracks(run[s], versions', exists)
    <3>1. \A b \in DOMAIN History[run[s].cfg] : b \in Apps
      BY RunFacts
    <3>2. run[s].pc = "activate" => run[s].app \in Apps
      BY RunFacts
    <3>3. run[s].pc = "activate" => There(run[s].app, History[run[s].cfg][run[s].app], versions', exists)
      <4>1. \A b \in Apps : \A c : There(b, c, versions, exists) => There(b, c, versions', exists)
        BY <2>3, <2>4, <2>5, <2>6 DEF There
      <4> QED
        BY <2>8, <3>2, <4>1 DEF Tracks
    <3> QED
      BY <2>7, <2>8, <3>1, <3>3 DEF Tracks
  <2>9. count'.removes = 0 => \A s \in Slots : Tracks(run'[s], versions', exists')
    BY <2>1, <2>2, <2>8 DEF TrackInv
  <2> QED
    BY <1>0, <2>1, <2>9 DEF TrackInv, Clean
<1> QED
  BY <1>1, <1>2, <1>3, <1>4, <1>5 DEF Next

\* With one command at a time, and YAML files that spell out what the ones before
\* did, an apply that completes leaves a plan nothing to report of the applications (but
\* an image): what it wrote to the service is read back as the YAML has it, and what
\* it recorded is what it wrote, also where it did nothing because the plan had found
\* nothing (sync.go:306-380, state.go:60-80).  The newest version is on the first page.
THEOREM AppliesConverge ==
  ASSUME OneCommand, NothingOmitted, MaxVersions <= PageSize
  PROVE  Spec => ApplyConverges
<1> DEFINE Converged(s) ==
      run[s].pc \in {"apply", "write"} /\ run'[s].pc = "idle" /\ count.removes = 0 =>
       \A a \in Wanted(s) :
         /\ a \in exists /\ versions[a] # <<>>
         /\ ~Changed(Read(Newest(a)), [Cfg(s)[a] EXCEPT !.inheritImage = TRUE], file'[a])
    Inv == TypeInv /\ SafeInv /\ HeldInv /\ WholeInv /\ FreshInv /\ TrackInv
<1>1. ASSUME Inv, [Next]_vars, NEW s \in Slots PROVE Converged(s)
  <2> SUFFICES ASSUME run[s].pc \in {"apply", "write"}, run'[s].pc = "idle", count.removes = 0,
                      NEW a \in Wanted(s)
               PROVE  /\ a \in exists /\ versions[a] # <<>>
                      /\ ~Changed(Read(Newest(a)), [Cfg(s)[a] EXCEPT !.inheritImage = TRUE],
                                  file'[a])
    OBVIOUS
  <2>1. /\ run[s] \in Runs /\ a \in Apps /\ a \in DOMAIN History[run[s].cfg]
        /\ Cfg(s)[a] = History[run[s].cfg][a] /\ Cfg(s)[a] \in ApplicationSpec
    BY <1>1, RunFacts DEF Wanted
  <2>2. run[s].todo = {} /\ file' = run[s].mem
    <3>1. FinishApply(s) \/ SaveWrite(s)
      BY <1>1, CompletingStep
    <3>2. CASE FinishApply(s)
      <4>1. run[s].todo = {} /\ UNCHANGED file
        BY <3>2 DEF FinishApply, disk
      <4>2. ~run[s].dirty
        <5>1. run[s].dirty => run'[s].pc = "save"
          BY <1>1, <2>1, <3>2 DEF FinishApply, Becomes, TypeInv, Typed, Runs
        <5> QED
          BY <5>1
      <4> QED
        BY <1>1, <4>1, <4>2 DEF TrackInv, Clean, Ended
    <3>3. CASE SaveWrite(s)
      BY <1>1, <3>3 DEF SaveWrite, TrackInv, Tracks
    <3> QED
      BY <3>1, <3>2, <3>3
  <2>3. Done(run[s], a, versions, exists)
    BY <1>1, <2>1, <2>2 DEF TrackInv, Tracks
  <2>4. /\ a \in exists /\ versions[a] # <<>>
        /\ Shows(Newest(a), Cfg(s)[a]) /\ Tallies(file'[a], Cfg(s)[a])
    BY <2>1, <2>2, <2>3 DEF Done, There, Newest
  <2>5. Newest(a) \in Version
    BY <1>1, <2>1, NewestType DEF TypeInv
  <2> QED
    BY <2>1, <2>4, <2>5, ShowsUnchanged
<1>2. Spec => []Inv
  <2>1. TrackInv /\ TypeInv /\ SafeInv /\ HeldInv /\ WholeInv /\ FreshInv /\ [Next]_vars => TrackInv'
    BY StepTrack
  <2> QED
    BY <2>1, InitTrack, Invariance, FreshVersions, PTL DEF Spec
<1>3. Inv /\ [Next]_vars => [\A s \in Slots : Converged(s)]_vars
  BY <1>1
<1> QED
  BY <1>2, <1>3, PTL DEF Spec, ApplyConverges

-----------------------------------------------------------------------------
\* From the planning of an application to the end of the plan.

PlanInv ==
  /\ \A s \in Slots : run[s].pc \in {"load", "list"} => \A a \in Apps : run[s].plan[a] = "none"
  /\ count.removes = 0 =>
       \A s \in Slots, a \in Apps : run[s].pc = "plan" /\ run[s].plan[a] = "noop" =>
         a \in Wanted(s) /\ versions[a] # <<>> /\ Carries(Newest(a), Cfg(s)[a])

\* The steps that lead to a plan, or go on with one.
LEMMA PlanningStep ==
  ASSUME OneCommand, TypeInv, [Next]_vars, NEW s \in Slots,
         run'[s].pc \in {"load", "list", "plan"}
  PROVE  \/ run'[s] = run[s]
         \/ run'[s].pc = "load" /\ \A a \in Apps : run'[s].plan[a] = "none"
         \/ /\ \/ run[s].pc = "load" /\ run'[s].pc = "list"
               \/ run[s].pc \in {"list", "plan"} /\ run'[s].pc = "plan"
            /\ run[s].pc # "plan" => run'[s].plan = run[s].plan
            /\ run'[s].cfg = run[s].cfg /\ UNCHANGED <<versions, count>>
<1>0. run[s] \in Runs /\ run \in [Slots -> Runs] /\ \A t \in Slots : t = s
  BY RunFacts DEF TypeInv, Typed, OneCommand
<1> DEFINE Claim ==
      \/ run'[s] = run[s]
      \/ run'[s].pc = "load" /\ \A a \in Apps : run'[s].plan[a] = "none"
      \/ /\ \/ run[s].pc = "load" /\ run'[s].pc = "list"
            \/ run[s].pc \in {"list", "plan"} /\ run'[s].pc = "plan"
         /\ run[s].pc # "plan" => run'[s].plan = run[s].plan
         /\ run'[s].cfg = run[s].cfg /\ UNCHANGED <<versions, count>>
<1>1. ASSUME NEW r, Becomes(s, r), r.pc \notin {"load", "list", "plan"} PROVE FALSE
  BY <1>0, <1>1 DEF Becomes
<1>2. ASSUME NEW pc \in Ended, End(s, pc) PROVE FALSE
  BY <1>1, <1>2 DEF End, At, Ended
<1>3. CASE Start(s) \/ StartActivate(s)
  <2>1. ASSUME NEW opts \in BOOLEAN,
               Becomes(s, [At("load") EXCEPT !.cfg = yaml, !.opts = opts])
        PROVE  Claim
    <3> DEFINE r == [At("load") EXCEPT !.cfg = yaml, !.opts = opts]
    <3>1. r.pc = "load" /\ \A a \in Apps : r.plan[a] = "none"
      BY DEF At
    <3>2. run'[s] = r
      BY <1>0, <2>1 DEF Becomes
    <3> QED
      BY <3>1, <3>2
  <2>2. [At("find") EXCEPT !.cfg = yaml].pc = "find"
    BY DEF At
  <2> QED
    BY <1>1, <1>3, <2>1, <2>2 DEF Start, StartActivate
<1>13. CASE LoadState(s)
  <2> DEFINE r == [run[s] EXCEPT !.pc = "list", !.mem = file]
  <2>1. r.pc = "list" /\ r.plan = run[s].plan /\ r.cfg = run[s].cfg
    BY <1>0 DEF Runs
  <2>2. Becomes(s, r)
    BY <1>2, <1>13 DEF LoadState, Ended
  <2>3. run'[s] = r /\ run[s].pc = "load" /\ UNCHANGED <<versions, count>>
    BY <1>0, <1>13, <2>2 DEF LoadState, Becomes, server
  <2> QED
    BY <2>1, <2>3
<1>4. CASE ListForPlan(s)
  <2> DEFINE r == [run[s] EXCEPT !.pc = "plan", !.known = IDs, !.todo = Wanted(s)]
  <2>1. r.pc = "plan" /\ r.plan = run[s].plan /\ r.cfg = run[s].cfg
    BY <1>0 DEF Runs
  <2>2. run'[s] = r /\ run[s].pc = "list" /\ UNCHANGED <<versions, count>>
    BY <1>0, <1>4 DEF ListForPlan, Becomes, server
  <2> QED
    BY <2>1, <2>2
<1>5. ASSUME NEW a \in Apps, PlanCreate(s, a) \/ PlanUpdate(s, a) PROVE Claim
  <2>1. PICK kind : Planned(s, a, kind)
    BY <1>2, <1>5 DEF PlanCreate, PlanUpdate, Ended
  <2> DEFINE r == [run[s] EXCEPT !.plan[a] = kind, !.todo = @ \ {a}]
  <2>2. run[s].pc = "plan" /\ UNCHANGED <<versions, count>>
    BY <1>5 DEF PlanCreate, PlanUpdate, server
  <2>3. r.pc = "plan" /\ r.cfg = run[s].cfg
    BY <1>0, <2>2 DEF Runs
  <2>4. run'[s] = r
    BY <1>0, <2>1 DEF Becomes, Planned
  <2> QED
    BY <2>2, <2>3, <2>4
<1>6. CASE \/ ListForApply(s) \/ Approve(s) \/ SaveTruncate(s) \/ Decide(s) \/ FinishApply(s)
           \/ ResolveLatest(s)
  BY <1>0, <1>1, <1>2, <1>6
     DEF ListForApply, Approve, SaveTruncate, Decide, FinishApply, ResolveLatest, Runs, Ended
<1>7. CASE Cancel(s) \/ Abandon(s) \/ SetActive(s) \/ Fail(s) \/ SaveWrite(s)
  BY <1>2, <1>7 DEF Cancel, Abandon, SetActive, Fail, SaveWrite, Ended
<1>8. CASE PostVersion(s) \/ Activate(s)
  <2>1. Applied(s).pc = "apply"
    BY <1>8, AppliedType DEF PostVersion, Activate
  <2>2. \A n : [run[s] EXCEPT !.pc = "activate", !.made = n].pc = "activate"
    BY <1>0 DEF Runs
  <2> QED
    BY <1>1, <1>2, <1>8, <2>1, <2>2 DEF PostVersion, Activate, Ended
<1>9. ASSUME NEW a \in Apps, FindApplication(s, a) \/ ReadBase(s, a) \/ CreateApplication(s, a)
      PROVE  Claim
  BY <1>0, <1>1, <1>2, <1>9 DEF FindApplication, ReadBase, CreateApplication, Runs, Ended
<1>10. ASSUME NEW a \in Apps, ApplyNoop(s, a) PROVE Claim
  BY <1>0, <1>1, <1>10 DEF ApplyNoop, Turn, Runs
<1>11. CASE LoseFile \/ RepairFile \/ Edit \/ UNCHANGED vars
  BY <1>11 DEF LoseFile, RepairFile, NoFile, Edit, vars
<1>12. CASE \E a \in Apps : Remove(a) \/ \E img \in DeployImages : Deploy(a, img)
  BY <1>12 DEF Remove, Deploy
<1> QED
  BY <1>0, <1>3, <1>4, <1>5, <1>6, <1>7, <1>8, <1>9, <1>10, <1>11, <1>12, <1>13
     DEF Next, Command

LEMMA RemovesStay ==
  ASSUME TypeInv, [Next]_vars, count'.removes = 0
  PROVE  count.removes = 0
<1>0. count \in Counters
  BY DEF TypeInv, Typed
<1>1. CASE LoseFile
  BY <1>0, <1>1 DEF LoseFile, Counters
<1>2. CASE RepairFile \/ Edit \/ UNCHANGED vars
  BY <1>2 DEF RepairFile, Edit, vars
<1>3. ASSUME NEW a \in Apps, Remove(a) PROVE FALSE
  BY <1>0, <1>3 DEF Remove, Counters
<1>4. ASSUME NEW a \in Apps, NEW img \in DeployImages, Deploy(a, img) PROVE count.removes = 0
  BY <1>0, <1>4 DEF Deploy, Counters
<1> QED
  BY <1>1, <1>2, <1>3, <1>4, CommandLeaves DEF Next

\* The step that finds nothing to do.
LEMMA PlanEnds ==
  ASSUME OneCommand, TypeInv, [Next]_vars, NEW s \in Slots,
         run[s].pc = "plan", run'[s].pc = "idle"
  PROVE  Decide(s)
<1>0. /\ run[s] \in Runs /\ run \in [Slots -> Runs] /\ \A t \in Slots : t = s
      /\ run' # run /\ run[s].pc \notin Ended
  BY RunFacts DEF TypeInv, Typed, OneCommand, Ended
<1>1. Command(s) \/ Fail(s)
  BY <1>0 DEF Next, vars, LoseFile, RepairFile, NoFile, Edit, Remove, Deploy, Start,
         StartActivate, Approve, Cancel, Abandon
<1>2. ASSUME NEW r, Becomes(s, r), r.pc # "idle" PROVE FALSE
  BY <1>0, <1>2 DEF Becomes
<1>3. ~End(s, "failed")
  BY <1>0 DEF End, Becomes, At
<1>4. CASE Fail(s)
  BY <1>3, <1>4 DEF Fail
<1>5. ASSUME NEW a \in Apps, PlanCreate(s, a) \/ PlanUpdate(s, a) PROVE FALSE
  BY <1>0, <1>2, <1>3, <1>5 DEF PlanCreate, PlanUpdate, Planned, Runs
<1>6. CASE Command(s)
  BY <1>0, <1>5, <1>6
     DEF Command, LoadState, ListForPlan, ListForApply, ApplyNoop, CreateApplication, ReadBase, Turn,
         PostVersion, Activate, FinishApply, SaveTruncate, SaveWrite, FindApplication,
         ResolveLatest, SetActive
<1> QED
  BY <1>1, <1>4, <1>6

LEMMA InitPlan == Init => PlanInv
  BY DEF Init, PlanInv, At

LEMMA StepPlan ==
  ASSUME OneCommand, NumbersMoveOn, MaxVersions <= PageSize,
         TypeInv, HeldInv, WholeInv, KnownInv, PlanInv, [Next]_vars
  PROVE  PlanInv'
<1>1. ASSUME NEW s \in Slots, run'[s].pc \in {"load", "list"}, NEW a \in Apps
      PROVE  run'[s].plan[a] = "none"
  BY <1>1, PlanningStep DEF PlanInv
<1>2. ASSUME count'.removes = 0, NEW s \in Slots, NEW a \in Apps,
             run'[s].pc = "plan", run'[s].plan[a] = "noop"
      PROVE  a \in Wanted(s)' /\ versions'[a] # <<>> /\ Carries(Newest(a), Cfg(s)[a])'
  <2>0. run \in [Slots -> Runs] /\ versions \in [Apps -> Seq(Version)] /\ count \in Counters
    BY DEF TypeInv, Typed
  <2>1. CASE UNCHANGED versions
    <3>1. /\ a \in Wanted(s) /\ versions[a] # <<>> /\ Carries(Newest(a), Cfg(s)[a])
          /\ run'[s].cfg = run[s].cfg
      <4>1. CASE run[s].plan[a] = "noop"
        <5>1. run[s].pc = "plan" /\ run'[s].cfg = run[s].cfg
          BY <1>2, <4>1, PlanningStep DEF PlanInv
        <5>2. count.removes = 0
          BY <1>2, <2>0, RemovesStay
        <5> QED
          BY <4>1, <5>1, <5>2 DEF PlanInv
      <4>2. CASE run[s].plan[a] # "noop"
        <5>1. versions[a] # <<>> /\ InSync(Newest(a), Cfg(s)[a])
          BY <1>2, <4>2, NoopGrounded
        <5>2. run'[s].cfg = run[s].cfg
          BY <1>2, <4>2, PlanningStep
        <5>3. /\ a \in DOMAIN History[run[s].cfg] /\ Cfg(s) = History[run[s].cfg]
              /\ Cfg(s)[a] \in ApplicationSpec
          BY <1>2, <4>2, NoopPlanned, RunFacts
        <5>4. Newest(a) \in Version
          BY NewestType DEF TypeInv
        <5> QED
          BY <5>1, <5>2, <5>3, <5>4, CarriesImage DEF Wanted
      <4> QED
        BY <4>1, <4>2
    <3> QED
      BY <2>1, <3>1 DEF Newest, Cfg, Wanted
  <2>2. CASE ~UNCHANGED versions
    <3>1. run'[s] = run[s] /\ count.removes = 0
      BY <1>2, <2>0, <2>2, PlanningStep, RemovesStay
    <3>2. a \in Wanted(s) /\ versions[a] # <<>> /\ Carries(Newest(a), Cfg(s)[a])
      BY <1>2, <3>1 DEF PlanInv
    <3>3. PICK b \in Apps, img \in DeployImages : Deploy(b, img)
      <4>1. ~\E t \in Slots : PostVersion(t)
        <5>1. ASSUME NEW t \in Slots, PostVersion(t) PROVE FALSE
          <6>1. t = s /\ run[s].pc = "post"
            BY <5>1 DEF OneCommand, PostVersion
          <6> QED
            BY <1>2, <3>1, <6>1
        <5> QED
          BY <5>1
      <4>2. ~\E b \in Apps : Remove(b)
        BY <1>2, <2>0, <3>1 DEF Remove, Counters
      <4> QED
        BY <2>2, <4>1, <4>2, VersionsStep
    <3>4. CASE b # a
      <4>1. versions'[a] = versions[a]
        BY <2>0, <3>3, <3>4 DEF Deploy
      <4> QED
        BY <3>1, <3>2, <4>1 DEF Newest, Cfg, Wanted
    <3>5. CASE b = a
      <4> DEFINE v == [Newest(a) EXCEPT !.image = img]
      <4>1. versions' = [versions EXCEPT ![a] = Append(@, v)]
        BY <3>3, <3>5 DEF Deploy
      <4>2. Newest(a) \in Version
        BY NewestType DEF TypeInv
      <4>3. v \in Version /\ Carries(v, Cfg(s)[a])
        <5>1. Cfg(s)[a] \in ApplicationSpec
          BY <3>2, RunFacts DEF Wanted
        <5> QED
          BY <3>2, <4>2, <5>1, CarriesImage, DeployedType
      <4> HIDE DEF v
      <4>4. versions'[a] = Append(versions[a], v)
        BY <2>0, <4>1
      <4>5. versions'[a] # <<>> /\ versions'[a][Len(versions'[a])] = v
        BY <2>0, <4>3, <4>4, AppendPosted
      <4> QED
        BY <3>1, <3>2, <4>3, <4>5 DEF Newest, Cfg, Wanted
    <3> QED
      BY <3>4, <3>5
  <2> QED
    BY <2>1, <2>2
<1> QED
  BY <1>1, <1>2 DEF PlanInv

\* A plan without changes, as CreatePlan leaves it.
NothingToDo(s) ==
  run[s].pc = "plan" /\ run'[s].pc = "idle" /\ count.removes = 0 =>
    \A a \in Wanted(s) : versions[a] # <<>> /\ Carries(Newest(a), Cfg(s)[a])

LEMMA NoChangesMeant ==
  ASSUME OneCommand, NumbersMoveOn, MaxVersions <= PageSize
  PROVE  Spec => [][\A s \in Slots : NothingToDo(s)]_vars
<1>1. ASSUME TypeInv, PlanInv, [Next]_vars, NEW s \in Slots PROVE NothingToDo(s)
  <2> SUFFICES ASSUME run[s].pc = "plan", run'[s].pc = "idle", count.removes = 0,
                      NEW a \in Wanted(s)
               PROVE  versions[a] # <<>> /\ Carries(Newest(a), Cfg(s)[a])
    BY DEF NothingToDo
  <2>1. Decide(s)
    BY <1>1, PlanEnds
  <2>2. run[s].plan[a] = "noop" /\ a \in Apps
    <3>1. run[s] \in Runs /\ a \in Apps
      BY <1>1, RunFacts DEF Wanted
    <3>2. (\E b \in Wanted(s) : run[s].plan[b] # "noop") => run'[s].pc = "approve"
      BY <1>1, <2>1, <3>1 DEF Decide, Becomes, TypeInv, Typed, Runs
    <3> QED
      BY <3>1, <3>2
  <2> QED
    BY <1>1, <2>2 DEF PlanInv
<1>2. TypeInv /\ PlanInv /\ [Next]_vars => [\A s \in Slots : NothingToDo(s)]_vars
  BY <1>1
<1>3. PlanInv /\ TypeInv /\ HeldInv /\ WholeInv /\ KnownInv /\ [Next]_vars => PlanInv'
  BY StepPlan
<1> QED
  BY <1>2, <1>3, InitPlan, KnownVersions, PTL DEF Spec

=============================================================================
