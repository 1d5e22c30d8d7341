-------------------------- MODULE InfraSyncProofs --------------------------
(***************************************************************************)
(* Proofs about InfraSync, for every cluster, every number of concurrent   *)
(* commands, every history of the YAML file and every bound.               *)
(*                                                                         *)
(* A plan outlives the listing it was made from.  What keeps it safe is    *)
(* that a deletion names an ID: an object that still has the ID it was     *)
(* planned with still has the settings it had then, and, since an ASG      *)
(* with LBs is not deleted, an LB with its ID still has the same ASG.      *)
(*                                                                         *)
(* What an apply that completes has achieved is proved for one command at  *)
(* a time: another one may undo it before this one is through.             *)
(*                                                                         *)
(* Last, what the comparison of ASGs and LBs tells, for any settings: an   *)
(* object is up to date with the YAML it was made of and with the YAML     *)
(* that is dumped of it, and one that is up to date with a YAML has its    *)
(* settings, every one and no more.                                        *)
(***************************************************************************)
EXTENDS InfraSync, FiniteSetTheorems, WellFoundedInduction, TLAPS

-----------------------------------------------------------------------------
\* The inductive invariant, its parts as functions of the state they speak of.

IsAt(o, id, st, b) == st[o] # "absent" /\ b[o] = id

IsOutdated(o, c, se) ==
  /\ o \in DOMAIN c
  /\ \/ se[o] # c[o]
     \/ o \in LBs /\ Parent[o] \in DOMAIN c /\ se[Parent[o]] # c[Parent[o]]

\* What is planned is in the YAML, and what is to be recreated has an ID in the plan
\* and is outdated for as long as it has that ID.
PlanHolds(r, st, se, b) ==
  \A o \in Objects :
    /\ r.plan[o].kind \in {"create", "recreate"} => o \in DOMAIN History[r.cfg]
    /\ r.plan[o].kind = "recreate" =>
         /\ r.plan[o].id # 0
         /\ r.plan[o].id <= b[o]
         /\ IsAt(o, r.plan[o].id, st, b) => IsOutdated(o, History[r.cfg], se)

\* The ASGs planned are not older than those listed before.
ListHolds(r, b) ==
  /\ r.pc = "planASG" => \A n \in ASGs : r.ids[n] <= b[n]
  /\ r.pc = "planLB" =>
       \A n \in ASGs : r.plan[n].kind = "recreate" => r.ids[n] <= r.plan[n].id

\* The loops of Apply go through what is planned for them.
TodoHolds(r) ==
  /\ r.pc = "deleteLB" => \A o \in r.todo : o \in LBs /\ r.plan[o].kind = "recreate"
  /\ r.pc \in {"deleteASG", "waitASG"} =>
       \A o \in r.todo : o \in ASGs /\ r.plan[o].kind = "recreate"
  /\ r.pc \in {"createASG", "createLB"} =>
       \A o \in r.todo : r.plan[o].kind \in {"create", "recreate"}

RunHolds(r, st, se, b) == PlanHolds(r, st, se, b) /\ ListHolds(r, b) /\ TodoHolds(r)

\* An LB has an ASG, which stays; what exists has an ID.
Anchored ==
  /\ \A l \in LBs : status[l] # "absent" => status[Parent[l]] = "ready"
  /\ \A o \in Objects : status[o] # "absent" => born[o] # 0

Inv ==
  /\ Typed
  /\ Anchored
  /\ \A s \in Slots : RunHolds(run[s], status, setting, born)

\* What a step of the service leaves of an object: a later one has another ID,
\* and what keeps its ID keeps its settings and those of its ASG.
Keeps(st, se, b, st2, se2, b2) ==
  \A o \in Objects :
    /\ b2[o] \in Nat /\ b[o] <= b2[o]
    /\ \A id \in Nat :
         id <= b[o] /\ IsAt(o, id, st2, b2) =>
           /\ IsAt(o, id, st, b)
           /\ se2[o] = se[o]
           /\ o \in LBs => se2[Parent[o]] = se[Parent[o]]

-----------------------------------------------------------------------------
\* Facts about the operators.

LEMMA AtType ==
  ASSUME NEW pc \in Phases
  PROVE  /\ At(pc) \in Runs
         /\ At(pc).pc = pc /\ At(pc).todo = {}
         /\ \A o \in Objects : At(pc).plan[o].kind = "none"
<1>1. 1 \in 1..Len(History)
  BY HistoryAssumption
<1> QED
  BY <1>1 DEF At, Runs, Nothing, Kinds

LEMMA AtRun ==
  ASSUME NEW pc \in Ended, NEW st, NEW se, NEW b
  PROVE  At(pc) \in Runs /\ RunHolds(At(pc), st, se, b)
<1>1. pc \in Phases
  BY DEF Phases, Ended
<1>2. At(pc) \in Runs
  BY <1>1, AtType
<1>3. /\ At(pc).pc \notin {"planASG", "planLB", "deleteLB", "deleteASG", "waitASG",
                           "createASG", "createLB"}
      /\ \A o \in Objects : At(pc).plan[o].kind = "none"
  BY <1>1, AtType DEF Ended
<1> QED
  BY <1>2, <1>3 DEF RunHolds, PlanHolds, ListHolds, TodoHolds

LEMMA KeepsRun ==
  ASSUME NEW r \in Runs, NEW st, NEW se, NEW b, NEW st2, NEW se2, NEW b2,
         b \in [Objects -> Nat],
         Keeps(st, se, b, st2, se2, b2), RunHolds(r, st, se, b)
  PROVE  RunHolds(r, st2, se2, b2)
<1>1. ASSUME NEW o \in Objects, r.plan[o].kind = "recreate"
      PROVE  /\ r.plan[o].id # 0 /\ r.plan[o].id <= b2[o]
             /\ IsAt(o, r.plan[o].id, st2, b2) => IsOutdated(o, History[r.cfg], se2)
  <2> DEFINE id == r.plan[o].id
  <2>1. id \in Nat /\ b[o] \in Nat
    BY DEF Runs
  <2>2. id # 0 /\ id <= b[o] /\ (IsAt(o, id, st, b) => IsOutdated(o, History[r.cfg], se))
    BY <1>1 DEF RunHolds, PlanHolds
  <2>3. b2[o] \in Nat /\ b[o] <= b2[o]
    BY DEF Keeps
  <2>4. IsAt(o, id, st2, b2) =>
          /\ IsAt(o, id, st, b)
          /\ se2[o] = se[o]
          /\ o \in LBs => se2[Parent[o]] = se[Parent[o]]
    BY <2>1, <2>2 DEF Keeps
  <2>5. id <= b2[o]
    BY <2>1, <2>2, <2>3
  <2> QED
    BY <2>2, <2>4, <2>5 DEF IsOutdated
<1>2. ASSUME NEW n \in ASGs, r.pc = "planASG"
      PROVE  r.ids[n] <= b2[n]
  <2>1. n \in Objects
    BY DEF Objects
  <2>2. r.ids[n] \in Nat /\ b[n] \in Nat /\ b2[n] \in Nat /\ b[n] <= b2[n]
    BY <2>1 DEF Runs, Keeps
  <2>3. r.ids[n] <= b[n]
    BY <1>2 DEF RunHolds, ListHolds
  <2> QED
    BY <2>2, <2>3
<1>3. PlanHolds(r, st2, se2, b2)
  BY <1>1 DEF RunHolds, PlanHolds
<1>4. ListHolds(r, b2)
  BY <1>2 DEF RunHolds, ListHolds
<1> QED
  BY <1>3, <1>4 DEF RunHolds

\* A step of one slot: the others only see what the service did.
LEMMA BecomesInv ==
  ASSUME Inv, NEW s \in Slots, NEW r \in Runs, Becomes(s, r),
         Keeps(status, setting, born, status', setting', born'),
         RunHolds(r, status', setting', born')
  PROVE  /\ run' \in [Slots -> Runs]
         /\ \A t \in Slots : RunHolds(run'[t], status', setting', born')
<1>1. run \in [Slots -> Runs] /\ born \in [Objects -> Nat]
  BY DEF Inv, Typed
<1>2. run' \in [Slots -> Runs] /\ run'[s] = r /\ \A t \in Slots \ {s} : run'[t] = run[t]
  BY <1>1 DEF Becomes
<1>3. ASSUME NEW t \in Slots, t # s
      PROVE  RunHolds(run'[t], status', setting', born')
  <2>1. run'[t] = run[t] /\ run[t] \in Runs
    BY <1>1, <1>2, <1>3
  <2>2. RunHolds(run[t], status, setting, born)
    BY DEF Inv
  <2> QED
    BY <1>1, <2>1, <2>2, KeepsRun
<1> QED
  BY <1>2, <1>3

LEMMA EndInv ==
  ASSUME Inv, NEW s \in Slots, NEW pc \in Ended, End(s, pc),
         Keeps(status, setting, born, status', setting', born')
  PROVE  /\ run' \in [Slots -> Runs]
         /\ \A t \in Slots : RunHolds(run'[t], status', setting', born')
<1>1. At(pc) \in Runs /\ RunHolds(At(pc), status', setting', born') /\ Becomes(s, At(pc))
  BY AtRun DEF End
<1> QED
  BY <1>1, BecomesInv

-----------------------------------------------------------------------------
\* What the service does.

ServiceStep ==
  /\ Keeps(status, setting, born, status', setting', born')
  /\ status' \in [Objects -> Statuses]
  /\ setting' \in [Objects -> Values \cup {None}]
  /\ born' \in [Objects -> Nat]
  /\ Anchored'

LEMMA UnchangedKeeps ==
  ASSUME Typed, Anchored, UNCHANGED service
  PROVE  ServiceStep
<1>1. born \in [Objects -> Nat]
  BY DEF Typed
<1>2. status' = status /\ setting' = setting /\ born' = born
  BY DEF service
<1> QED
  BY <1>1, <1>2 DEF Typed, Keeps, Anchored, ServiceStep

LEMMA DeletedKeeps ==
  ASSUME Typed, Anchored, NEW o \in Objects, Deleted(o), status[o] # "absent",
         o \in ASGs => Attached(o) = {}
  PROVE  ServiceStep
<1>1. /\ status \in [Objects -> Statuses] /\ born \in [Objects -> Nat]
      /\ setting \in [Objects -> Values \cup {None}]
  BY DEF Typed
<1>2. status' = [status EXCEPT ![o] = "deleting"] /\ setting' = setting /\ born' = born
  BY DEF Deleted
<1>3. \A p \in Objects : status'[p] # "absent" => status[p] # "absent"
  BY <1>1, <1>2
<1>4. Keeps(status, setting, born, status', setting', born')
  BY <1>1, <1>2, <1>3 DEF Keeps, IsAt
<1>5. ASSUME NEW l \in LBs, status'[l] # "absent" PROVE status'[Parent[l]] = "ready"
  <2>1. l \in Objects /\ Parent[l] \in ASGs /\ Parent[l] \in Objects
    BY ObjectsAssumption DEF Objects
  <2>2. status[Parent[l]] = "ready" /\ status[l] # "absent"
    BY <1>3, <1>5, <2>1 DEF Anchored
  <2>3. Parent[l] # o
    BY <2>1, <2>2 DEF Attached
  <2> QED
    BY <1>1, <1>2, <2>1, <2>2, <2>3
<1>6. \A p \in Objects : status'[p] # "absent" => born'[p] # 0
  BY <1>2, <1>3 DEF Anchored
<1> QED
  BY <1>1, <1>2, <1>4, <1>5, <1>6 DEF Statuses, Anchored, ServiceStep

LEMMA GoneKeeps ==
  ASSUME Typed, Anchored, NEW o \in Objects, Gone(o)
  PROVE  ServiceStep
<1>1. /\ status \in [Objects -> Statuses] /\ born \in [Objects -> Nat]
      /\ setting \in [Objects -> Values \cup {None}]
  BY DEF Typed
<1>2. /\ status[o] = "deleting"
      /\ status' = [status EXCEPT ![o] = "absent"] /\ setting' = setting /\ born' = born
  BY DEF Gone
<1>3. \A p \in Objects : status'[p] # "absent" => status[p] # "absent"
  BY <1>1, <1>2
<1>4. Keeps(status, setting, born, status', setting', born')
  BY <1>1, <1>2, <1>3 DEF Keeps, IsAt
<1>5. ASSUME NEW l \in LBs, status'[l] # "absent" PROVE status'[Parent[l]] = "ready"
  <2>1. l \in Objects /\ Parent[l] \in Objects
    BY ObjectsAssumption DEF Objects
  <2>2. status[Parent[l]] = "ready"
    BY <1>3, <1>5, <2>1 DEF Anchored
  <2>3. Parent[l] # o
    BY <1>2, <2>2
  <2> QED
    BY <1>1, <1>2, <2>1, <2>2, <2>3
<1>6. \A p \in Objects : status'[p] # "absent" => born'[p] # 0
  BY <1>2, <1>3 DEF Anchored
<1> QED
  BY <1>1, <1>2, <1>4, <1>5, <1>6 DEF Statuses, Anchored, ServiceStep

LEMMA CreatedKeeps ==
  ASSUME Typed, Anchored, NEW o \in Objects, NEW v \in Values, Created(o, v),
         o \in LBs => status[Parent[o]] = "ready"
  PROVE  ServiceStep
<1>1. /\ status \in [Objects -> Statuses] /\ born \in [Objects -> Nat]
      /\ setting \in [Objects -> Values \cup {None}]
  BY DEF Typed
<1>2. /\ status[o] = "absent"
      /\ status' = [status EXCEPT ![o] = "ready"]
      /\ setting' = [setting EXCEPT ![o] = v]
      /\ born' = [born EXCEPT ![o] = @ + 1]
  BY DEF Created
<1>3. \A p \in Objects \ {o} :
        status'[p] = status[p] /\ setting'[p] = setting[p] /\ born'[p] = born[p]
  BY <1>1, <1>2
<1>4. status'[o] = "ready" /\ born'[o] = born[o] + 1
  BY <1>1, <1>2
<1>5. \A l \in LBs : status[l] # "absent" => Parent[l] # o
  BY <1>2 DEF Anchored
<1>6. Keeps(status, setting, born, status', setting', born')
  <2>1. SUFFICES ASSUME NEW p \in Objects
                 PROVE  /\ born'[p] \in Nat /\ born[p] <= born'[p]
                        /\ \A id \in Nat :
                             id <= born[p] /\ IsAt(p, id, status', born') =>
                               /\ IsAt(p, id, status, born)
                               /\ setting'[p] = setting[p]
                               /\ p \in LBs => setting'[Parent[p]] = setting[Parent[p]]
    BY DEF Keeps
  <2>2. CASE p = o
    <3>1. born[o] \in Nat
      BY <1>1
    <3> QED
      BY <1>4, <2>2, <3>1 DEF IsAt
  <2>3. CASE p # o
    <3>1. status'[p] = status[p] /\ setting'[p] = setting[p] /\ born'[p] = born[p]
      BY <1>3, <2>3
    <3>2. born[p] \in Nat
      BY <1>1
    <3>3. ASSUME p \in LBs, status[p] # "absent"
          PROVE  setting'[Parent[p]] = setting[Parent[p]]
      <4>1. Parent[p] \in Objects /\ Parent[p] # o
        BY <1>5, <3>3, ObjectsAssumption DEF Objects
      <4> QED
        BY <1>3, <4>1
    <3> QED
      BY <3>1, <3>2, <3>3 DEF IsAt
  <2> QED
    BY <2>2, <2>3
<1>7. ASSUME NEW l \in LBs, status'[l] # "absent" PROVE status'[Parent[l]] = "ready"
  <2>1. l \in Objects /\ Parent[l] \in Objects
    BY ObjectsAssumption DEF Objects
  <2>2. CASE l = o
    <3>1. Parent[l] # o
      BY <1>2, <2>2
    <3> QED
      BY <1>3, <2>1, <2>2, <3>1
  <2>3. CASE l # o
    <3>1. status[Parent[l]] = "ready"
      BY <1>3, <1>7, <2>1, <2>3 DEF Anchored
    <3>2. Parent[l] # o
      BY <1>2, <3>1
    <3> QED
      BY <1>3, <2>1, <3>1, <3>2
  <2> QED
    BY <2>2, <2>3
<1>8. ASSUME NEW p \in Objects, status'[p] # "absent" PROVE born'[p] # 0
  <2>1. CASE p = o
    BY <1>1, <1>4, <2>1
  <2>2. CASE p # o
    BY <1>3, <1>8, <2>2 DEF Anchored
  <2> QED
    BY <2>1, <2>2
<1> QED
  BY <1>1, <1>2, <1>6, <1>7, <1>8 DEF Statuses, Anchored, ServiceStep

-----------------------------------------------------------------------------
\* Each step of a command.

\* The command in slot s.
LEMMA RunFacts ==
  ASSUME Inv, NEW s \in Slots
  PROVE  /\ run[s] \in Runs
         /\ RunHolds(run[s], status, setting, born)
         /\ Cfg(s) = History[run[s].cfg]
         /\ run[s].cfg \in 1..Len(History)
         /\ Wanted(s) = DOMAIN Cfg(s)
         /\ \A o \in Wanted(s) : o \in Objects /\ Cfg(s)[o] \in Values
<1>1. run[s] \in Runs /\ RunHolds(run[s], status, setting, born)
  BY DEF Inv, Typed
<1>2. run[s].cfg \in 1..Len(History)
  BY <1>1 DEF Runs
<1> QED
  BY <1>1, <1>2, HistoryAssumption DEF Cfg, Wanted

\* Once a plan is made, a command changes neither it nor its YAML.
LEMMA PlanMade ==
  ASSUME NEW r, NEW r2, NEW st, NEW se, NEW b,
         RunHolds(r, st, se, b), r2.plan = r.plan, r2.cfg = r.cfg,
         r2.pc \notin {"planASG", "planLB"}, TodoHolds(r2)
  PROVE  RunHolds(r2, st, se, b)
BY DEF RunHolds, PlanHolds, ListHolds

LEMMA StartInv ==
  ASSUME Inv, NEW s \in Slots, Start(s)
  PROVE  Inv'
<1> DEFINE r2 == [At("list") EXCEPT !.cfg = yaml]
<1>1. /\ Becomes(s, r2) /\ yaml' = yaml /\ count' = count /\ UNCHANGED service
  BY DEF Start
<1>2. ServiceStep
  BY <1>1, UnchangedKeeps DEF Inv
<1>3. yaml \in 1..Len(History) /\ count \in Counters
  BY DEF Inv, Typed
<1>4. At("list") \in Runs /\ At("list").pc = "list"
      /\ \A o \in Objects : At("list").plan[o].kind = "none"
  BY AtType DEF Phases
<1>5. r2 \in Runs /\ r2.pc = "list" /\ \A o \in Objects : r2.plan[o].kind = "none"
  BY <1>3, <1>4 DEF Runs
<1>6. RunHolds(r2, status', setting', born')
  <2> HIDE DEF r2
  <2> QED
    BY <1>5 DEF RunHolds, PlanHolds, ListHolds, TodoHolds
<1>7. /\ run' \in [Slots -> Runs]
      /\ \A t \in Slots : RunHolds(run'[t], status', setting', born')
  <2> HIDE DEF r2
  <2> QED
    BY <1>1, <1>2, <1>5, <1>6, BecomesInv DEF ServiceStep
<1> QED
  BY <1>1, <1>2, <1>3, <1>7 DEF Inv, Typed, ServiceStep

LEMMA ListASGsInv ==
  ASSUME Inv, NEW s \in Slots, ListASGs(s)
  PROVE  Inv'
<1> DEFINE r2 == [run[s] EXCEPT !.pc = "planASG", !.ids = IDs]
<1>1. /\ Becomes(s, r2) /\ yaml' = yaml /\ count' = count /\ UNCHANGED service
  BY DEF ListASGs
<1>2. ServiceStep /\ status' = status /\ setting' = setting /\ born' = born
  BY <1>1, UnchangedKeeps DEF Inv, service
<1>3. /\ born \in [Objects -> Nat] /\ yaml \in 1..Len(History) /\ count \in Counters
  BY DEF Inv, Typed
<1>4. IDs \in [ASGs -> Nat] /\ \A n \in ASGs : IDs[n] <= born[n]
  BY <1>3 DEF IDs, Objects
<1>5. run[s] \in Runs /\ RunHolds(run[s], status, setting, born)
  BY RunFacts
<1>6. /\ r2 \in Runs /\ r2.pc = "planASG" /\ r2.ids = IDs
      /\ r2.cfg = run[s].cfg /\ r2.plan = run[s].plan
  BY <1>4, <1>5 DEF Runs, Phases
<1>7. RunHolds(r2, status', setting', born')
  <2> HIDE DEF r2
  <2> QED
    BY <1>2, <1>4, <1>5, <1>6 DEF RunHolds, PlanHolds, ListHolds, TodoHolds
<1>8. /\ run' \in [Slots -> Runs]
      /\ \A t \in Slots : RunHolds(run'[t], status', setting', born')
  <2> HIDE DEF r2
  <2> QED
    BY <1>1, <1>2, <1>6, <1>7, BecomesInv DEF ServiceStep
<1> QED
  BY <1>1, <1>2, <1>3, <1>8 DEF Inv, Typed, ServiceStep

LEMMA PlanASGsInv ==
  ASSUME Inv, NEW s \in Slots, PlanASGs(s)
  PROVE  Inv'
<1> DEFINE r == run[s]
           plan2 == [o \in Objects |->
                       IF o \in ASGs THEN ASGAction(s, o)
                       ELSE IF o \in Wanted(s) /\ run[s].ids[Parent[o]] = 0
                            THEN Action("create", 0) ELSE Nothing]
           todo2 == {n \in ASGs : run[s].ids[n] # 0}
           r2 == [r EXCEPT !.pc = "planLB", !.plan = plan2, !.todo = todo2]
<1>1. /\ r.pc = "planASG"
      /\ Becomes(s, r2) /\ yaml' = yaml /\ count' = count /\ UNCHANGED service
  BY DEF PlanASGs
<1>2. ServiceStep /\ born' = born /\ status' = status /\ setting' = setting
  BY <1>1, UnchangedKeeps DEF Inv, service
<1>3. /\ born \in [Objects -> Nat] /\ yaml \in 1..Len(History) /\ count \in Counters
  BY DEF Inv, Typed
<1>4. r \in Runs /\ RunHolds(r, status, setting, born) /\ Cfg(s) = History[r.cfg]
      /\ Wanted(s) = DOMAIN History[r.cfg]
  BY RunFacts
<1>5. ASSUME NEW o \in Objects
      PROVE  /\ plan2[o] \in [kind : Kinds, id : Nat]
             /\ plan2[o].kind \in {"create", "recreate"} => o \in DOMAIN History[r.cfg]
             /\ plan2[o].kind = "recreate" =>
                  /\ o \in ASGs /\ plan2[o].id = born[o] /\ born[o] # 0
                  /\ IsOutdated(o, History[r.cfg], setting)
  <2>1. born[o] \in Nat /\ (status[o] # "absent" => born[o] # 0)
    BY <1>3 DEF Inv, Anchored
  <2>2. CASE o \in ASGs
    <3>1. plan2[o] = ASGAction(s, o)
      BY <2>2
    <3> QED
      BY <1>4, <2>1, <2>2, <3>1 DEF ASGAction, Action, Nothing, Kinds, IsOutdated
  <2>3. CASE o \notin ASGs
    BY <1>4, <2>3 DEF Action, Nothing, Kinds
  <2> QED
    BY <2>2, <2>3
<1>6. /\ r2.pc = "planLB" /\ r2.cfg = r.cfg /\ r2.ids = r.ids /\ r2.plan = plan2
      /\ r2.todo = todo2 /\ r2.at = r.at
  BY <1>4 DEF Runs
<1>7. plan2 \in [Objects -> [kind : Kinds, id : Nat]]
  BY <1>5
<1>8. r2 \in Runs
  BY <1>4, <1>7 DEF Runs, Phases, Objects
<1>9. ASSUME NEW n \in ASGs, plan2[n].kind = "recreate" PROVE r.ids[n] <= plan2[n].id
  <2>1. n \in Objects
    BY DEF Objects
  <2>2. r.ids[n] <= born[n]
    BY <1>1, <1>4 DEF RunHolds, ListHolds
  <2> QED
    BY <1>5, <1>9, <2>1, <2>2
<1>10. PlanHolds(r2, status', setting', born')
  <2>1. \A o \in Objects : born[o] \in Nat
    BY <1>3
  <2> HIDE DEF plan2
  <2> QED
    BY <1>2, <1>5, <1>6, <2>1 DEF PlanHolds
<1>11. ListHolds(r2, born') /\ TodoHolds(r2)
  <2> HIDE DEF plan2, r2
  <2> QED
    BY <1>6, <1>9 DEF ListHolds, TodoHolds
<1>12. /\ run' \in [Slots -> Runs]
       /\ \A t \in Slots : RunHolds(run'[t], status', setting', born')
  <2>1. RunHolds(r2, status', setting', born')
    BY <1>10, <1>11 DEF RunHolds
  <2> HIDE DEF r2
  <2> QED
    BY <1>1, <1>2, <1>8, <2>1, BecomesInv DEF ServiceStep
<1> QED
  BY <1>1, <1>2, <1>3, <1>12 DEF Inv, Typed, ServiceStep

\* An LB is planned to be recreated with its ASG: since the ASG that was listed
\* first is still there, it is the one that was planned.
LEMMA PlanLBsInv ==
  ASSUME Inv, NEW s \in Slots, NEW n \in ASGs, PlanLBs(s, n)
  PROVE  Inv'
<1> DEFINE r == run[s]
           plan2 == [o \in Objects |->
                       IF o \in LBs /\ Parent[o] = n THEN LBAction(s, o) ELSE r.plan[o]]
           r2 == [r EXCEPT !.plan = plan2, !.todo = @ \ {n}]
<1>1. /\ r.pc = "planLB" /\ yaml' = yaml /\ count' = count /\ UNCHANGED service
  BY DEF PlanLBs
<1>2. ServiceStep /\ born' = born /\ status' = status /\ setting' = setting
  BY <1>1, UnchangedKeeps DEF Inv, service
<1>3. /\ born \in [Objects -> Nat] /\ yaml \in 1..Len(History) /\ count \in Counters
  BY DEF Inv, Typed
<1>4. r \in Runs /\ RunHolds(r, status, setting, born) /\ Cfg(s) = History[r.cfg]
      /\ Wanted(s) = DOMAIN History[r.cfg]
  BY RunFacts
<1>5. CASE ~Alive(n, r.ids[n])
  <2>1. End(s, "failed")
    BY <1>5 DEF PlanLBs
  <2>2. /\ run' \in [Slots -> Runs]
        /\ \A t \in Slots : RunHolds(run'[t], status', setting', born')
    BY <1>2, <2>1, EndInv DEF Ended, ServiceStep
  <2> QED
    BY <1>1, <1>2, <1>3, <2>2 DEF Inv, Typed, ServiceStep
<1>6. CASE Alive(n, r.ids[n])
  <2>1. Becomes(s, r2)
    BY <1>6 DEF PlanLBs
  <2>2. n \in Objects /\ born[n] = r.ids[n] /\ status[n] # "absent"
    BY <1>6 DEF Alive, Objects
  <2>3. r.plan \in [Objects -> [kind : Kinds, id : Nat]]
    BY <1>4 DEF Runs
  <2>4. r.plan[n].kind = "recreate" => n \in Wanted(s) /\ setting[n] # Cfg(s)[n]
    <3>1. SUFFICES ASSUME r.plan[n].kind = "recreate"
                   PROVE  n \in Wanted(s) /\ setting[n] # Cfg(s)[n]
      OBVIOUS
    <3>2. r.ids[n] <= r.plan[n].id
      BY <1>1, <1>4, <3>1 DEF RunHolds, ListHolds
    <3>3. /\ r.plan[n].id <= born[n]
          /\ IsAt(n, r.plan[n].id, status, born) => IsOutdated(n, Cfg(s), setting)
      BY <1>4, <2>2, <3>1 DEF RunHolds, PlanHolds
    <3>4. r.plan[n].id \in Nat /\ born[n] \in Nat
      BY <1>3, <2>2, <2>3
    <3>5. r.plan[n].id = born[n]
      BY <2>2, <3>2, <3>3, <3>4
    <3>6. IsOutdated(n, Cfg(s), setting)
      BY <2>2, <3>3, <3>5 DEF IsAt
    <3>7. n \notin LBs
      BY ObjectsAssumption
    <3> QED
      BY <1>4, <3>6, <3>7 DEF IsOutdated
  <2>5. ASSUME NEW o \in Objects
        PROVE  /\ plan2[o] \in [kind : Kinds, id : Nat]
               /\ plan2[o].kind \in {"create", "recreate"} => o \in DOMAIN History[r.cfg]
               /\ plan2[o].kind = "recreate" =>
                    /\ plan2[o].id # 0 /\ plan2[o].id <= born[o]
                    /\ IsAt(o, plan2[o].id, status, born)
                         => IsOutdated(o, History[r.cfg], setting)
    <3>1. born[o] \in Nat /\ (status[o] # "absent" => born[o] # 0)
      BY <1>3 DEF Inv, Anchored
    <3>2. CASE o \in LBs /\ Parent[o] = n
      <4>1. plan2[o] = LBAction(s, o)
        BY <3>2
      <4>2. LBAction(s, o).kind = "recreate" =>
              /\ o \in Wanted(s) /\ LBAction(s, o).id = born[o] /\ status[o] # "absent"
              /\ r.plan[n].kind = "recreate" \/ setting[o] # Cfg(s)[o]
        BY <3>2 DEF LBAction, Action, Nothing
      <4>3. LBAction(s, o) \in [kind : Kinds, id : Nat]
        BY <3>1 DEF LBAction, Action, Nothing, Kinds
      <4>4. LBAction(s, o).kind \in {"create", "recreate"} => o \in Wanted(s)
        BY DEF LBAction, Action, Nothing
      <4> QED
        BY <1>4, <2>4, <3>1, <3>2, <4>1, <4>2, <4>3, <4>4 DEF IsOutdated
    <3>3. CASE ~(o \in LBs /\ Parent[o] = n)
      <4>1. plan2[o] = r.plan[o]
        BY <3>3
      <4> QED
        BY <1>4, <2>3, <4>1 DEF RunHolds, PlanHolds
    <3> QED
      BY <3>2, <3>3
  <2>6. /\ r2.pc = "planLB" /\ r2.cfg = r.cfg /\ r2.ids = r.ids /\ r2.plan = plan2
        /\ r2.todo = r.todo \ {n} /\ r2.at = r.at
    BY <1>1, <1>4 DEF Runs
  <2>7. plan2 \in [Objects -> [kind : Kinds, id : Nat]]
    BY <2>5
  <2>8. r2 \in Runs
    BY <1>4, <2>7 DEF Runs
  <2>9. \A m \in ASGs : plan2[m] = r.plan[m]
    BY ObjectsAssumption DEF Objects
  <2>10. RunHolds(r2, status', setting', born')
    <3> HIDE DEF plan2, r2
    <3>1. PlanHolds(r2, status', setting', born')
      BY <1>2, <2>5, <2>6 DEF PlanHolds
    <3>2. ListHolds(r2, born')
      BY <1>1, <1>4, <2>6, <2>9 DEF RunHolds, ListHolds
    <3>3. TodoHolds(r2)
      BY <2>6 DEF TodoHolds
    <3> QED
      BY <3>1, <3>2, <3>3 DEF RunHolds
  <2>11. /\ run' \in [Slots -> Runs]
         /\ \A t \in Slots : RunHolds(run'[t], status', setting', born')
    <3> HIDE DEF r2
    <3> QED
      BY <1>2, <2>1, <2>8, <2>10, BecomesInv DEF ServiceStep
  <2> QED
    BY <1>1, <1>2, <1>3, <2>11 DEF Inv, Typed, ServiceStep
<1> QED
  BY <1>5, <1>6

\* A command ends without a further call.
LEMMA EndStep ==
  ASSUME Inv, NEW s \in Slots, NEW pc \in Ended, End(s, pc),
         UNCHANGED service, yaml' = yaml, count' \in Counters
  PROVE  Inv'
<1>1. ServiceStep
  BY UnchangedKeeps DEF Inv
<1>2. /\ run' \in [Slots -> Runs]
      /\ \A t \in Slots : RunHolds(run'[t], status', setting', born')
  BY <1>1, EndInv DEF ServiceStep
<1> QED
  BY <1>1, <1>2 DEF Inv, Typed, ServiceStep

\* A command goes on with the plan it has.
LEMMA GoOn ==
  ASSUME Inv, NEW s \in Slots, NEW r \in Runs, Becomes(s, r), ServiceStep,
         yaml' = yaml, count' \in Counters,
         r.plan = run[s].plan, r.cfg = run[s].cfg,
         r.pc \notin {"planASG", "planLB"}, TodoHolds(r)
  PROVE  Inv'
<1>1. /\ run[s] \in Runs /\ RunHolds(run[s], status, setting, born)
      /\ born \in [Objects -> Nat]
  BY RunFacts DEF Inv, Typed
<1>2. RunHolds(run[s], status', setting', born')
  BY <1>1, KeepsRun DEF ServiceStep
<1>3. RunHolds(r, status', setting', born')
  BY <1>2, PlanMade
<1>4. /\ run' \in [Slots -> Runs]
      /\ \A t \in Slots : RunHolds(run'[t], status', setting', born')
  BY <1>3, BecomesInv DEF ServiceStep
<1> QED
  BY <1>4 DEF Inv, Typed, ServiceStep

\* The next loop of Apply.
LEMMA EnterStep ==
  ASSUME Inv, NEW s \in Slots, NEW r \in Runs,
         NEW pc \in {"deleteLB", "waitLB", "deleteASG", "createASG", "createLB"},
         Becomes(s, Enter(r, pc)), r.plan = run[s].plan, r.cfg = run[s].cfg,
         UNCHANGED service, yaml' = yaml, count' = count
  PROVE  Inv'
<1> DEFINE r2 == Enter(r, pc)
<1>1. Work(r, pc) \subseteq Objects
  BY DEF Work, Objects
<1>2. r2 \in Runs /\ r2.plan = r.plan /\ r2.cfg = r.cfg /\ r2.pc = pc /\ r2.todo = Work(r, pc)
  BY <1>1 DEF Enter, Runs, Phases
<1>3. TodoHolds(r2)
  <2> HIDE DEF r2
  <2> QED
    BY <1>2 DEF TodoHolds, Work
<1>4. ServiceStep /\ count' \in Counters
  BY UnchangedKeeps DEF Inv, Typed
<1> QED
  <2> HIDE DEF r2
  <2>1. Becomes(s, r2)
    BY DEF r2
  <2> QED
    BY <1>2, <1>3, <1>4, <2>1, GoOn

\* An object is done in the loop at hand.
LEMMA DoneStep ==
  ASSUME Inv, NEW s \in Slots, NEW o, NEW r \in Runs,
         Becomes(s, r), ServiceStep, r.plan = run[s].plan, r.cfg = run[s].cfg, r.pc = run[s].pc,
         r.todo = run[s].todo \ {o}, r.pc \notin {"planASG", "planLB"},
         yaml' = yaml, count' \in Counters
  PROVE  Inv'
<1>1. TodoHolds(run[s])
  BY RunFacts DEF RunHolds
<1>2. TodoHolds(r)
  BY <1>1 DEF TodoHolds
<1> QED
  BY <1>2, GoOn

LEMMA DeleteLBInv ==
  ASSUME Inv, NEW s \in Slots, NEW l \in LBs, DeleteLB(s, l)
  PROVE  Inv'
<1>1. /\ run[s].pc = "deleteLB" /\ yaml' = yaml /\ count' = count /\ count \in Counters
      /\ l \in Objects /\ l \notin ASGs
  BY ObjectsAssumption DEF DeleteLB, Turn, Inv, Typed, Objects
<1>2. CASE End(s, "failed") /\ UNCHANGED service
  BY <1>1, <1>2, EndStep DEF Ended
<1>3. CASE /\ Alive(l, Target(s, l)) /\ Deleted(l)
           /\ Becomes(s, [run[s] EXCEPT !.todo = @ \ {l}])
  <2> DEFINE r == [run[s] EXCEPT !.todo = @ \ {l}]
  <2>1. ServiceStep
    BY <1>1, <1>3, DeletedKeeps DEF Alive, Inv
  <2>2. /\ r \in Runs /\ r.plan = run[s].plan /\ r.cfg = run[s].cfg /\ r.pc = run[s].pc
        /\ r.todo = run[s].todo \ {l}
    BY RunFacts DEF Runs
  <2> HIDE DEF r
  <2>3. Becomes(s, r)
    BY <1>3 DEF r
  <2> QED
    BY <1>1, <2>1, <2>2, <2>3, DoneStep
<1> QED
  BY <1>2, <1>3 DEF DeleteLB

LEMMA PolledCount ==
  ASSUME Inv, NEW o, NEW id, PolledGone(o, id)
  PROVE  count' \in Counters
<1>1. count \in Counters
  BY DEF Inv, Typed
<1>2. CASE count' = count
  BY <1>1, <1>2
<1>3. CASE count.glitches < MaxGlitches /\ count' = [count EXCEPT !.glitches = @ + 1]
  BY <1>1, <1>3, BoundsAssumption DEF Counters
<1> QED
  BY <1>2, <1>3 DEF PolledGone

LEMMA WaitLBInv ==
  ASSUME Inv, NEW s \in Slots, NEW l \in LBs, WaitLB(s, l)
  PROVE  Inv'
<1> DEFINE r == [run[s] EXCEPT !.todo = @ \ {l}]
<1>1. /\ run[s].pc = "waitLB" /\ yaml' = yaml /\ UNCHANGED service
      /\ Becomes(s, r)
  BY DEF WaitLB, Turn
<1>2. count' \in Counters
  BY PolledCount DEF WaitLB
<1>3. /\ r \in Runs /\ r.plan = run[s].plan /\ r.cfg = run[s].cfg /\ r.pc = run[s].pc
      /\ r.todo = run[s].todo \ {l}
  BY RunFacts DEF Runs
<1>4. ServiceStep
  BY <1>1, UnchangedKeeps DEF Inv
<1> HIDE DEF r
<1> QED
  BY <1>1, <1>2, <1>3, <1>4, DoneStep

LEMMA DeleteASGInv ==
  ASSUME Inv, NEW s \in Slots, NEW n \in ASGs, DeleteASG(s, n)
  PROVE  Inv'
<1>1. /\ run[s].pc = "deleteASG" /\ yaml' = yaml /\ count' = count /\ count \in Counters
      /\ n \in Objects
  BY DEF DeleteASG, Turn, Inv, Typed, Objects
<1>2. CASE End(s, "failed") /\ UNCHANGED service
  BY <1>1, <1>2, EndStep DEF Ended
<1>3. CASE /\ Alive(n, Target(s, n)) /\ Attached(n) = {} /\ Deleted(n)
           /\ Becomes(s, [run[s] EXCEPT !.pc = "waitASG", !.todo = @ \ {n}, !.at = n])
  <2> DEFINE r == [run[s] EXCEPT !.pc = "waitASG", !.todo = @ \ {n}, !.at = n]
  <2>1. ServiceStep
    BY <1>1, <1>3, DeletedKeeps DEF Alive, Inv
  <2>2. /\ r \in Runs /\ r.plan = run[s].plan /\ r.cfg = run[s].cfg /\ r.pc = "waitASG"
        /\ r.todo = run[s].todo \ {n}
    BY RunFacts DEF Runs, Phases
  <2> HIDE DEF r
  <2>3. Becomes(s, r)
    BY <1>3 DEF r
  <2>4. TodoHolds(run[s])
    BY RunFacts DEF RunHolds
  <2>5. TodoHolds(r)
    BY <1>1, <2>2, <2>4 DEF TodoHolds
  <2> QED
    BY <1>1, <2>1, <2>2, <2>3, <2>5, GoOn
<1> QED
  BY <1>2, <1>3 DEF DeleteASG

LEMMA WaitASGInv ==
  ASSUME Inv, NEW s \in Slots, NEW n \in ASGs, WaitASG(s, n)
  PROVE  Inv'
<1> DEFINE r == [run[s] EXCEPT !.pc = "deleteASG", !.at = None, !.ids[n] = 0]
<1>1. /\ run[s].pc = "waitASG" /\ yaml' = yaml /\ UNCHANGED service
      /\ Becomes(s, r)
  BY DEF WaitASG
<1>2. count' \in Counters
  BY PolledCount DEF WaitASG
<1>3. /\ r \in Runs /\ r.plan = run[s].plan /\ r.cfg = run[s].cfg /\ r.pc = "deleteASG"
      /\ r.todo = run[s].todo
  BY RunFacts DEF Runs, Phases
<1>4. ServiceStep
  BY <1>1, UnchangedKeeps DEF Inv
<1> HIDE DEF r
<1>5. TodoHolds(run[s])
  BY RunFacts DEF RunHolds
<1>6. TodoHolds(r)
  BY <1>1, <1>3, <1>5 DEF TodoHolds
<1> QED
  BY <1>1, <1>2, <1>3, <1>4, <1>6, GoOn

\* What a command creates has the settings of its YAML.
LEMMA CreateWanted ==
  ASSUME Inv, NEW s \in Slots, NEW pc \in {"createASG", "createLB"}, NEW o, Turn(s, pc, o)
  PROVE  o \in Objects /\ Cfg(s)[o] \in Values
<1>1. /\ run[s] \in Runs /\ RunHolds(run[s], status, setting, born)
      /\ Cfg(s) = History[run[s].cfg]
      /\ \A p \in DOMAIN History[run[s].cfg] : p \in Objects /\ Cfg(s)[p] \in Values
  BY RunFacts
<1>2. o \in run[s].todo /\ o \in Objects /\ run[s].pc = pc
  BY <1>1 DEF Turn, Runs
<1>3. run[s].plan[o].kind \in {"create", "recreate"}
  BY <1>1, <1>2 DEF RunHolds, TodoHolds
<1> QED
  BY <1>1, <1>2, <1>3 DEF RunHolds, PlanHolds

LEMMA CreateASGInv ==
  ASSUME Inv, NEW s \in Slots, NEW n \in ASGs, CreateASG(s, n)
  PROVE  Inv'
<1>1. /\ Turn(s, "createASG", n) /\ run[s].pc = "createASG"
      /\ yaml' = yaml /\ count' = count /\ count \in Counters
      /\ n \in Objects /\ n \notin LBs /\ born[n] \in Nat
  BY ObjectsAssumption DEF CreateASG, Turn, Inv, Typed, Objects
<1>2. CASE End(s, "failed") /\ UNCHANGED service
  BY <1>1, <1>2, EndStep DEF Ended
<1>3. CASE /\ Created(n, Cfg(s)[n])
           /\ Becomes(s, [run[s] EXCEPT !.todo = @ \ {n}, !.ids[n] = born[n] + 1])
  <2> DEFINE r == [run[s] EXCEPT !.todo = @ \ {n}, !.ids[n] = born[n] + 1]
  <2>1. Cfg(s)[n] \in Values
    BY <1>1, CreateWanted
  <2>2. ServiceStep
    BY <1>1, <1>3, <2>1, CreatedKeeps DEF Inv
  <2>3. /\ r \in Runs /\ r.plan = run[s].plan /\ r.cfg = run[s].cfg /\ r.pc = run[s].pc
        /\ r.todo = run[s].todo \ {n}
    <3>1. run[s] \in Runs /\ born[n] + 1 \in Nat
      BY <1>1, RunFacts
    <3>2. [run[s].ids EXCEPT ![n] = born[n] + 1] \in [ASGs -> Nat]
      BY <3>1 DEF Runs
    <3> QED
      BY <3>1, <3>2 DEF Runs
  <2> HIDE DEF r
  <2>4. Becomes(s, r)
    BY <1>3 DEF r
  <2> QED
    BY <1>1, <2>2, <2>3, <2>4, DoneStep
<1> QED
  BY <1>2, <1>3 DEF CreateASG

LEMMA CreateLBInv ==
  ASSUME Inv, NEW s \in Slots, NEW l \in LBs, CreateLB(s, l)
  PROVE  Inv'
<1>1. /\ Turn(s, "createLB", l) /\ run[s].pc = "createLB"
      /\ yaml' = yaml /\ count' = count /\ count \in Counters
      /\ l \in Objects
  BY DEF CreateLB, Turn, Inv, Typed, Objects
<1>2. CASE End(s, "failed") /\ UNCHANGED service
  BY <1>1, <1>2, EndStep DEF Ended
<1>3. CASE /\ status[Parent[l]] = "ready" /\ Created(l, Cfg(s)[l])
           /\ Becomes(s, [run[s] EXCEPT !.todo = @ \ {l}])
  <2> DEFINE r == [run[s] EXCEPT !.todo = @ \ {l}]
  <2>1. Cfg(s)[l] \in Values
    BY <1>1, CreateWanted
  <2>2. ServiceStep
    BY <1>1, <1>3, <2>1, CreatedKeeps DEF Inv
  <2>3. /\ r \in Runs /\ r.plan = run[s].plan /\ r.cfg = run[s].cfg /\ r.pc = run[s].pc
        /\ r.todo = run[s].todo \ {l}
    BY RunFacts DEF Runs
  <2> HIDE DEF r
  <2>4. Becomes(s, r)
    BY <1>3 DEF r
  <2> QED
    BY <1>1, <2>2, <2>3, <2>4, DoneStep
<1> QED
  BY <1>2, <1>3 DEF CreateLB

LEMMA FailInv ==
  ASSUME Inv, NEW s \in Slots, Fail(s)
  PROVE  Inv'
<1>1. count \in Counters /\ count.faults < MaxFaults /\ count' = [count EXCEPT !.faults = @ + 1]
  BY DEF Fail, Inv, Typed
<1>2. count' \in Counters
  BY <1>1, BoundsAssumption DEF Counters
<1> QED
  BY <1>2, EndStep DEF Fail, Ended

-----------------------------------------------------------------------------
\* The theorems.

LEMMA InvInit == Init => Inv
<1> SUFFICES ASSUME Init PROVE Inv
  OBVIOUS
<1>1. Typed
  <2>1. At("idle") \in Runs
    BY AtType DEF Phases
  <2>2. 1 \in 1..Len(History)
    BY HistoryAssumption
  <2>3. count \in Counters
    BY BoundsAssumption DEF Init, Counters
  <2> QED
    BY <2>1, <2>2, <2>3 DEF Init, Typed, Statuses
<1>2. Anchored
  BY DEF Init, Anchored, Objects
<1>3. ASSUME NEW s \in Slots PROVE RunHolds(run[s], status, setting, born)
  BY AtRun DEF Init, Ended
<1> QED
  BY <1>1, <1>2, <1>3 DEF Inv

LEMMA InvNext == Inv /\ [Next]_vars => Inv'
<1> SUFFICES ASSUME Inv, [Next]_vars PROVE Inv'
  OBVIOUS
<1>1. ASSUME NEW s \in Slots, Start(s) PROVE Inv'
  BY <1>1, StartInv
<1>13. ASSUME NEW s \in Slots, ListASGs(s) PROVE Inv'
  BY <1>13, ListASGsInv
<1>2. ASSUME NEW s \in Slots, PlanASGs(s) PROVE Inv'
  BY <1>2, PlanASGsInv
<1>3. ASSUME NEW s \in Slots, NEW n \in ASGs, PlanLBs(s, n) PROVE Inv'
  BY <1>3, PlanLBsInv
<1>4. ASSUME NEW s \in Slots, Decide(s) PROVE Inv'
  <2>1. count \in Counters /\ run[s].pc = "planLB"
    BY <1>4 DEF Decide, Inv, Typed
  <2>2. CASE End(s, "idle")
    BY <1>4, <2>1, <2>2, EndStep DEF Decide, Ended
  <2>3. CASE Becomes(s, [run[s] EXCEPT !.pc = "approve"])
    <3> DEFINE r == [run[s] EXCEPT !.pc = "approve"]
    <3>1. /\ r \in Runs /\ r.plan = run[s].plan /\ r.cfg = run[s].cfg /\ r.pc = "approve"
      BY RunFacts DEF Runs, Phases
    <3>2. ServiceStep /\ yaml' = yaml /\ count' \in Counters
      BY <1>4, <2>1, UnchangedKeeps DEF Decide, Inv
    <3> HIDE DEF r
    <3>3. Becomes(s, r)
      BY <2>3 DEF r
    <3>4. TodoHolds(r)
      BY <3>1 DEF TodoHolds
    <3> QED
      BY <3>1, <3>2, <3>3, <3>4, GoOn
  <2> QED
    BY <1>4, <2>2, <2>3 DEF Decide
<1>5. ASSUME NEW s \in Slots, Cancel(s) \/ Abandon(s) \/ FinishApply(s) PROVE Inv'
  <2>1. count \in Counters
    BY DEF Inv, Typed
  <2> QED
    BY <1>5, <2>1, EndStep DEF Cancel, Abandon, FinishApply, Ended
<1>6. ASSUME NEW s \in Slots, Approve(s) PROVE Inv'
  <2> DEFINE r == [run[s] EXCEPT !.ids = IDs]
  <2>1. IDs \in [ASGs -> Nat]
    BY DEF IDs, Inv, Typed, Objects
  <2>2. r \in Runs /\ r.plan = run[s].plan /\ r.cfg = run[s].cfg
    BY <2>1, RunFacts DEF Runs
  <2>3. /\ Becomes(s, Enter(r, "deleteLB")) /\ UNCHANGED service
        /\ yaml' = yaml /\ count' = count
    BY <1>6 DEF Approve
  <2> HIDE DEF r
  <2> QED
    BY <2>2, <2>3, EnterStep
<1>7. ASSUME NEW s \in Slots, Advance(s) PROVE Inv'
  <2>1. /\ run[s].pc \in DOMAIN After /\ Becomes(s, Enter(run[s], After[run[s].pc]))
        /\ UNCHANGED service /\ yaml' = yaml /\ count' = count
    BY <1>7 DEF Advance
  <2>2. After[run[s].pc] \in {"deleteLB", "waitLB", "deleteASG", "createASG", "createLB"}
    BY <2>1 DEF After
  <2> QED
    BY <2>1, <2>2, RunFacts, EnterStep
<1>8. ASSUME NEW s \in Slots, NEW l \in LBs, DeleteLB(s, l) \/ WaitLB(s, l) \/ CreateLB(s, l)
      PROVE  Inv'
  BY <1>8, DeleteLBInv, WaitLBInv, CreateLBInv
<1>9. ASSUME NEW s \in Slots, NEW n \in ASGs,
             DeleteASG(s, n) \/ WaitASG(s, n) \/ CreateASG(s, n)
      PROVE  Inv'
  BY <1>9, DeleteASGInv, WaitASGInv, CreateASGInv
<1>10. ASSUME NEW s \in Slots, Fail(s) PROVE Inv'
  BY <1>10, FailInv
<1>11. ASSUME NEW o \in Objects, Gone(o) PROVE Inv'
  <2>1. ServiceStep /\ yaml' = yaml /\ run' = run /\ count' = count
    BY <1>11, GoneKeeps DEF Gone, Inv
  <2>2. ASSUME NEW t \in Slots PROVE RunHolds(run[t], status', setting', born')
    BY <2>1, KeepsRun DEF ServiceStep, Inv, Typed
  <2> QED
    BY <2>1, <2>2 DEF Inv, Typed, ServiceStep
<1>12. ASSUME Edit \/ UNCHANGED vars PROVE Inv'
  <2>1. UNCHANGED service /\ run' = run /\ count' = count
    BY <1>12 DEF Edit, vars, service
  <2>2. status' = status /\ setting' = setting /\ born' = born
    BY <2>1 DEF service
  <2>3. yaml' \in 1..Len(History)
    BY <1>12, HistoryAssumption DEF Edit, vars, Inv, Typed
  <2> QED
    BY <2>1, <2>2, <2>3 DEF Inv, Typed, Anchored
<1> QED
  BY <1>1, <1>2, <1>3, <1>4, <1>5, <1>6, <1>7, <1>8, <1>9, <1>10, <1>11, <1>12, <1>13
     DEF Next, Command

\* The variables of InfraSync keep their types: what exists has an ID, and what is planned
\* to be recreated the ID of what is to be deleted, for any number of commands.
THEOREM InfraTypeCorrect == Spec => []TypeOK
<1>1. Inv => TypeOK
  <2> SUFFICES ASSUME Inv PROVE Identified
    BY DEF Inv, TypeOK
  <2>1. ASSUME NEW s \in Slots, NEW o \in Objects, run[s].plan[o].kind = "recreate"
        PROVE  run[s].plan[o].id # 0
    BY <2>1 DEF Inv, RunHolds, PlanHolds
  <2> QED
    BY <2>1 DEF Inv, Anchored, Identified
<1> QED
  BY <1>1, InvInit, InvNext, PTL DEF Spec

\* What is planned to be recreated, and still has the ID in the plan, is outdated.
LEMMA PlannedOutdated ==
  ASSUME Inv, NEW s \in Slots, NEW o \in Objects,
         run[s].plan[o].kind = "recreate", Alive(o, Target(s, o))
  PROVE  Outdated(o, Cfg(s))
<1>1. RunHolds(run[s], status, setting, born) /\ Cfg(s) = History[run[s].cfg]
  BY RunFacts
<1>2. IsAt(o, run[s].plan[o].id, status, born)
  BY DEF Alive, IsAt, Target
<1>3. IsOutdated(o, History[run[s].cfg], setting)
  BY <1>1, <1>2 DEF RunHolds, PlanHolds
<1> QED
  BY <1>1, <1>3 DEF IsOutdated, Outdated, Differs

\* Only two calls start a deletion.
LEMMA WhoDeletes ==
  ASSUME Inv, Next, NEW o \in Objects, status[o] = "ready", status'[o] = "deleting"
  PROVE  \/ o \in LBs /\ \E s \in Slots : DeleteLB(s, o) /\ Deleted(o)
         \/ o \in ASGs /\ \E s \in Slots : DeleteASG(s, o) /\ Deleted(o)
<1>1. status \in [Objects -> Statuses]
  BY DEF Inv, Typed
<1>2. ~UNCHANGED service
  BY DEF service
<1>3. \A p, v : ~Created(p, v)
  BY <1>1 DEF Created
<1>4. \A p \in Objects : ~Gone(p)
  BY <1>1 DEF Gone
<1>5. \A p \in Objects : Deleted(p) => p = o
  BY <1>1 DEF Deleted
<1>6. ASSUME NEW s \in Slots, Command(s)
      PROVE  \/ \E l \in LBs : DeleteLB(s, l) /\ Deleted(l)
             \/ \E n \in ASGs : DeleteASG(s, n) /\ Deleted(n)
  <2>1. ~(ListASGs(s) \/ PlanASGs(s) \/ Decide(s) \/ Advance(s) \/ FinishApply(s))
    BY <1>2 DEF ListASGs, PlanASGs, Decide, Advance, FinishApply
  <2>2. \A n \in ASGs : ~PlanLBs(s, n) /\ ~WaitASG(s, n) /\ ~CreateASG(s, n)
    BY <1>2, <1>3 DEF PlanLBs, WaitASG, CreateASG
  <2>3. \A l \in LBs : ~WaitLB(s, l) /\ ~CreateLB(s, l)
    BY <1>2, <1>3 DEF WaitLB, CreateLB
  <2>4. \A n \in ASGs : DeleteASG(s, n) => Deleted(n)
    BY <1>2 DEF DeleteASG
  <2>5. \A l \in LBs : DeleteLB(s, l) => Deleted(l)
    BY <1>2 DEF DeleteLB
  <2> QED
    BY <1>6, <2>1, <2>2, <2>3, <2>4, <2>5 DEF Command
<1>7. ~Edit /\ \A s \in Slots : ~(Start(s) \/ Approve(s) \/ Cancel(s) \/ Abandon(s) \/ Fail(s))
  BY <1>2 DEF Edit, Start, Approve, Cancel, Abandon, Fail
<1>8. PICK s \in Slots : Command(s)
  BY <1>4, <1>7 DEF Next
<1> QED
  BY <1>5, <1>6, <1>8 DEF Objects

\* What apply deletes is outdated by its own YAML when it deletes it, however many
\* commands run at once and whatever fails: what makes its plan out of date also
\* makes the deletion fail (DeleteLB and DeleteASG in Apply, sync.go:194-245).
THEOREM DeletesOutdated == Spec => OnlyOutdatedDeleted
<1>1. ASSUME Inv, Next, NEW o \in Objects, status[o] = "ready", status'[o] = "deleting"
      PROVE  \E s \in Slots : run'[s] # run[s] /\ Outdated(o, Cfg(s))
  <2>1. run \in [Slots -> Runs]
    BY <1>1 DEF Inv, Typed
  <2>2. ASSUME NEW s \in Slots, o \in LBs, DeleteLB(s, o), Deleted(o)
        PROVE  run'[s] # run[s] /\ Outdated(o, Cfg(s))
    <3>1. Turn(s, "deleteLB", o)
      BY <2>2 DEF DeleteLB
    <3>2. run[s].plan[o].kind = "recreate"
      BY <1>1, <3>1, RunFacts DEF Turn, RunHolds, TodoHolds
    <3>3. CASE Alive(o, Target(s, o)) /\ Becomes(s, [run[s] EXCEPT !.todo = @ \ {o}])
      <4>1. run'[s] = [run[s] EXCEPT !.todo = @ \ {o}] /\ run[s] \in Runs
        BY <2>1, <3>3 DEF Becomes
      <4>2. o \in run[s].todo /\ o \notin run'[s].todo
        BY <3>1, <4>1 DEF Turn, Runs
      <4> QED
        BY <1>1, <3>2, <3>3, <4>2, PlannedOutdated
    <3>4. CASE UNCHANGED service
      BY <1>1, <3>4 DEF service
    <3> QED
      BY <2>2, <3>3, <3>4 DEF DeleteLB
  <2>3. ASSUME NEW s \in Slots, o \in ASGs, DeleteASG(s, o), Deleted(o)
        PROVE  run'[s] # run[s] /\ Outdated(o, Cfg(s))
    <3>1. Turn(s, "deleteASG", o)
      BY <2>3 DEF DeleteASG
    <3>2. run[s].plan[o].kind = "recreate"
      BY <1>1, <3>1, RunFacts DEF Turn, RunHolds, TodoHolds
    <3>3. CASE /\ Alive(o, Target(s, o))
               /\ Becomes(s, [run[s] EXCEPT !.pc = "waitASG", !.todo = @ \ {o}, !.at = o])
      <4>1. run[s] \in Runs
            /\ run'[s] = [run[s] EXCEPT !.pc = "waitASG", !.todo = @ \ {o}, !.at = o]
        BY <2>1, <3>3 DEF Becomes
      <4>2. run[s].pc = "deleteASG" /\ run'[s].pc = "waitASG"
        BY <3>1, <4>1 DEF Turn, Runs
      <4> QED
        BY <1>1, <3>2, <3>3, <4>2, PlannedOutdated
    <3>4. CASE UNCHANGED service
      BY <1>1, <3>4 DEF service
    <3> QED
      BY <2>3, <3>3, <3>4 DEF DeleteASG
  <2> QED
    BY <1>1, <2>2, <2>3, WhoDeletes
<1>2. Inv /\ [Next]_vars =>
        [\A o \in Objects :
           status[o] = "ready" /\ status'[o] = "deleting" =>
             \E s \in Slots : run'[s] # run[s] /\ Outdated(o, Cfg(s))]_vars
  BY <1>1
<1> QED
  BY <1>2, InvInit, InvNext, PTL DEF Spec, OnlyOutdatedDeleted

-----------------------------------------------------------------------------
\* The refinement.

\* A command has a YAML file that has been there.
Dated == \A s \in Slots : run[s].cfg <= yaml

LEMMA BecomesDated ==
  ASSUME Inv, Dated, NEW s \in Slots, NEW r, Becomes(s, r), r.cfg <= yaml, yaml' = yaml
  PROVE  Dated'
<1>1. run \in [Slots -> Runs]
  BY DEF Inv, Typed
<1> QED
  BY <1>1 DEF Dated, Becomes

LEMMA EndDated ==
  ASSUME Inv, Dated, NEW s \in Slots, NEW pc, End(s, pc), yaml' = yaml
  PROVE  Dated'
<1>1. At(pc).cfg = 1 /\ yaml \in 1..Len(History)
  BY DEF At, Inv, Typed
<1>2. At(pc).cfg <= yaml /\ Becomes(s, At(pc))
  BY <1>1, HistoryAssumption DEF End
<1> QED
  BY <1>2, BecomesDated

\* A command that goes on keeps its YAML.
LEMMA OnDated ==
  ASSUME Inv, Dated, NEW s \in Slots, NEW r, Becomes(s, r), r.cfg = run[s].cfg, yaml' = yaml
  PROVE  Dated'
BY BecomesDated DEF Dated

LEMMA DatedInit == Init => Dated
<1> SUFFICES ASSUME Init PROVE Dated
  OBVIOUS
<1>1. \A s \in Slots : run[s].cfg = 1
  BY DEF Init, At
<1> QED
  BY <1>1 DEF Init, Dated

LEMMA DatedNext == Inv /\ Dated /\ [Next]_vars => Dated'
<1> SUFFICES ASSUME Inv, Dated, [Next]_vars PROVE Dated'
  OBVIOUS
<1> USE DEF Enter
<1>1. ASSUME NEW s \in Slots, Start(s) PROVE Dated'
  <2> DEFINE r == [At("list") EXCEPT !.cfg = yaml]
  <2>1. Becomes(s, r) /\ yaml' = yaml /\ yaml \in 1..Len(History)
    BY <1>1 DEF Start, Inv, Typed
  <2>2. r.cfg <= yaml
    BY <2>1, HistoryAssumption DEF At
  <2> HIDE DEF r
  <2> QED
    BY <2>1, <2>2, BecomesDated
<1>2. ASSUME NEW s \in Slots, ListASGs(s) \/ PlanASGs(s) \/ Approve(s) \/ Advance(s)
      PROVE  Dated'
  <2>1. run[s] \in Runs
    BY RunFacts
  <2>2. PICK r : Becomes(s, r) /\ r.cfg = run[s].cfg /\ yaml' = yaml
    BY <1>2, <2>1 DEF ListASGs, PlanASGs, Approve, Advance, Runs
  <2> QED
    BY <2>2, OnDated
<1>3. ASSUME NEW s \in Slots, Decide(s) PROVE Dated'
  <2>1. run[s] \in Runs
    BY RunFacts
  <2>2. yaml' = yaml /\ (End(s, "idle") \/ \E r : Becomes(s, r) /\ r.cfg = run[s].cfg)
    BY <1>3, <2>1 DEF Decide, Runs
  <2> QED
    BY <2>2, OnDated, EndDated
<1>4. ASSUME NEW s \in Slots, NEW n \in ASGs,
             PlanLBs(s, n) \/ DeleteASG(s, n) \/ WaitASG(s, n) \/ CreateASG(s, n)
      PROVE  Dated'
  <2>1. run[s] \in Runs
    BY RunFacts
  <2>2. ASSUME PlanLBs(s, n) PROVE Dated'
    <3> DEFINE r == [run[s] EXCEPT
            !.plan = [o \in Objects |->
                        IF o \in LBs /\ Parent[o] = n THEN LBAction(s, o) ELSE @[o]],
            !.todo = @ \ {n}]
    <3>1. r.cfg = run[s].cfg
      BY <2>1 DEF Runs
    <3>2. yaml' = yaml /\ (Becomes(s, r) \/ End(s, "failed"))
      BY <2>2 DEF PlanLBs
    <3> HIDE DEF r
    <3> QED
      BY <3>1, <3>2, OnDated, EndDated
  <2>3. ASSUME DeleteASG(s, n) PROVE Dated'
    <3> DEFINE r == [run[s] EXCEPT !.pc = "waitASG", !.todo = @ \ {n}, !.at = n]
    <3>1. r.cfg = run[s].cfg
      BY <2>1 DEF Runs
    <3>2. yaml' = yaml /\ (Becomes(s, r) \/ End(s, "failed"))
      BY <2>3 DEF DeleteASG
    <3> HIDE DEF r
    <3> QED
      BY <3>1, <3>2, OnDated, EndDated
  <2>4. ASSUME WaitASG(s, n) PROVE Dated'
    <3> DEFINE r == [run[s] EXCEPT !.pc = "deleteASG", !.at = None, !.ids[n] = 0]
    <3>1. r.cfg = run[s].cfg
      BY <2>1 DEF Runs
    <3>2. yaml' = yaml /\ Becomes(s, r)
      BY <2>4 DEF WaitASG
    <3> HIDE DEF r
    <3> QED
      BY <3>1, <3>2, OnDated, EndDated
  <2>5. ASSUME CreateASG(s, n) PROVE Dated'
    <3> DEFINE r == [run[s] EXCEPT !.todo = @ \ {n}, !.ids[n] = born[n] + 1]
    <3>1. r.cfg = run[s].cfg
      BY <2>1 DEF Runs
    <3>2. yaml' = yaml /\ (Becomes(s, r) \/ End(s, "failed"))
      BY <2>5 DEF CreateASG
    <3> HIDE DEF r
    <3> QED
      BY <3>1, <3>2, OnDated, EndDated
  <2> QED
    BY <1>4, <2>2, <2>3, <2>4, <2>5
<1>5. ASSUME NEW s \in Slots, NEW l \in LBs, DeleteLB(s, l) \/ WaitLB(s, l) \/ CreateLB(s, l)
      PROVE  Dated'
  <2>1. run[s] \in Runs
    BY RunFacts
  <2>2. yaml' = yaml /\ (End(s, "failed") \/ \E r : Becomes(s, r) /\ r.cfg = run[s].cfg)
    BY <1>5, <2>1 DEF DeleteLB, WaitLB, CreateLB, Runs
  <2> QED
    BY <2>2, OnDated, EndDated
<1>6. ASSUME NEW s \in Slots, Cancel(s) \/ Abandon(s) \/ FinishApply(s) \/ Fail(s)
      PROVE  Dated'
  BY <1>6, EndDated DEF Cancel, Abandon, FinishApply, Fail
<1>7. ASSUME Edit \/ UNCHANGED vars \/ \E o \in Objects : Gone(o) PROVE Dated'
  <2>1. /\ run' = run /\ yaml \in Nat /\ (yaml' = yaml \/ yaml' = yaml + 1)
        /\ \A s \in Slots : run[s].cfg \in Nat
    BY <1>7 DEF Edit, vars, Gone, Inv, Typed, Runs
  <2> QED
    BY <2>1 DEF Dated
<1> QED
  BY <1>1, <1>2, <1>3, <1>4, <1>5, <1>6, <1>7 DEF Next, Command

LEMMA InitAbstract == Init => Promise!Init
BY DEF Init, Promise!Init, Objects, Promise!Objects

\* A planned deletion that the service accepts is a Retire, or changes nothing.
LEMMA DeletedAbstract ==
  ASSUME Inv, Dated, NEW s \in Slots, NEW o \in Objects,
         run[s].plan[o].kind = "recreate", Alive(o, Target(s, o)),
         o \in ASGs => Attached(o) = {}, Deleted(o), yaml' = yaml
  PROVE  [Promise!Next]_<<yaml, status, setting>>
<1>1. status \in [Objects -> Statuses] /\ yaml \in 1..Len(History)
  BY DEF Inv, Typed
<1>2. CASE status[o] # "ready"
  <2>1. status[o] = "deleting"
    BY <1>1, <1>2 DEF Alive, Statuses
  <2> QED
    BY <1>1, <2>1 DEF Deleted
<1>3. CASE status[o] = "ready"
  <2>1. /\ Outdated(o, Cfg(s)) /\ Cfg(s) = History[run[s].cfg]
        /\ run[s].cfg \in 1..Len(History)
    BY PlannedOutdated, RunFacts
  <2>2. run[s].cfg \in 1..yaml
    BY <1>1, <2>1, HistoryAssumption DEF Dated
  <2>3. Promise!Outdates(History[run[s].cfg], o)
    BY <2>1 DEF Outdated, Differs, Promise!Outdates
  <2>4. \A l \in LBs : Parent[l] = o => status[l] = "absent"
    BY ObjectsAssumption DEF Attached, Objects
  <2>5. Promise!Retire(o)
    BY <1>3, <2>2, <2>3, <2>4 DEF Promise!Retire, Deleted
  <2> QED
    BY <2>5 DEF Promise!Next, Promise!Objects, Objects
<1> QED
  BY <1>2, <1>3

\* A creation is a Build.
LEMMA CreatedAbstract ==
  ASSUME Inv, Dated, NEW s \in Slots, NEW pc \in {"createASG", "createLB"}, NEW o,
         Turn(s, pc, o), Cfg(s)[o] \notin Refused, Created(o, Cfg(s)[o]),
         o \in LBs => status[Parent[o]] = "ready", yaml' = yaml
  PROVE  Promise!Next
<1>1. o \in Objects /\ Cfg(s)[o] \in Values
  BY CreateWanted
<1>2. /\ run[s] \in Runs /\ RunHolds(run[s], status, setting, born)
      /\ Cfg(s) = History[run[s].cfg] /\ run[s].cfg \in 1..Len(History)
  BY RunFacts
<1>3. o \in DOMAIN History[run[s].cfg]
  BY <1>1, <1>2 DEF Turn, RunHolds, TodoHolds, PlanHolds
<1>4. run[s].cfg \in 1..yaml
  BY <1>2, HistoryAssumption DEF Dated, Inv, Typed
<1>5. Promise!Build(o, Cfg(s)[o])
  BY <1>2, <1>3, <1>4 DEF Promise!Build, Created
<1> QED
  BY <1>1, <1>5 DEF Promise!Next, Promise!Objects, Objects

LEMMA StepAbstract ==
  Inv /\ Dated /\ [Next]_vars => [Promise!Next]_<<yaml, status, setting>>
<1> SUFFICES ASSUME Inv, Dated, [Next]_vars
             PROVE  [Promise!Next]_<<yaml, status, setting>>
  OBVIOUS
<1>1. ASSUME UNCHANGED <<yaml, service>>
      PROVE  [Promise!Next]_<<yaml, status, setting>>
  BY <1>1 DEF service
<1>2. ASSUME NEW s \in Slots, NEW l \in LBs, DeleteLB(s, l)
      PROVE  [Promise!Next]_<<yaml, status, setting>>
  <2>1. l \in Objects /\ l \notin ASGs /\ Turn(s, "deleteLB", l) /\ yaml' = yaml
    BY <1>2, ObjectsAssumption DEF DeleteLB, Objects
  <2>2. run[s].plan[l].kind = "recreate"
    BY <2>1, RunFacts DEF Turn, RunHolds, TodoHolds
  <2>3. UNCHANGED service \/ (Alive(l, Target(s, l)) /\ Deleted(l))
    BY <1>2 DEF DeleteLB
  <2> QED
    BY <1>1, <2>1, <2>2, <2>3, DeletedAbstract
<1>3. ASSUME NEW s \in Slots, NEW n \in ASGs, DeleteASG(s, n)
      PROVE  [Promise!Next]_<<yaml, status, setting>>
  <2>1. n \in Objects /\ Turn(s, "deleteASG", n) /\ yaml' = yaml
    BY <1>3 DEF DeleteASG, Objects
  <2>2. run[s].plan[n].kind = "recreate"
    BY <2>1, RunFacts DEF Turn, RunHolds, TodoHolds
  <2>3. UNCHANGED service \/ (Alive(n, Target(s, n)) /\ Attached(n) = {} /\ Deleted(n))
    BY <1>3 DEF DeleteASG
  <2> QED
    BY <1>1, <2>1, <2>2, <2>3, DeletedAbstract
<1>4. ASSUME NEW s \in Slots, NEW n \in ASGs, CreateASG(s, n)
      PROVE  [Promise!Next]_<<yaml, status, setting>>
  <2>1. Turn(s, "createASG", n) /\ n \notin LBs /\ yaml' = yaml
    BY <1>4, ObjectsAssumption DEF CreateASG
  <2>2. UNCHANGED service \/ (Cfg(s)[n] \notin Refused /\ Created(n, Cfg(s)[n]))
    BY <1>4 DEF CreateASG
  <2> QED
    BY <1>1, <2>1, <2>2, CreatedAbstract
<1>5. ASSUME NEW s \in Slots, NEW l \in LBs, CreateLB(s, l)
      PROVE  [Promise!Next]_<<yaml, status, setting>>
  <2>1. Turn(s, "createLB", l) /\ yaml' = yaml
    BY <1>5 DEF CreateLB
  <2>2. \/ UNCHANGED service
        \/ /\ Cfg(s)[l] \notin Refused /\ Created(l, Cfg(s)[l])
           /\ status[Parent[l]] = "ready"
    BY <1>5 DEF CreateLB
  <2> QED
    BY <1>1, <2>1, <2>2, CreatedAbstract
<1>6. ASSUME NEW o \in Objects, Gone(o)
      PROVE  [Promise!Next]_<<yaml, status, setting>>
  BY <1>6 DEF Gone, Promise!Gone, Promise!Next, Objects, Promise!Objects
<1>7. ASSUME Edit PROVE [Promise!Next]_<<yaml, status, setting>>
  BY <1>7 DEF Edit, service, Promise!Edit, Promise!Next
<1>8. ASSUME NEW s \in Slots,
             \/ Start(s) \/ ListASGs(s) \/ PlanASGs(s) \/ Decide(s) \/ Cancel(s) \/ Abandon(s)
             \/ Approve(s) \/ Advance(s) \/ FinishApply(s) \/ Fail(s)
             \/ \E n \in ASGs : PlanLBs(s, n) \/ WaitASG(s, n)
             \/ \E l \in LBs : WaitLB(s, l)
      PROVE  UNCHANGED <<yaml, service>>
  BY <1>8 DEF Start, ListASGs, PlanASGs, Decide, Cancel, Abandon, Approve, Advance, FinishApply,
              Fail, PlanLBs, WaitASG, WaitLB
<1>9. CASE UNCHANGED vars
  BY <1>9 DEF vars
<1> QED
  BY <1>1, <1>2, <1>3, <1>4, <1>5, <1>6, <1>7, <1>8, <1>9 DEF Next, Command

\* Any number of applies, interleaved and interrupted at any call, keep the promise of
\* Cluster: the deletion and creation loops of Apply (sync.go:170-304), seen from the
\* cluster, only retire what a YAML file outdates and only build what one says.
THEOREM InfraKeepsPromise == Spec => KeepsPromise
<1>1. Init => Inv /\ Dated /\ Promise!Init
  BY InvInit, DatedInit, InitAbstract
<1>2. Inv /\ Dated /\ [Next]_vars =>
        Inv' /\ Dated' /\ [Promise!Next]_<<yaml, status, setting>>
  BY InvNext, DatedNext, StepAbstract
<1> QED
  BY <1>1, <1>2, PTL DEF Spec, Promise!Spec, KeepsPromise

-----------------------------------------------------------------------------
\* What the promise means for the cluster.

LEMMA PromiseInit == Promise!Init => Promise!Anchored /\ Promise!Declared
BY ObjectsAssumption DEF Promise!Init, Promise!Anchored, Promise!Declared, Promise!Objects

LEMMA PromiseNext ==
  ASSUME yaml \in Nat, status \in [Objects -> Statuses], setting \in [Objects -> Values \cup {None}],
         Promise!Anchored, Promise!Declared, [Promise!Next]_<<yaml, status, setting>>
  PROVE  Promise!Anchored' /\ Promise!Declared'
<1>1. \A l \in LBs : l \in Objects /\ Parent[l] \in Objects /\ Parent[l] \in ASGs /\ l \notin ASGs
  BY ObjectsAssumption DEF Objects
<1>2. Promise!Objects = Objects
  BY DEF Promise!Objects, Objects
<1>3. CASE UNCHANGED <<yaml, status, setting>>
  BY <1>3 DEF Promise!Anchored, Promise!Declared
<1>4. CASE Promise!Edit
  <2>1. \A i \in 1..yaml : i \in 1..yaml'
    BY <1>4 DEF Promise!Edit
  <2> QED
    BY <1>4, <2>1 DEF Promise!Edit, Promise!Anchored, Promise!Declared
<1>5. ASSUME NEW o \in Objects, Promise!Retire(o)
      PROVE  Promise!Anchored' /\ Promise!Declared'
  <2>1. /\ \A p \in Objects : status'[p] # "absent" => status[p] # "absent"
        /\ \A p \in Objects \ {o} : status'[p] = status[p]
    BY <1>5 DEF Promise!Retire
  <2>2. \A l \in LBs : status[l] # "absent" => Parent[l] # o
    BY <1>5 DEF Promise!Retire
  <2> QED
    BY <1>1, <1>2, <1>5, <2>1, <2>2 DEF Promise!Retire, Promise!Anchored, Promise!Declared
<1>6. ASSUME NEW o \in Objects, Promise!Gone(o)
      PROVE  Promise!Anchored' /\ Promise!Declared'
  <2>1. /\ \A p \in Objects : status'[p] # "absent" => status[p] # "absent"
        /\ \A p \in Objects \ {o} : status'[p] = status[p]
    BY <1>6 DEF Promise!Gone
  <2>2. \A l \in LBs : status[l] # "absent" => Parent[l] # o
    BY <1>6 DEF Promise!Gone, Promise!Anchored
  <2> QED
    BY <1>1, <1>2, <1>6, <2>1, <2>2 DEF Promise!Gone, Promise!Anchored, Promise!Declared
<1>7. ASSUME NEW o \in Objects, NEW v \in Values, Promise!Build(o, v)
      PROVE  Promise!Anchored' /\ Promise!Declared'
  <2>1. /\ status'[o] = "ready" /\ setting'[o] = v
        /\ \A p \in Objects \ {o} : status'[p] = status[p] /\ setting'[p] = setting[p]
    BY <1>7 DEF Promise!Build
  <2>2. \A l \in LBs : status[l] # "absent" => Parent[l] # o
    BY <1>7 DEF Promise!Build, Promise!Anchored
  <2>3. Promise!Anchored'
    BY <1>1, <1>7, <2>1, <2>2 DEF Promise!Build, Promise!Anchored
  <2>4. Promise!Declared'
    BY <1>2, <1>7, <2>1 DEF Promise!Build, Promise!Declared
  <2> QED
    BY <2>3, <2>4
<1> QED
  BY <1>2, <1>3, <1>4, <1>5, <1>6, <1>7 DEF Promise!Next

\* In a cluster that only apply changes, whatever exists has settings that a YAML file
\* gave it and the service accepted, and every LB is in an ASG that stays.
THEOREM ClusterDeclared == Spec => [](Promise!Anchored /\ Promise!Declared)
<1>1. Init => Promise!Anchored /\ Promise!Declared
  BY InitAbstract, PromiseInit
<1>2. Inv /\ Dated /\ Promise!Anchored /\ Promise!Declared /\ [Next]_vars =>
        (Promise!Anchored /\ Promise!Declared)'
  BY StepAbstract, PromiseNext DEF Inv, Typed
<1> QED
  BY <1>1, <1>2, InvInit, InvNext, DatedInit, DatedNext, PTL DEF Spec

-----------------------------------------------------------------------------
\* One command at a time.  Nobody else creates or deletes, so what a plan says of the
\* objects it leaves alone, and of those it has created or seen gone, stays true.

OneCommand == \A s, t \in Slots : s = t

\* A YAML file up to the k-th has the settings of o.
Given(o, k, se) == \E i \in 1..k : o \in DOMAIN History[i] /\ se[o] = History[i][o]

\* YAML j has others than the ones o still has from a file before it.
Overtaken(o, j, se) == o \in DOMAIN History[j] /\ se[o] # History[j][o] /\ Given(o, j, se)

\* What exists comes from a YAML file, and what is being deleted, or its ASG, was
\* overtaken by one.
Explained(k, st, se) ==
  \A o \in Objects :
    /\ st[o] # "absent" => Given(o, k, se)
    /\ st[o] = "deleting" =>
         \E j \in 1..k : /\ o \in DOMAIN History[j]
                         /\ Overtaken(o, j, se) \/ (o \in LBs /\ Overtaken(Parent[o], j, se))

\* The YAML files that had a say before r, or at all when r is over.
Horizon(r, now) == IF r.pc \in Ended THEN now ELSE r.cfg

Sits(o, c, st, se) == st[o] = "ready" /\ se[o] = c[o]

\* What the plan does not touch is what the YAML says, to stay.
Settled(r, o, st, se) ==
  /\ r.plan[o].kind \in {"create", "recreate", "noop"}
  /\ r.plan[o].kind = "noop" /\ Steady(o) => Sits(o, History[r.cfg], st, se)

\* What the plan creates and the loop is through with is there.
Made(r, o, st, se) ==
  r.plan[o].kind \in {"create", "recreate"} /\ o \notin r.todo => Sits(o, History[r.cfg], st, se)

Planning(r, st, se) ==
  /\ \A n \in ASGs \cap DOMAIN History[r.cfg] :
       /\ Settled(r, n, st, se)
       /\ r.plan[n].kind = "create" => st[n] = "absent"
       /\ r.plan[n].kind = "noop" => se[n] = History[r.cfg][n]
  /\ \A l \in LBs \cap DOMAIN History[r.cfg] : Parent[l] \notin r.todo => Settled(r, l, st, se)

Progress(r, st, se) ==
  /\ r.pc = "planLB" => Planning(r, st, se)
  /\ r.pc \in Phases \ (Ended \cup {"list", "planASG", "planLB"}) =>
       \A o \in DOMAIN History[r.cfg] : Settled(r, o, st, se)
  /\ r.pc \in {"createASG", "createLB"} =>
       \A n \in ASGs \cap DOMAIN History[r.cfg] : Made(r, n, st, se)
  /\ r.pc = "createLB" => \A l \in LBs \cap DOMAIN History[r.cfg] : Made(r, l, st, se)

\* The LBs of the YAML whose ASG is to be recreated, and how the plan deals with one.
Rebuilt(r) == {l \in LBs \cap DOMAIN History[r.cfg] : r.plan[Parent[l]].kind = "recreate"}

Doomed(r, l, st, b) ==
  st[l] # "absent" => r.plan[l].kind = "recreate" /\ r.plan[l].id = b[l]

\* They are planned to be deleted with it, and gone when it is its turn; unless a poll
\* failed, which is what f says.
Clearing(r, st, b, f) ==
  /\ r.pc = "planASG" => \A n \in ASGs : st[n] # "absent" => r.ids[n] = b[n]
  /\ r.pc = "planLB" => \A l \in Rebuilt(r) : Parent[l] \notin r.todo => Doomed(r, l, st, b)
  /\ r.pc \in {"approve", "deleteLB"} => \A l \in Rebuilt(r) : Doomed(r, l, st, b)
  /\ r.pc = "waitLB" /\ f = 0 =>
       \A l \in Rebuilt(r) : Doomed(r, l, st, b) /\ (st[l] # "absent" => l \in r.todo)
  /\ r.pc \in {"deleteASG", "waitASG"} /\ f = 0 => \A l \in Rebuilt(r) : st[l] = "absent"

Numbered(st, b) == \A o \in Objects : st[o] # "absent" => b[o] # 0

AloneHolds(r, now, st, se, b, f) ==
  /\ Explained(Horizon(r, now), st, se)
  /\ Progress(r, st, se)
  /\ Clearing(r, st, b, f)
  /\ Numbered(st, b)

Alone == \A s \in Slots : AloneHolds(run[s], yaml, status, setting, born, count.glitches)

-----------------------------------------------------------------------------
\* What the service does to these facts.

\* Nothing new, and no new deletion.
LEMMA ExplainedGrows ==
  ASSUME NEW k \in 1..Len(History), NEW k2 \in 1..Len(History), k <= k2,
         NEW st, NEW se, NEW st2, Explained(k, st, se),
         \A o \in Objects : /\ st2[o] # "absent" => st[o] # "absent"
                            /\ st2[o] = "deleting" => st[o] = "deleting"
  PROVE  Explained(k2, st2, se)
<1>1. \A i \in 1..k : i \in 1..k2
  BY HistoryAssumption
<1> QED
  BY <1>1 DEF Explained, Given

\* What is outdated by YAML k is deleted.
LEMMA ExplainedDeleted ==
  ASSUME NEW k \in 1..Len(History), Typed, Anchored, NEW o \in Objects,
         Explained(k, status, setting), status[o] # "absent",
         IsOutdated(o, History[k], setting), Deleted(o)
  PROVE  Explained(k, status', setting')
<1>1. /\ setting' = setting
      /\ \A p \in Objects : p # o => status'[p] = status[p]
      /\ status[o] # "absent"
  BY DEF Deleted, Typed
<1>2. k \in 1..k
  BY HistoryAssumption
<1>3. Given(o, k, setting)
  BY DEF Explained
<1>4. o \in LBs => Given(Parent[o], k, setting)
  <2>1. o \in LBs => Parent[o] \in Objects
    BY ObjectsAssumption DEF Objects
  <2>2. o \in LBs => status[Parent[o]] # "absent"
    BY DEF Anchored
  <2> QED
    BY <2>1, <2>2 DEF Explained
<1>5. /\ o \in DOMAIN History[k]
      /\ Overtaken(o, k, setting) \/ (o \in LBs /\ Overtaken(Parent[o], k, setting))
  BY <1>3, <1>4 DEF IsOutdated, Overtaken
<1> QED
  BY <1>1, <1>2, <1>3, <1>5 DEF Explained

\* What YAML k has is created.
LEMMA ExplainedCreated ==
  ASSUME NEW k \in 1..Len(History), Typed, Anchored, NEW o \in Objects,
         Explained(k, status, setting), o \in DOMAIN History[k], Created(o, History[k][o])
  PROVE  Explained(k, status', setting')
<1>1. /\ status[o] = "absent" /\ status'[o] = "ready" /\ setting'[o] = History[k][o]
      /\ \A p \in Objects : p # o => status'[p] = status[p] /\ setting'[p] = setting[p]
  BY DEF Created, Typed
<1>2. k \in 1..k
  BY HistoryAssumption
<1>3. Given(o, k, setting')
  BY <1>1, <1>2 DEF Given
<1>4. ASSUME NEW p \in Objects, p # o, status[p] # "absent"
      PROVE  /\ setting'[p] = setting[p]
             /\ p \in LBs => setting'[Parent[p]] = setting[Parent[p]]
  <2>1. p \in LBs => Parent[p] \in Objects /\ status[Parent[p]] = "ready"
    BY <1>4, ObjectsAssumption DEF Anchored, Objects
  <2> QED
    BY <1>1, <1>4, <2>1
<1>5. ASSUME NEW p \in Objects, p # o, status'[p] # "absent" PROVE Given(p, k, setting')
  BY <1>1, <1>4, <1>5 DEF Explained, Given
<1>6. ASSUME NEW p \in Objects, p # o, status'[p] = "deleting"
      PROVE  \E j \in 1..k : /\ p \in DOMAIN History[j]
                             /\ \/ Overtaken(p, j, setting')
                                \/ p \in LBs /\ Overtaken(Parent[p], j, setting')
  <2>1. status[p] = "deleting"
    BY <1>1, <1>6
  <2>2. PICK j \in 1..k : /\ p \in DOMAIN History[j]
                          /\ \/ Overtaken(p, j, setting)
                             \/ p \in LBs /\ Overtaken(Parent[p], j, setting)
    BY <2>1 DEF Explained
  <2> QED
    BY <1>4, <1>6, <2>1, <2>2 DEF Overtaken, Given
<1> QED
  BY <1>1, <1>3, <1>5, <1>6 DEF Explained

\* The service removes what is being deleted: what stays, stays as it is.
LEMMA GoneProgress ==
  ASSUME NEW r, NEW st, NEW se, NEW st2, r.cfg \in 1..Len(History), Progress(r, st, se),
         \A o \in Objects : /\ st[o] = "ready" => st2[o] = "ready"
                            /\ st[o] = "absent" => st2[o] = "absent"
  PROVE  Progress(r, st2, se)
<1>1. /\ \A o \in DOMAIN History[r.cfg] : o \in Objects
      /\ \A n \in ASGs : n \in Objects
      /\ \A l \in LBs : l \in Objects
  BY HistoryAssumption DEF Objects
<1>2. ASSUME NEW o \in Objects, Settled(r, o, st, se) PROVE Settled(r, o, st2, se)
  BY <1>2 DEF Settled, Sits
<1>3. ASSUME NEW o \in Objects, Made(r, o, st, se) PROVE Made(r, o, st2, se)
  BY <1>3 DEF Made, Sits
<1>4. Planning(r, st, se) => Planning(r, st2, se)
  BY <1>1, <1>2 DEF Planning
<1> QED
  BY <1>1, <1>2, <1>3, <1>4 DEF Progress

LEMMA GoneClearing ==
  ASSUME NEW r, NEW st, NEW b, NEW f, NEW st2, Clearing(r, st, b, f),
         \A o \in Objects : st2[o] # "absent" => st[o] # "absent"
  PROVE  Clearing(r, st2, b, f)
<1>1. /\ \A n \in ASGs : n \in Objects
      /\ \A l \in Rebuilt(r) : l \in Objects
  BY DEF Objects, Rebuilt
<1>2. ASSUME NEW l \in Objects, Doomed(r, l, st, b) PROVE Doomed(r, l, st2, b)
  BY <1>2 DEF Doomed
<1> QED
  BY <1>1, <1>2 DEF Clearing

\* A command that is over says nothing about the cluster.
LEMMA OverHolds ==
  ASSUME NEW pc \in Ended, NEW st, NEW se, NEW b, NEW f
  PROVE  /\ Progress(At(pc), st, se) /\ Clearing(At(pc), st, b, f)
         /\ \A now : Horizon(At(pc), now) = now
<1>1. At(pc).pc = pc
  BY AtType DEF Phases, Ended
<1> QED
  BY <1>1 DEF Progress, Clearing, Horizon, Ended

-----------------------------------------------------------------------------
\* What a noop means.

\* Settings that were overtaken and are those of YAML k have returned.
LEMMA OvertakenReturns ==
  ASSUME NEW k \in 1..Len(History), NEW j \in 1..k, NEW o, NEW se, Overtaken(o, j, se),
         o \in DOMAIN History[k], se[o] = History[k][o]
  PROVE  Returns(o)
<1>1. PICK i \in 1..j : o \in DOMAIN History[i] /\ se[o] = History[i][o]
  BY DEF Overtaken, Given
<1>2. j # k /\ i # j
  BY <1>1 DEF Overtaken
<1>3. /\ i \in 1..Len(History) /\ j \in 1..Len(History) /\ i < j /\ j < k
  BY <1>1, <1>2, HistoryAssumption
<1> QED
  BY <1>1, <1>3 DEF Overtaken, Returns

\* An ASG that compares as equal to its YAML is not being deleted.
LEMMA EqualASGStays ==
  ASSUME NEW k \in 1..Len(History), NEW st \in [Objects -> Statuses], NEW se, Explained(k, st, se),
         NEW n \in ASGs, n \in DOMAIN History[k], se[n] = History[k][n], st[n] # "absent",
         ~Returns(n)
  PROVE  st[n] = "ready"
<1>1. n \in Objects /\ n \notin LBs
  BY ObjectsAssumption DEF Objects
<1>2. st[n] # "deleting"
  BY <1>1, OvertakenReturns DEF Explained
<1> QED
  BY <1>1, <1>2 DEF Statuses

\* Nor is an LB, if the ASG it is attached to is not to be recreated.
LEMMA EqualLBStays ==
  ASSUME NEW k \in 1..Len(History), NEW st \in [Objects -> Statuses], NEW se, Explained(k, st, se),
         NEW l \in LBs, l \in DOMAIN History[k], se[l] = History[k][l], st[l] # "absent",
         Parent[l] \in DOMAIN History[k] => se[Parent[l]] = History[k][Parent[l]],
         Steady(l)
  PROVE  st[l] = "ready"
<1>1. l \in Objects
  BY DEF Objects
<1>2. ASSUME st[l] = "deleting" PROVE FALSE
  <2>1. PICK j \in 1..k : /\ l \in DOMAIN History[j]
                          /\ Overtaken(l, j, se) \/ Overtaken(Parent[l], j, se)
    BY <1>1, <1>2 DEF Explained
  <2>2. Overtaken(Parent[l], j, se)
    BY <2>1, OvertakenReturns DEF Steady
  <2>3. Parent[l] \notin DOMAIN History[k]
    BY <2>1, <2>2, OvertakenReturns DEF Steady
  <2>4. Parent[l] \in DOMAIN History[j] /\ j # k
    BY <2>2, <2>3 DEF Overtaken
  <2>5. j \in 1..Len(History) /\ j < k
    BY <2>1, <2>4, HistoryAssumption
  <2> QED
    BY <2>1, <2>3, <2>4, <2>5 DEF Steady, Dropped
<1> QED
  BY <1>1, <1>2 DEF Statuses

-----------------------------------------------------------------------------
\* Each step of the command.

LEMMA AloneFacts ==
  ASSUME Inv, Dated, Alone, NEW s \in Slots
  PROVE  /\ AloneHolds(run[s], yaml, status, setting, born, count.glitches)
         /\ Horizon(run[s], yaml) \in 1..Len(History) /\ Horizon(run[s], yaml) <= yaml
         /\ yaml \in 1..Len(History) /\ count.glitches \in Nat
         /\ status \in [Objects -> Statuses] /\ born \in [Objects -> Nat]
<1>1. /\ yaml \in 1..Len(History) /\ run[s].cfg \in 1..Len(History)
      /\ count \in Counters /\ status \in [Objects -> Statuses] /\ born \in [Objects -> Nat]
  BY RunFacts DEF Inv, Typed
<1>2. run[s].cfg <= yaml /\ yaml <= yaml
  BY <1>1, HistoryAssumption DEF Dated
<1> QED
  BY <1>1, <1>2, BoundsAssumption DEF Alone, Horizon, Counters

LEMMA AloneBecomes ==
  ASSUME OneCommand, Inv, NEW s \in Slots, NEW r, Becomes(s, r),
         AloneHolds(r, yaml', status', setting', born', count'.glitches)
  PROVE  Alone'
<1>1. run \in [Slots -> Runs]
  BY DEF Inv, Typed
<1>2. \A t \in Slots : run'[t] = r
  BY <1>1 DEF Becomes, OneCommand
<1> QED
  BY <1>2 DEF Alone

\* A step that the service does not see.
LEMMA QuietStep ==
  ASSUME OneCommand, Inv, Dated, Alone, NEW s \in Slots, NEW r, Becomes(s, r),
         UNCHANGED service, yaml' = yaml,
         Horizon(r, yaml) \in {run[s].cfg, yaml}, Horizon(run[s], yaml) <= Horizon(r, yaml),
         Progress(r, status, setting), Clearing(r, status, born, count'.glitches)
  PROVE  Alone'
<1>1. status' = status /\ setting' = setting /\ born' = born
  BY DEF service
<1>2. /\ Explained(Horizon(run[s], yaml), status, setting) /\ Numbered(status, born)
      /\ Horizon(run[s], yaml) \in 1..Len(History) /\ Horizon(r, yaml) \in 1..Len(History)
  BY AloneFacts, RunFacts DEF AloneHolds
<1>3. Explained(Horizon(r, yaml), status, setting)
  BY <1>2, ExplainedGrows
<1>4. AloneHolds(r, yaml', status', setting', born', count'.glitches)
  BY <1>1, <1>2, <1>3 DEF AloneHolds
<1> QED
  BY <1>4, AloneBecomes

LEMMA EndAlone ==
  ASSUME OneCommand, Inv, Dated, Alone, NEW s \in Slots, NEW pc \in Ended, End(s, pc),
         UNCHANGED service, yaml' = yaml
  PROVE  Alone'
<1>1. Becomes(s, At(pc)) /\ Horizon(At(pc), yaml) = yaml
  BY OverHolds DEF End
<1>2. Horizon(run[s], yaml) <= yaml
  BY AloneFacts
<1>3. Progress(At(pc), status, setting) /\ Clearing(At(pc), status, born, count'.glitches)
  BY OverHolds
<1> HIDE DEF Horizon, Progress, Clearing
<1> QED
  BY <1>1, <1>2, <1>3, QuietStep

\* A command goes on with its YAML, and the service does not see it.
LEMMA OnAlone ==
  ASSUME OneCommand, Inv, Dated, Alone, NEW s \in Slots, NEW r, Becomes(s, r),
         run[s].pc \notin Ended, r.pc \notin Ended, r.cfg = run[s].cfg,
         UNCHANGED service, yaml' = yaml,
         Progress(r, status, setting), Clearing(r, status, born, count'.glitches)
  PROVE  Alone'
<1>1. Horizon(r, yaml) = run[s].cfg /\ Horizon(run[s], yaml) = run[s].cfg
  BY DEF Horizon
<1>2. run[s].cfg <= run[s].cfg
  BY RunFacts, HistoryAssumption
<1> QED
  BY <1>1, <1>2, QuietStep

LEMMA StartAlone ==
  ASSUME OneCommand, Inv, Dated, Alone, NEW s \in Slots, Start(s)
  PROVE  Alone'
<1> DEFINE r == [At("list") EXCEPT !.cfg = yaml]
<1>1. Becomes(s, r) /\ yaml' = yaml /\ UNCHANGED service /\ run[s].pc \in Ended
  BY DEF Start
<1>2. r.pc = "list" /\ r.cfg = yaml
  BY AtType DEF At
<1> HIDE DEF r
<1>3. Horizon(r, yaml) = yaml /\ Horizon(run[s], yaml) = yaml
  BY <1>1, <1>2 DEF Horizon, Ended
<1>4. yaml <= yaml
  BY AloneFacts
<1>5. Progress(r, status, setting) /\ Clearing(r, status, born, count'.glitches)
  BY <1>2 DEF Progress, Clearing, Ended
<1> QED
  BY <1>1, <1>3, <1>4, <1>5, QuietStep

LEMMA ListASGsAlone ==
  ASSUME OneCommand, Inv, Dated, Alone, NEW s \in Slots, ListASGs(s)
  PROVE  Alone'
<1> DEFINE r == [run[s] EXCEPT !.pc = "planASG", !.ids = IDs]
<1>1. run[s].pc = "list" /\ Becomes(s, r) /\ yaml' = yaml /\ UNCHANGED service
  BY DEF ListASGs
<1>2. r.pc = "planASG" /\ r.cfg = run[s].cfg /\ r.ids = IDs
  BY RunFacts DEF Runs
<1> HIDE DEF r
<1>3. Progress(r, status, setting) /\ Clearing(r, status, born, count'.glitches)
  BY <1>2 DEF Progress, Clearing, Ended, IDs
<1> QED
  BY <1>1, <1>2, <1>3, OnAlone DEF Ended

LEMMA PlanASGsAlone ==
  ASSUME OneCommand, Inv, Dated, Alone, NEW s \in Slots, PlanASGs(s)
  PROVE  Alone'
<1> DEFINE r == run[s]
           c == History[r.cfg]
           plan2 == [o \in Objects |->
                       IF o \in ASGs THEN ASGAction(s, o)
                       ELSE IF o \in Wanted(s) /\ run[s].ids[Parent[o]] = 0
                            THEN Action("create", 0) ELSE Nothing]
           todo2 == {n \in ASGs : run[s].ids[n] # 0}
           r2 == [r EXCEPT !.pc = "planLB", !.plan = plan2, !.todo = todo2]
<1>1. r.pc = "planASG" /\ Becomes(s, r2) /\ yaml' = yaml /\ UNCHANGED service
  BY DEF PlanASGs
<1>2. r \in Runs /\ Cfg(s) = c /\ Wanted(s) = DOMAIN c /\ r.cfg \in 1..Len(History)
  BY RunFacts
<1>3. r2.pc = "planLB" /\ r2.cfg = r.cfg /\ r2.plan = plan2 /\ r2.todo = todo2
  BY <1>2 DEF Runs
<1>4. /\ Explained(r.cfg, status, setting) /\ Numbered(status, born)
      /\ Clearing(r, status, born, count.glitches) /\ status \in [Objects -> Statuses]
  BY <1>1, AloneFacts DEF AloneHolds, Horizon, Ended
<1>5. /\ \A n \in ASGs : n \in Objects /\ plan2[n] = ASGAction(s, n)
      /\ \A l \in LBs : l \in Objects /\ l \notin ASGs
  BY ObjectsAssumption DEF Objects
<1>6. ASSUME NEW n \in ASGs \cap DOMAIN c
      PROVE  /\ Settled(r2, n, status, setting)
             /\ plan2[n].kind = "create" => status[n] = "absent"
             /\ plan2[n].kind = "noop" => setting[n] = c[n]
  <2>1. /\ plan2[n].kind \in {"create", "recreate", "noop"}
        /\ plan2[n].kind = "create" => status[n] = "absent"
        /\ plan2[n].kind = "noop" => setting[n] = c[n] /\ status[n] # "absent"
    BY <1>2, <1>5 DEF ASGAction, Action
  <2>2. plan2[n].kind = "noop" /\ Steady(n) => status[n] = "ready"
    BY <1>2, <1>4, <2>1, EqualASGStays DEF Steady
  <2> QED
    BY <1>3, <2>1, <2>2 DEF Settled, Sits
<1>7. ASSUME NEW l \in LBs \cap DOMAIN c, Parent[l] \notin todo2
      PROVE  Settled(r2, l, status, setting)
  <2>1. plan2[l] = Action("create", 0)
    BY <1>2, <1>5, <1>7, ObjectsAssumption
  <2> QED
    BY <1>3, <2>1 DEF Settled, Action
<1>8. ASSUME NEW l \in Rebuilt(r2) PROVE Parent[l] \in todo2
  <2>1. Parent[l] \in ASGs /\ plan2[Parent[l]].kind = "recreate"
    BY <1>3, ObjectsAssumption DEF Rebuilt
  <2>2. status[Parent[l]] # "absent"
    BY <1>5, <2>1 DEF ASGAction, Action, Nothing
  <2>3. r.ids[Parent[l]] = born[Parent[l]] /\ born[Parent[l]] # 0
    BY <1>1, <1>4, <1>5, <2>1, <2>2 DEF Clearing, Numbered
  <2> QED
    BY <2>1, <2>3
<1> HIDE DEF r2, plan2, todo2
<1>9. Progress(r2, status, setting)
  BY <1>3, <1>6, <1>7 DEF Progress, Planning, Ended
<1>10. Clearing(r2, status, born, count'.glitches)
  BY <1>3, <1>8 DEF Clearing
<1> QED
  BY <1>1, <1>3, <1>9, <1>10, OnAlone DEF Ended

LEMMA PlanLBsAlone ==
  ASSUME OneCommand, Inv, Dated, Alone, NEW s \in Slots, NEW n \in ASGs, PlanLBs(s, n)
  PROVE  Alone'
<1> DEFINE r == run[s]
           c == History[r.cfg]
           plan2 == [o \in Objects |->
                       IF o \in LBs /\ Parent[o] = n THEN LBAction(s, o) ELSE r.plan[o]]
           r2 == [r EXCEPT !.plan = plan2, !.todo = @ \ {n}]
<1>1. r.pc = "planLB" /\ yaml' = yaml /\ UNCHANGED service /\ count' = count
  BY DEF PlanLBs
<1>2. CASE End(s, "failed")
  BY <1>1, <1>2, EndAlone DEF Ended
<1>3. CASE Becomes(s, r2)
  <2>1. r \in Runs /\ Cfg(s) = c /\ Wanted(s) = DOMAIN c /\ r.cfg \in 1..Len(History)
    BY RunFacts
  <2>2. r2.pc = "planLB" /\ r2.cfg = r.cfg /\ r2.plan = plan2 /\ r2.todo = r.todo \ {n}
    BY <1>1, <2>1 DEF Runs
  <2>3. /\ Explained(r.cfg, status, setting) /\ Progress(r, status, setting)
        /\ Clearing(r, status, born, count.glitches) /\ status \in [Objects -> Statuses]
    BY <1>1, AloneFacts DEF AloneHolds, Horizon, Ended
  <2>4. /\ \A m \in ASGs : plan2[m] = r.plan[m]
        /\ \A l \in LBs : Parent[l] \in ASGs /\ l \in Objects
        /\ \A l \in LBs : Parent[l] = n => plan2[l] = LBAction(s, l)
        /\ \A l \in LBs : Parent[l] # n => plan2[l] = r.plan[l]
    BY ObjectsAssumption DEF Objects
  <2>5. Planning(r, status, setting)
    BY <1>1, <2>3 DEF Progress
  <2>6. ASSUME NEW l \in LBs \cap DOMAIN c, Parent[l] = n
        PROVE  Settled(r2, l, status, setting)
    <3>1. plan2[l].kind \in {"create", "recreate", "noop"}
      BY <2>1, <2>4, <2>6 DEF LBAction, Action
    <3>2. ASSUME plan2[l].kind = "noop", Steady(l) PROVE Sits(l, c, status, setting)
      <4>1. /\ status[l] # "absent" /\ setting[l] = c[l]
            /\ r.plan[n].kind # "recreate"
        BY <2>1, <2>4, <2>6, <3>2 DEF LBAction, Action
      <4>2. status[n] = "ready"
        BY <2>6, <4>1 DEF Inv, Anchored
      <4>3. n \in DOMAIN c => setting[n] = c[n]
        BY <2>5, <4>1, <4>2 DEF Planning, Settled
      <4>4. status[l] = "ready"
        BY <2>1, <2>3, <2>6, <3>2, <4>1, <4>3, EqualLBStays
      <4> QED
        BY <4>1, <4>4 DEF Sits
    <3> QED
      BY <2>2, <3>1, <3>2 DEF Settled
  <2>7. ASSUME NEW o, Settled(r, o, status, setting), plan2[o] = r.plan[o]
        PROVE  Settled(r2, o, status, setting)
    BY <2>2, <2>7 DEF Settled
  <2>8. ASSUME NEW l \in Rebuilt(r2), Parent[l] \notin r2.todo
        PROVE  Doomed(r2, l, status, born)
    <3>1. l \in LBs /\ l \in DOMAIN c /\ r.plan[Parent[l]].kind = "recreate" /\ l \in Rebuilt(r)
      BY <2>2, <2>4 DEF Rebuilt
    <3>2. CASE Parent[l] = n
      <4>1. LBAction(s, l) = IF status[l] = "absent" THEN Action("create", 0)
                             ELSE Action("recreate", born[l])
        BY <2>1, <3>1 DEF LBAction
      <4>2. plan2[l] = LBAction(s, l) /\ r2.plan = plan2
        BY <2>2, <2>4, <3>1, <3>2
      <4> HIDE DEF r2, plan2
      <4> QED
        BY <4>1, <4>2 DEF Doomed, Action
    <3>3. CASE Parent[l] # n
      <4>1. Doomed(r, l, status, born)
        BY <1>1, <2>2, <2>3, <2>8, <3>1, <3>3 DEF Clearing
      <4> QED
        BY <2>2, <2>4, <3>1, <3>3, <4>1 DEF Doomed
    <3> QED
      BY <3>2, <3>3
  <2> HIDE DEF r2, plan2
  <2>9. Progress(r2, status, setting)
    <3>1. Planning(r2, status, setting)
      BY <2>2, <2>4, <2>5, <2>6, <2>7 DEF Planning
    <3> QED
      BY <2>2, <3>1 DEF Progress, Ended
  <2>10. Clearing(r2, status, born, count'.glitches)
    BY <2>2, <2>8 DEF Clearing
  <2> QED
    BY <1>1, <1>3, <2>2, <2>9, <2>10, OnAlone DEF Ended
<1> QED
  BY <1>2, <1>3 DEF PlanLBs

LEMMA DecideAlone ==
  ASSUME OneCommand, Inv, Dated, Alone, NEW s \in Slots, Decide(s)
  PROVE  Alone'
<1> DEFINE r2 == [run[s] EXCEPT !.pc = "approve"]
<1>1. /\ run[s].pc = "planLB" /\ run[s].todo = {} /\ yaml' = yaml /\ UNCHANGED service
  BY DEF Decide
<1>2. CASE End(s, "idle")
  BY <1>1, <1>2, EndAlone DEF Ended
<1>3. CASE Becomes(s, r2)
  <2>1. r2.pc = "approve" /\ r2.cfg = run[s].cfg /\ r2.plan = run[s].plan
    BY RunFacts DEF Runs
  <2>2. /\ Planning(run[s], status, setting)
        /\ \A l \in Rebuilt(run[s]) : Doomed(run[s], l, status, born)
    BY <1>1, AloneFacts DEF AloneHolds, Progress, Clearing
  <2>3. \A o \in DOMAIN History[run[s].cfg] : o \in ASGs \/ o \in LBs
    BY RunFacts DEF Objects
  <2> HIDE DEF r2
  <2>4. Progress(r2, status, setting)
    BY <1>1, <2>1, <2>2, <2>3 DEF Progress, Planning, Settled
  <2>5. Clearing(r2, status, born, count'.glitches)
    BY <2>1, <2>2 DEF Clearing, Doomed, Rebuilt
  <2> QED
    BY <1>1, <1>3, <2>1, <2>4, <2>5, OnAlone DEF Ended
<1> QED
  BY <1>2, <1>3 DEF Decide

LEMMA ApproveAlone ==
  ASSUME OneCommand, Inv, Dated, Alone, NEW s \in Slots, Approve(s)
  PROVE  Alone'
<1> DEFINE r2 == Enter([run[s] EXCEPT !.ids = IDs], "deleteLB")
<1>1. run[s].pc = "approve" /\ Becomes(s, r2) /\ yaml' = yaml /\ UNCHANGED service
  BY DEF Approve
<1>2. r2.pc = "deleteLB" /\ r2.cfg = run[s].cfg /\ r2.plan = run[s].plan
  BY RunFacts DEF Runs, Enter
<1>3. /\ \A o \in DOMAIN History[run[s].cfg] : Settled(run[s], o, status, setting)
      /\ \A l \in Rebuilt(run[s]) : Doomed(run[s], l, status, born)
  BY <1>1, AloneFacts DEF AloneHolds, Progress, Clearing, Phases, Ended
<1> HIDE DEF r2
<1>4. Progress(r2, status, setting)
  BY <1>2, <1>3 DEF Progress, Settled
<1>5. Clearing(r2, status, born, count'.glitches)
  BY <1>2, <1>3 DEF Clearing, Doomed, Rebuilt
<1> QED
  BY <1>1, <1>2, <1>4, <1>5, OnAlone DEF Ended

\* A loop that is through has done all of its work; the next one has yet to begin.
LEMMA AdvanceAlone ==
  ASSUME OneCommand, Inv, Dated, Alone, NEW s \in Slots, Advance(s)
  PROVE  Alone'
<1> DEFINE r == run[s]
           r2 == Enter(r, After[r.pc])
           c == History[r.cfg]
<1>1. /\ r.pc \in {"deleteLB", "waitLB", "deleteASG", "createASG"} /\ r.todo = {}
      /\ Becomes(s, r2) /\ yaml' = yaml /\ UNCHANGED service /\ count' = count
  BY DEF Advance, After
<1>2. /\ r2.pc = After[r.pc] /\ r2.cfg = r.cfg /\ r2.plan = r.plan
      /\ r2.todo = Work(r, After[r.pc])
  BY RunFacts DEF Runs, Enter
<1>3. After[r.pc] = CASE r.pc = "deleteLB" -> "waitLB" [] r.pc = "waitLB" -> "deleteASG"
                      [] r.pc = "deleteASG" -> "createASG" [] r.pc = "createASG" -> "createLB"
  BY <1>1 DEF After
<1>4. /\ Progress(r, status, setting) /\ Clearing(r, status, born, count.glitches)
      /\ \A o \in DOMAIN c : Settled(r, o, status, setting)
  BY <1>1, AloneFacts DEF AloneHolds, Progress, Phases, Ended
<1> HIDE DEF r2
<1>5. Progress(r2, status, setting)
  <2>1. \A o \in DOMAIN c : Settled(r2, o, status, setting)
    BY <1>2, <1>4 DEF Settled
  <2>2. ASSUME r2.pc = "createASG", NEW n \in ASGs PROVE Made(r2, n, status, setting)
    BY <1>1, <1>2, <1>3, <2>2 DEF Made, Work
  <2>3. ASSUME r2.pc = "createLB", NEW n \in ASGs \cap DOMAIN c
        PROVE  Made(r2, n, status, setting)
    <3>1. r.pc = "createASG"
      BY <1>1, <1>2, <1>3, <2>3
    <3>2. Made(r, n, status, setting)
      BY <1>4, <2>3, <3>1 DEF Progress
    <3> QED
      BY <1>1, <1>2, <3>2 DEF Made
  <2>4. ASSUME r2.pc = "createLB", NEW l \in LBs PROVE Made(r2, l, status, setting)
    BY <1>1, <1>2, <1>3, <2>4 DEF Made, Work
  <2>5. r2.pc # "planLB"
    BY <1>1, <1>2, <1>3
  <2> QED
    BY <1>2, <2>1, <2>2, <2>3, <2>4, <2>5 DEF Progress
<1>6. Clearing(r2, status, born, count'.glitches)
  <2>1. Rebuilt(r2) = Rebuilt(r)
    BY <1>2 DEF Rebuilt
  <2>2. ASSUME r2.pc = "waitLB", NEW l \in Rebuilt(r)
        PROVE  Doomed(r2, l, status, born) /\ (status[l] # "absent" => l \in r2.todo)
    <3>1. r.pc = "deleteLB"
      BY <1>1, <1>2, <1>3, <2>2
    <3>2. Doomed(r, l, status, born) /\ l \in LBs
      BY <1>4, <2>2, <3>1 DEF Clearing, Rebuilt
    <3>3. r2.todo = Work(r, "waitLB")
      BY <1>2, <2>2
    <3> QED
      BY <1>2, <3>2, <3>3 DEF Doomed, Work
  <2>3. ASSUME r2.pc = "deleteASG", count.glitches = 0, NEW l \in Rebuilt(r)
        PROVE  status[l] = "absent"
    <3>1. r.pc = "waitLB"
      BY <1>1, <1>2, <1>3, <2>3
    <3> QED
      BY <1>1, <1>4, <2>3, <3>1 DEF Clearing
  <2>4. r2.pc \in {"waitLB", "deleteASG", "createASG", "createLB"}
    BY <1>1, <1>2, <1>3
  <2> QED
    BY <1>1, <2>1, <2>2, <2>3, <2>4 DEF Clearing
<1> QED
  <2>1. r2.pc \in {"waitLB", "deleteASG", "createASG", "createLB"}
    BY <1>1, <1>2, <1>3
  <2> QED
    BY <1>1, <1>2, <1>5, <1>6, <2>1, OnAlone DEF Ended

\* A step of Apply that the service sees.
LEMMA WorkAlone ==
  ASSUME OneCommand, Inv, Dated, Alone, NEW s \in Slots, NEW r, Becomes(s, r),
         run[s].pc \notin Ended, r.pc \notin Ended, r.cfg = run[s].cfg, yaml' = yaml,
         Explained(r.cfg, status', setting'), Progress(r, status', setting'),
         Clearing(r, status', born', count'.glitches), Numbered(status', born')
  PROVE  Alone'
<1>1. Horizon(r, yaml') = r.cfg
  BY DEF Horizon
<1>2. AloneHolds(r, yaml', status', setting', born', count'.glitches)
  BY <1>1 DEF AloneHolds
<1> QED
  BY <1>2, AloneBecomes

\* A deletion that the plan asks for.
LEMMA DeletedAlone ==
  ASSUME OneCommand, Inv, Dated, Alone, NEW s \in Slots, NEW o \in Objects, NEW r,
         run[s].plan[o].kind = "recreate", Alive(o, Target(s, o)), Deleted(o), Becomes(s, r),
         r.cfg = run[s].cfg, r.plan = run[s].plan, count' = count, yaml' = yaml,
         \/ run[s].pc = "deleteLB" /\ r.pc = "deleteLB"
         \/ run[s].pc = "deleteASG" /\ r.pc = "waitASG"
  PROVE  Alone'
<1>1. /\ Explained(run[s].cfg, status, setting) /\ Numbered(status, born)
      /\ Progress(run[s], status, setting) /\ Clearing(run[s], status, born, count.glitches)
      /\ run[s].cfg \in 1..Len(History)
  BY AloneFacts, RunFacts DEF AloneHolds, Horizon, Ended
<1>2. /\ setting' = setting /\ born' = born /\ status[o] # "absent"
      /\ \A p \in Objects : p # o => status'[p] = status[p]
      /\ \A p \in Objects : status'[p] # "absent" <=> status[p] # "absent"
  BY DEF Deleted, Alive, Inv, Typed
<1>3. IsOutdated(o, History[run[s].cfg], setting)
  BY PlannedOutdated DEF Outdated, Differs, IsOutdated, Cfg
<1>4. Explained(r.cfg, status', setting')
  BY <1>1, <1>2, <1>3, ExplainedDeleted DEF Inv
<1>5. Progress(r, status', setting')
  <2>1. ASSUME NEW p \in DOMAIN History[r.cfg] PROVE Settled(r, p, status', setting')
    <3>1. Settled(run[s], p, status, setting) /\ p \in Objects
      BY <1>1, <2>1, HistoryAssumption DEF Progress, Phases, Ended
    <3>2. CASE p = o
      BY <3>1, <3>2 DEF Settled
    <3>3. CASE p # o
      BY <1>2, <3>1, <3>3 DEF Settled, Sits
    <3> QED
      BY <3>2, <3>3
  <2> QED
    BY <2>1 DEF Progress
<1>6. Clearing(r, status', born', count'.glitches)
  <2>1. \A l \in Rebuilt(r) : l \in Objects
    BY DEF Rebuilt, Objects
  <2>2. Rebuilt(r) = Rebuilt(run[s])
    BY DEF Rebuilt
  <2> QED
    BY <1>1, <1>2, <2>1, <2>2 DEF Clearing, Doomed
<1>7. Numbered(status', born')
  BY <1>1, <1>2 DEF Numbered
<1> QED
  BY <1>4, <1>5, <1>6, <1>7, WorkAlone DEF Ended

LEMMA DeleteLBAlone ==
  ASSUME OneCommand, Inv, Dated, Alone, NEW s \in Slots, NEW l \in LBs, DeleteLB(s, l)
  PROVE  Alone'
<1> DEFINE r == [run[s] EXCEPT !.todo = @ \ {l}]
<1>1. Turn(s, "deleteLB", l) /\ l \in Objects /\ yaml' = yaml /\ count' = count
  BY DEF DeleteLB, Objects
<1>2. CASE End(s, "failed") /\ UNCHANGED service
  BY <1>1, <1>2, EndAlone DEF Ended
<1>3. CASE Alive(l, Target(s, l)) /\ Deleted(l) /\ Becomes(s, r)
  <2>1. run[s].plan[l].kind = "recreate"
    BY <1>1, RunFacts DEF Turn, RunHolds, TodoHolds
  <2>2. r.pc = run[s].pc /\ r.cfg = run[s].cfg /\ r.plan = run[s].plan
    BY RunFacts DEF Runs
  <2> HIDE DEF r
  <2> QED
    BY <1>1, <1>3, <2>1, <2>2, DeletedAlone DEF Turn
<1> QED
  BY <1>2, <1>3 DEF DeleteLB

LEMMA DeleteASGAlone ==
  ASSUME OneCommand, Inv, Dated, Alone, NEW s \in Slots, NEW n \in ASGs, DeleteASG(s, n)
  PROVE  Alone'
<1> DEFINE r == [run[s] EXCEPT !.pc = "waitASG", !.todo = @ \ {n}, !.at = n]
<1>1. Turn(s, "deleteASG", n) /\ n \in Objects /\ yaml' = yaml /\ count' = count
  BY DEF DeleteASG, Objects
<1>2. CASE End(s, "failed") /\ UNCHANGED service
  BY <1>1, <1>2, EndAlone DEF Ended
<1>3. CASE Alive(n, Target(s, n)) /\ Deleted(n) /\ Becomes(s, r)
  <2>1. run[s].plan[n].kind = "recreate"
    BY <1>1, RunFacts DEF Turn, RunHolds, TodoHolds
  <2>2. r.pc = "waitASG" /\ r.cfg = run[s].cfg /\ r.plan = run[s].plan
    BY RunFacts DEF Runs
  <2> HIDE DEF r
  <2> QED
    BY <1>1, <1>3, <2>1, <2>2, DeletedAlone DEF Turn
<1> QED
  BY <1>2, <1>3 DEF DeleteASG

\* A poll that fails leaves a trace, so without one what was waited for is gone.
LEMMA PolledAlone ==
  ASSUME Inv, NEW o, NEW id, PolledGone(o, id), count'.glitches = 0
  PROVE  count.glitches = 0 /\ ~Alive(o, id)
<1>1. count \in Counters
  BY DEF Inv, Typed
<1>2. count' = [count EXCEPT !.glitches = @ + 1] => count'.glitches = count.glitches + 1
  BY <1>1 DEF Counters
<1>3. count.glitches \in Nat
  BY <1>1, BoundsAssumption DEF Counters
<1> QED
  BY <1>2, <1>3 DEF PolledGone

LEMMA WaitLBAlone ==
  ASSUME OneCommand, Inv, Dated, Alone, NEW s \in Slots, NEW l \in LBs, WaitLB(s, l)
  PROVE  Alone'
<1> DEFINE r == [run[s] EXCEPT !.todo = @ \ {l}]
<1>1. /\ run[s].pc = "waitLB" /\ l \in run[s].todo /\ PolledGone(l, Target(s, l))
      /\ Becomes(s, r) /\ yaml' = yaml /\ UNCHANGED service
  BY DEF WaitLB, Turn
<1>2. /\ r.pc = "waitLB" /\ r.cfg = run[s].cfg /\ r.plan = run[s].plan
      /\ r.todo = run[s].todo \ {l}
  BY <1>1, RunFacts DEF Runs
<1>3. Progress(run[s], status, setting) /\ Clearing(run[s], status, born, count.glitches)
  BY AloneFacts DEF AloneHolds
<1> HIDE DEF r
<1>4. Progress(r, status, setting)
  BY <1>1, <1>2, <1>3 DEF Progress, Settled, Phases, Ended
<1>5. Clearing(r, status, born, count'.glitches)
  <2>1. ASSUME count'.glitches = 0, NEW m \in Rebuilt(r)
        PROVE  Doomed(r, m, status, born) /\ (status[m] # "absent" => m \in r.todo)
    <3>1. count.glitches = 0 /\ ~Alive(l, Target(s, l)) /\ Rebuilt(r) = Rebuilt(run[s])
      BY <1>1, <1>2, <2>1, PolledAlone DEF Rebuilt
    <3>2. /\ Doomed(run[s], m, status, born)
          /\ status[m] # "absent" => m \in run[s].todo
      BY <1>1, <1>3, <2>1, <3>1 DEF Clearing
    <3> QED
      BY <1>2, <3>1, <3>2 DEF Doomed, Alive, Target
  <2> QED
    BY <1>2, <2>1 DEF Clearing
<1> QED
  BY <1>1, <1>2, <1>4, <1>5, OnAlone DEF Ended

LEMMA WaitASGAlone ==
  ASSUME OneCommand, Inv, Dated, Alone, NEW s \in Slots, NEW n \in ASGs, WaitASG(s, n)
  PROVE  Alone'
<1> DEFINE r == [run[s] EXCEPT !.pc = "deleteASG", !.at = None, !.ids[n] = 0]
<1>1. /\ run[s].pc = "waitASG" /\ PolledGone(n, Target(s, n))
      /\ Becomes(s, r) /\ yaml' = yaml /\ UNCHANGED service
  BY DEF WaitASG
<1>2. r.pc = "deleteASG" /\ r.cfg = run[s].cfg /\ r.plan = run[s].plan
  BY RunFacts DEF Runs
<1>3. Progress(run[s], status, setting) /\ Clearing(run[s], status, born, count.glitches)
  BY AloneFacts DEF AloneHolds
<1> HIDE DEF r
<1>4. Progress(r, status, setting)
  BY <1>1, <1>2, <1>3 DEF Progress, Settled, Phases, Ended
<1>5. Clearing(r, status, born, count'.glitches)
  BY <1>1, <1>2, <1>3, PolledAlone DEF Clearing, Rebuilt
<1> QED
  BY <1>1, <1>2, <1>4, <1>5, OnAlone DEF Ended

\* A creation that the plan asks for.
LEMMA CreatedAlone ==
  ASSUME OneCommand, Inv, Dated, Alone, NEW s \in Slots, NEW pc \in {"createASG", "createLB"},
         NEW o, Turn(s, pc, o), Created(o, Cfg(s)[o]), NEW r, Becomes(s, r),
         r.pc = pc, r.cfg = run[s].cfg, r.plan = run[s].plan, r.todo = run[s].todo \ {o},
         yaml' = yaml
  PROVE  Alone'
<1> DEFINE c == History[run[s].cfg]
<1>1. o \in Objects /\ o \in DOMAIN c /\ Cfg(s) = c
  <2>1. o \in Objects /\ RunHolds(run[s], status, setting, born) /\ Cfg(s) = c
    BY CreateWanted, RunFacts
  <2> QED
    BY <2>1 DEF RunHolds, PlanHolds, TodoHolds, Turn
<1>2. /\ Explained(run[s].cfg, status, setting) /\ Numbered(status, born)
      /\ Progress(run[s], status, setting) /\ run[s].cfg \in 1..Len(History)
  BY AloneFacts, RunFacts DEF AloneHolds, Horizon, Ended, Turn
<1>3. /\ status[o] = "absent" /\ status'[o] = "ready" /\ setting'[o] = c[o]
      /\ born[o] \in Nat /\ born'[o] = born[o] + 1
      /\ \A p \in Objects : p # o =>
           status'[p] = status[p] /\ setting'[p] = setting[p] /\ born'[p] = born[p]
  BY <1>1 DEF Created, Inv, Typed
<1>4. Explained(r.cfg, status', setting')
  BY <1>1, <1>2, ExplainedCreated DEF Inv
<1>5. Progress(r, status', setting')
  <2>1. ASSUME NEW p \in Objects, p # o, Sits(p, c, status, setting)
        PROVE  Sits(p, c, status', setting')
    BY <1>3, <2>1 DEF Sits
  <2>2. Sits(o, c, status', setting')
    BY <1>3 DEF Sits
  <2>3. ASSUME NEW p \in DOMAIN c PROVE p \in Objects /\ Settled(r, p, status', setting')
    <3>1. p \in Objects /\ Settled(run[s], p, status, setting)
      BY <1>2, <2>3, HistoryAssumption DEF Progress, Turn, Phases, Ended
    <3> QED
      BY <2>1, <2>2, <3>1 DEF Settled
  <2>4. ASSUME NEW p \in DOMAIN c, Made(run[s], p, status, setting)
        PROVE  Made(r, p, status', setting')
    BY <2>1, <2>2, <2>3, <2>4 DEF Made
  <2> QED
    BY <1>2, <2>3, <2>4 DEF Progress, Turn
<1>6. Clearing(r, status', born', count'.glitches)
  BY DEF Clearing
<1>7. Numbered(status', born')
  BY <1>2, <1>3 DEF Numbered
<1> QED
  BY <1>4, <1>5, <1>6, <1>7, WorkAlone DEF Ended, Turn

LEMMA CreateASGAlone ==
  ASSUME OneCommand, Inv, Dated, Alone, NEW s \in Slots, NEW n \in ASGs, CreateASG(s, n)
  PROVE  Alone'
<1> DEFINE r == [run[s] EXCEPT !.todo = @ \ {n}, !.ids[n] = born[n] + 1]
<1>1. Turn(s, "createASG", n) /\ run[s].pc = "createASG" /\ yaml' = yaml
  BY DEF CreateASG, Turn
<1>2. CASE End(s, "failed") /\ UNCHANGED service
  BY <1>1, <1>2, EndAlone DEF Ended
<1>3. CASE Created(n, Cfg(s)[n]) /\ Becomes(s, r)
  <2>1. /\ r.pc = run[s].pc /\ r.cfg = run[s].cfg /\ r.plan = run[s].plan
        /\ r.todo = run[s].todo \ {n}
    BY RunFacts DEF Runs
  <2> HIDE DEF r
  <2> QED
    BY <1>1, <1>3, <2>1, CreatedAlone
<1> QED
  BY <1>2, <1>3 DEF CreateASG

LEMMA CreateLBAlone ==
  ASSUME OneCommand, Inv, Dated, Alone, NEW s \in Slots, NEW l \in LBs, CreateLB(s, l)
  PROVE  Alone'
<1> DEFINE r == [run[s] EXCEPT !.todo = @ \ {l}]
<1>1. Turn(s, "createLB", l) /\ run[s].pc = "createLB" /\ yaml' = yaml
  BY DEF CreateLB, Turn
<1>2. CASE End(s, "failed") /\ UNCHANGED service
  BY <1>1, <1>2, EndAlone DEF Ended
<1>3. CASE Created(l, Cfg(s)[l]) /\ Becomes(s, r)
  <2>1. /\ r.pc = run[s].pc /\ r.cfg = run[s].cfg /\ r.plan = run[s].plan
        /\ r.todo = run[s].todo \ {l}
    BY RunFacts DEF Runs
  <2> HIDE DEF r
  <2> QED
    BY <1>1, <1>3, <2>1, CreatedAlone
<1> QED
  BY <1>2, <1>3 DEF CreateLB

LEMMA GoneAlone ==
  ASSUME OneCommand, Inv, Dated, Alone, NEW o \in Objects, Gone(o)
  PROVE  Alone'
<1>1. /\ run' = run /\ yaml' = yaml /\ setting' = setting /\ born' = born /\ count' = count
      /\ \A p \in Objects : /\ status'[p] # "absent" => status[p] # "absent"
                            /\ status'[p] = "deleting" => status[p] = "deleting"
                            /\ status[p] = "ready" => status'[p] = "ready"
  BY DEF Gone, Inv, Typed
<1>2. ASSUME NEW s \in Slots
      PROVE  AloneHolds(run[s], yaml, status', setting, born, count.glitches)
  <2>1. /\ AloneHolds(run[s], yaml, status, setting, born, count.glitches)
        /\ Horizon(run[s], yaml) \in 1..Len(History) /\ run[s].cfg \in 1..Len(History)
    BY AloneFacts, RunFacts
  <2>2. Horizon(run[s], yaml) <= Horizon(run[s], yaml)
    BY <2>1, HistoryAssumption
  <2>3. Explained(Horizon(run[s], yaml), status', setting)
    BY <1>1, <2>1, <2>2, ExplainedGrows DEF AloneHolds
  <2>4. Progress(run[s], status', setting)
    BY <1>1, <2>1, GoneProgress DEF AloneHolds
  <2>5. Clearing(run[s], status', born, count.glitches)
    BY <1>1, <2>1, GoneClearing DEF AloneHolds
  <2>6. Numbered(status', born)
    BY <1>1, <2>1 DEF AloneHolds, Numbered
  <2> QED
    BY <2>3, <2>4, <2>5, <2>6 DEF AloneHolds
<1> QED
  BY <1>1, <1>2 DEF Alone

LEMMA EditAlone ==
  ASSUME OneCommand, Inv, Dated, Alone, Edit
  PROVE  Alone'
<1>1. /\ run' = run /\ yaml' = yaml + 1 /\ yaml' \in 1..Len(History) /\ yaml <= yaml'
      /\ setting' = setting /\ born' = born /\ count' = count /\ status' = status
  BY HistoryAssumption DEF Edit, service, Inv, Typed
<1>2. ASSUME NEW s \in Slots
      PROVE  AloneHolds(run[s], yaml', status, setting, born, count.glitches)
  <2>1. /\ AloneHolds(run[s], yaml, status, setting, born, count.glitches)
        /\ Horizon(run[s], yaml) \in 1..Len(History)
        /\ run[s].cfg \in 1..Len(History)
    BY AloneFacts, RunFacts
  <2>2. /\ Horizon(run[s], yaml') \in 1..Len(History)
        /\ Horizon(run[s], yaml) <= Horizon(run[s], yaml')
    BY <1>1, <2>1, HistoryAssumption DEF Horizon
  <2>3. Explained(Horizon(run[s], yaml'), status, setting)
    BY <2>1, <2>2, ExplainedGrows DEF AloneHolds
  <2> QED
    BY <2>1, <2>3 DEF AloneHolds
<1> QED
  BY <1>1, <1>2 DEF Alone

LEMMA AloneInit == Init => Alone
<1> SUFFICES ASSUME Init, NEW s \in Slots
             PROVE  AloneHolds(run[s], yaml, status, setting, born, count.glitches)
  BY DEF Alone
<1>1. run[s] = At("idle") /\ \A o \in Objects : status[o] = "absent"
  BY DEF Init
<1>2. /\ Progress(run[s], status, setting)
      /\ Clearing(run[s], status, born, count.glitches)
  BY <1>1, OverHolds DEF Ended
<1>3. Explained(Horizon(run[s], yaml), status, setting) /\ Numbered(status, born)
  BY <1>1 DEF Explained, Numbered
<1> QED
  BY <1>2, <1>3 DEF AloneHolds

LEMMA AloneNext ==
  ASSUME OneCommand
  PROVE  Inv /\ Dated /\ Alone /\ [Next]_vars => Alone'
<1> SUFFICES ASSUME Inv, Dated, Alone, [Next]_vars PROVE Alone'
  OBVIOUS
<1>1. ASSUME NEW s \in Slots,
             \/ Start(s) \/ ListASGs(s) \/ PlanASGs(s) \/ Decide(s) \/ Approve(s) \/ Advance(s)
      PROVE  Alone'
  BY <1>1, StartAlone, ListASGsAlone, PlanASGsAlone, DecideAlone, ApproveAlone, AdvanceAlone
<1>2. ASSUME NEW s \in Slots, Cancel(s) \/ Abandon(s) \/ FinishApply(s) \/ Fail(s)
      PROVE  Alone'
  BY <1>2, EndAlone DEF Cancel, Abandon, FinishApply, Fail, Ended
<1>3. ASSUME NEW s \in Slots, NEW n \in ASGs,
             PlanLBs(s, n) \/ DeleteASG(s, n) \/ WaitASG(s, n) \/ CreateASG(s, n)
      PROVE  Alone'
  BY <1>3, PlanLBsAlone, DeleteASGAlone, WaitASGAlone, CreateASGAlone
<1>4. ASSUME NEW s \in Slots, NEW l \in LBs, DeleteLB(s, l) \/ WaitLB(s, l) \/ CreateLB(s, l)
      PROVE  Alone'
  BY <1>4, DeleteLBAlone, WaitLBAlone, CreateLBAlone
<1>5. ASSUME NEW o \in Objects, Gone(o) PROVE Alone'
  BY <1>5, GoneAlone
<1>6. CASE Edit
  BY <1>6, EditAlone
<1>7. CASE UNCHANGED vars
  BY <1>7 DEF vars, Alone
<1> QED
  BY <1>1, <1>2, <1>3, <1>4, <1>5, <1>6, <1>7 DEF Next, Command

\* With one command at a time no LB of the YAML is left in an ASG that is deleted:
\* planLBChanges plans each of them to be recreated with it, and Apply has deleted them
\* and waited for them by then (sync.go:171-245), whatever the YAML file went through.
THEOREM LBsOutOfTheWay ==
  ASSUME OneCommand
  PROVE  Spec => []ManagedGoneFirst
<1>1. ASSUME Inv, Alone PROVE ManagedGoneFirst
  <2>1. SUFFICES ASSUME NEW s \in Slots, NEW n \in ASGs, Turn(s, "deleteASG", n),
                        count.glitches = 0, NEW l \in Attached(n) \cap Wanted(s)
                 PROVE  FALSE
    BY DEF ManagedGoneFirst
  <2>2. run[s].plan[n].kind = "recreate" /\ Wanted(s) = DOMAIN History[run[s].cfg]
    BY <1>1, <2>1, RunFacts DEF Turn, RunHolds, TodoHolds
  <2>3. l \in Rebuilt(run[s]) /\ status[l] # "absent"
    BY <2>1, <2>2 DEF Attached, Rebuilt
  <2>4. Clearing(run[s], status, born, count.glitches)
    BY <1>1 DEF Alone, AloneHolds
  <2> QED
    BY <2>1, <2>3, <2>4 DEF Clearing, Turn
<1>2. Inv /\ Alone => ManagedGoneFirst
  BY <1>1
<1> QED
  BY <1>2, InvInit, InvNext, DatedInit, DatedNext, AloneInit, AloneNext, PTL DEF Spec

\* Only three steps end a command well.
LEMMA WhoCompletes ==
  ASSUME OneCommand, Inv, Next, NEW s \in Slots, run[s].pc # "idle", run'[s].pc = "idle"
  PROVE  Decide(s) \/ Cancel(s) \/ FinishApply(s)
<1>1. /\ run \in [Slots -> Runs] /\ run[s] \in Runs /\ run' # run
      /\ run[s].pc # "idle" /\ run'[s].pc = "idle"
  BY DEF Inv, Typed
<1>2. \A t \in Slots : t = s
  BY DEF OneCommand
<1>3. \A r : Becomes(s, r) => run'[s] = r
  BY <1>1 DEF Becomes
<1>4. ~End(s, "failed")
  BY <1>1, <1>3, AtType DEF End, Phases
<1>5. ~Start(s)
  <2> DEFINE r == [At("list") EXCEPT !.cfg = yaml]
  <2>1. r.pc = "list"
    BY DEF At
  <2> HIDE DEF r
  <2>2. Start(s) => Becomes(s, r)
    BY DEF Start, r
  <2> QED
    BY <1>1, <1>3, <2>1, <2>2
<1>6. ASSUME NEW pc, NEW r, DOMAIN r = DOMAIN run[s], pc # "idle"
      PROVE  ~Becomes(s, Enter(r, pc))
  <2>1. Enter(r, pc).pc = pc
    BY <1>6, <1>1 DEF Enter, Runs
  <2> QED
    BY <1>1, <1>3, <1>6, <2>1
<1>7. ~(ListASGs(s) \/ PlanASGs(s))
  BY <1>1, <1>3 DEF ListASGs, PlanASGs, Runs
<1>8. ~(Approve(s) \/ Advance(s))
  BY <1>1, <1>6 DEF Approve, Advance, After, Runs
<1>9. ASSUME NEW n \in ASGs
      PROVE  ~(PlanLBs(s, n) \/ DeleteASG(s, n) \/ WaitASG(s, n) \/ CreateASG(s, n))
  <2>1. ~PlanLBs(s, n)
    BY <1>1, <1>3, <1>4 DEF PlanLBs, Runs
  <2>2. ~DeleteASG(s, n)
    BY <1>1, <1>3, <1>4 DEF DeleteASG, Runs
  <2>3. ~WaitASG(s, n)
    BY <1>1, <1>3 DEF WaitASG, Runs
  <2>4. ~CreateASG(s, n)
    BY <1>1, <1>3, <1>4 DEF CreateASG, Turn, Runs
  <2> QED
    BY <2>1, <2>2, <2>3, <2>4
<1>10. ASSUME NEW l \in LBs PROVE ~(DeleteLB(s, l) \/ WaitLB(s, l) \/ CreateLB(s, l))
  BY <1>1, <1>3, <1>4 DEF DeleteLB, WaitLB, CreateLB, Turn, Runs
<1>11. ~Edit /\ \A o \in Objects : ~Gone(o)
  BY <1>1 DEF Edit, Gone
<1>12. ~(Abandon(s) \/ Fail(s))
  BY <1>4 DEF Abandon, Fail
<1> QED
  BY <1>2, <1>5, <1>7, <1>8, <1>9, <1>10, <1>11, <1>12 DEF Next, Command

\* What the step that completes an apply, or finds nothing to do, leaves behind.
LEMMA DoneInPlace ==
  ASSUME OneCommand, Inv, Dated, Alone, Next, NEW s \in Slots,
         run[s].pc \in {"planLB", "createLB"}, run'[s].pc = "idle",
         NEW o \in Wanted(s), Steady(o)
  PROVE  Sits(o, Cfg(s), status, setting)
<1>1. /\ run[s] \in Runs /\ Cfg(s) = History[run[s].cfg]
      /\ o \in Objects /\ o \in DOMAIN History[run[s].cfg]
  BY RunFacts
<1>2. Progress(run[s], status, setting)
  BY DEF Alone, AloneHolds
<1>3. Decide(s) \/ FinishApply(s)
  BY WhoCompletes DEF Cancel
<1>4. CASE Decide(s)
  <2>1. run[s].pc = "planLB" /\ run[s].todo = {}
    BY <1>4 DEF Decide
  <2>2. run[s].plan[o].kind \notin {"create", "recreate"}
    BY <1>1, <1>4 DEF Decide, Becomes, Inv, Typed, Runs
  <2>3. Settled(run[s], o, status, setting)
    BY <1>1, <1>2, <2>1 DEF Progress, Planning, Objects
  <2> QED
    BY <1>1, <2>2, <2>3 DEF Settled
<1>5. CASE FinishApply(s)
  <2>1. run[s].pc = "createLB" /\ run[s].todo = {}
    BY <1>5 DEF FinishApply
  <2>2. Settled(run[s], o, status, setting) /\ Made(run[s], o, status, setting)
    BY <1>1, <1>2, <2>1 DEF Progress, Objects, Phases, Ended
  <2> QED
    BY <1>1, <2>1, <2>2 DEF Settled, Made
<1> QED
  BY <1>3, <1>4, <1>5

\* When an apply completes, or finds nothing to do, nobody else having run meanwhile, all
\* that its YAML names is there to stay, with the settings of the YAML: in whatever
\* state earlier applies left the cluster that failed, timed out on a wait, or took an
\* object for gone that was not (the loops of Apply, sync.go:170-304).
THEOREM CompletedApply ==
  ASSUME OneCommand
  PROVE  Spec => ApplyDone
<1>1. ASSUME Inv, Dated, Alone, Next, NEW s \in Slots,
             run[s].pc \in {"planLB", "createLB"}, run'[s].pc = "idle",
             NEW o \in Wanted(s), Steady(o)
      PROVE  status[o] = "ready" /\ ~Differs(o, Cfg(s))
  BY <1>1, DoneInPlace DEF Sits, Differs
<1>2. Inv /\ Dated /\ Alone /\ [Next]_vars =>
        [\A s \in Slots :
           run[s].pc \in {"planLB", "createLB"} /\ run'[s].pc = "idle" =>
             \A o \in Wanted(s) :
               Steady(o) => status[o] = "ready" /\ ~Differs(o, Cfg(s))]_vars
  BY <1>1
<1> QED
  BY <1>2, InvInit, InvNext, DatedInit, DatedNext, AloneInit, AloneNext,
     PTL DEF Spec, ApplyDone

-----------------------------------------------------------------------------
(***************************************************************************)
(* The comparison of settings (InfraSpec).                                 *)
(***************************************************************************)

\* The place of an interface in a list with one interface per index.
LEMMA ByIndexAt ==
  ASSUME NEW ifaces, OncePerIndex(ifaces), DOMAIN ifaces \subseteq Nat,
         NEW n \in DOMAIN ifaces
  PROVE  /\ ifaces[n].index \in Indexes(ifaces)
         /\ ByIndex(ifaces)[ifaces[n].index] = ifaces[n]
<1> DEFINE i == ifaces[n].index
           P(k) == /\ ifaces[k].index = i
                   /\ \A m \in DOMAIN ifaces : ifaces[m].index = i => m <= k
<1>1. i \in Indexes(ifaces)
  BY DEF Indexes
<1>2. P(n)
  BY DEF OncePerIndex
<1>3. \A k \in DOMAIN ifaces : P(k) => k = n
  BY DEF OncePerIndex
<1>4. (CHOOSE k \in DOMAIN ifaces : P(k)) = n
  BY <1>2, <1>3
<1> QED
  BY <1>1, <1>4 DEF ByIndex

\* As many interfaces as indexes.
LEMMA CountOfIndexes ==
  ASSUME NEW S, NEW ifaces \in Seq(S), OncePerIndex(ifaces)
  PROVE  /\ IsFiniteSet(Indexes(ifaces))
         /\ Cardinality(Indexes(ifaces)) = Len(ifaces)
<1> DEFINE at == [n \in 1..Len(ifaces) |-> ifaces[n].index]
<1>1. DOMAIN ifaces = 1..Len(ifaces) /\ Len(ifaces) \in Nat
  OBVIOUS
<1>2. at \in Bijection(1..Len(ifaces), Indexes(ifaces))
  BY <1>1 DEF Bijection, Injection, Surjection, IsInjective, OncePerIndex, Indexes
<1>3. IsFiniteSet(1..Len(ifaces)) /\ Cardinality(1..Len(ifaces)) = Len(ifaces)
  BY <1>1, FS_Interval
<1> QED
  <2>1. \E f : f \in Bijection(1..Len(ifaces), Indexes(ifaces))
    BY <1>2
  <2> QED
    BY <1>3, <2>1, FS_Bijection DEF ExistsBijection

\* Interfaces in which no difference is found are the same, and no others.
LEMMA InterfacesTold ==
  ASSUME NEW S, NEW current \in Seq(S), NEW desired \in Seq(S),
         OncePerIndex(current), OncePerIndex(desired),
         NEW plain, NEW optional
  PROVE  ~InterfacesDiffer(plain, optional, current, desired)
         <=> SameInterfaces(plain, optional, current, desired)
<1>1. /\ DOMAIN current = 1..Len(current) /\ Len(current) \in Nat
      /\ DOMAIN desired = 1..Len(desired) /\ Len(desired) \in Nat
  OBVIOUS
<1>2. /\ IsFiniteSet(Indexes(current)) /\ Cardinality(Indexes(current)) = Len(current)
      /\ IsFiniteSet(Indexes(desired)) /\ Cardinality(Indexes(desired)) = Len(desired)
  BY CountOfIndexes
<1>3. \A n \in DOMAIN current : ByIndex(current)[current[n].index] = current[n]
  BY <1>1, ByIndexAt
<1>4. \A n \in DOMAIN desired : ByIndex(desired)[desired[n].index] = desired[n]
  BY <1>1, ByIndexAt
<1>5. ASSUME ~InterfacesDiffer(plain, optional, current, desired)
      PROVE  SameInterfaces(plain, optional, current, desired)
  <2>1. /\ Len(current) = Len(desired)
        /\ \A i \in Indexes(desired) :
             /\ i \in Indexes(current)
             /\ ~InterfaceDiffers(plain, optional, ByIndex(current)[i], ByIndex(desired)[i])
    BY <1>5 DEF InterfacesDiffer
  <2>2. Indexes(desired) = Indexes(current)
    BY <1>2, <2>1, FS_Subset
  <2>3. ASSUME NEW m \in DOMAIN current, NEW n \in DOMAIN desired,
               current[m].index = desired[n].index
        PROVE  ~InterfaceDiffers(plain, optional, current[m], desired[n])
    <3>1. desired[n].index \in Indexes(desired)
      BY DEF Indexes
    <3> QED
      BY <1>3, <1>4, <2>1, <2>3, <3>1
  <2> QED
    BY <2>2, <2>3 DEF SameInterfaces
<1>6. ASSUME SameInterfaces(plain, optional, current, desired)
      PROVE  ~InterfacesDiffer(plain, optional, current, desired)
  <2>1. Len(current) = Len(desired)
    BY <1>2, <1>6 DEF SameInterfaces
  <2>2. ASSUME NEW i \in Indexes(desired)
        PROVE  /\ i \in Indexes(current)
               /\ ~InterfaceDiffers(plain, optional, ByIndex(current)[i], ByIndex(desired)[i])
    <3>1. i \in Indexes(current)
      BY <1>6 DEF SameInterfaces
    <3>2. PICK m \in DOMAIN current : current[m].index = i
      BY <3>1 DEF Indexes
    <3>3. PICK n \in DOMAIN desired : desired[n].index = i
      BY DEF Indexes
    <3>4. ~InterfaceDiffers(plain, optional, current[m], desired[n])
      BY <1>6, <3>2, <3>3 DEF SameInterfaces
    <3> QED
      BY <1>3, <1>4, <3>1, <3>2, <3>3, <3>4
  <2> QED
    BY <2>1, <2>2 DEF InterfacesDiffer
<1> QED
  BY <1>5, <1>6

\* Some place of a list is the last of those in a set.
LEMMA LastPlace ==
  ASSUME NEW len \in Nat, NEW T \in SUBSET (1..len), T # {}
  PROVE  \E k \in T : \A m \in T : m <= k
<1> DEFINE Less == OpToRel(<, Nat)
           Back == {len - k : k \in T}
<1>1. IsWellFoundedOn(Less, Nat)
  BY NatLessThanWellFounded
<1>2. Back \subseteq Nat /\ Back # {}
  <2>1. \A k \in T : len - k \in Nat /\ len - k \in Back
    OBVIOUS
  <2>2. PICK k \in T : TRUE
    OBVIOUS
  <2> QED
    BY <2>1, <2>2
<1>3. PICK x \in Back : \A y \in Back : <<y, x>> \notin Less
  <2> HIDE DEF Less, Back
  <2> QED
    BY <1>1, <1>2, WFMin
<1>4. PICK k \in T : x = len - k
  OBVIOUS
<1>5. ASSUME NEW m \in T PROVE m <= k
  <2>1. <<len - m, x>> \notin Less
    BY <1>3
  <2>2. ~(len - m < x)
    BY <2>1, <1>2, <1>4 DEF OpToRel
  <2> QED
    BY <2>2, <1>4
<1> QED
  BY <1>5

\* No comparison finds a difference between interfaces and copies of them, also
\* where an index is repeated.
LEMMA CopiesAgree ==
  ASSUME NEW S, NEW ifaces \in Seq(S), NEW copies, NEW plain, NEW optional,
         DOMAIN copies = DOMAIN ifaces,
         Len(copies) = Len(ifaces),
         \A n \in DOMAIN ifaces :
           /\ copies[n].index = ifaces[n].index
           /\ \A f \in plain \cup optional : copies[n][f] = ifaces[n][f]
  PROVE  /\ ~InterfacesDiffer(plain, optional, copies, ifaces)
         /\ ~InterfacesDiffer(plain, optional, ifaces, copies)
<1>1. Indexes(copies) = Indexes(ifaces)
  BY DEF Indexes
<1>2. ASSUME NEW i \in Indexes(ifaces)
      PROVE  /\ ~InterfaceDiffers(plain, optional, ByIndex(copies)[i], ByIndex(ifaces)[i])
             /\ ~InterfaceDiffers(plain, optional, ByIndex(ifaces)[i], ByIndex(copies)[i])
  <2> DEFINE P(k) == /\ ifaces[k].index = i
                     /\ \A m \in DOMAIN ifaces : ifaces[m].index = i => m <= k
             Q(k) == /\ copies[k].index = i
                     /\ \A m \in DOMAIN copies : copies[m].index = i => m <= k
             last == CHOOSE k \in DOMAIN ifaces : P(k)
  <2>1. PICK n \in DOMAIN ifaces : ifaces[n].index = i
    BY DEF Indexes
  <2>2. \E k \in DOMAIN ifaces : P(k)
    <3> DEFINE T == {k \in DOMAIN ifaces : ifaces[k].index = i}
    <3>1. T \subseteq 1..Len(ifaces) /\ Len(ifaces) \in Nat /\ T # {}
      BY <2>1
    <3>2. \E k \in T : \A m \in T : m <= k
      BY <3>1, LastPlace
    <3> QED
      BY <3>2
  <2>3. last \in DOMAIN ifaces /\ P(last)
    BY <2>2
  <2>4. ByIndex(ifaces)[i] = ifaces[last]
    BY DEF ByIndex
  <2>5. \A k \in DOMAIN ifaces : P(k) <=> Q(k)
    OBVIOUS
  <2>6. (CHOOSE k \in DOMAIN copies : Q(k)) = last
    <3>1. \A k \in DOMAIN ifaces : P(k) => k = last
      <4>1. DOMAIN ifaces \subseteq Nat
        OBVIOUS
      <4> QED
        BY <2>3, <4>1
    <3>2. Q(last)
      BY <2>3, <2>5
    <3>3. \A k \in DOMAIN copies : Q(k) => k = last
      BY <2>5, <3>1
    <3> QED
      BY <2>3, <3>2, <3>3
  <2>7. ByIndex(copies)[i] = copies[last]
    BY <1>1, <2>6 DEF ByIndex
  <2> QED
    BY <2>3, <2>4, <2>7 DEF InterfaceDiffers
<1> QED
  BY <1>1, <1>2 DEF InterfacesDiffer

-----------------------------------------------------------------------------
\* The interfaces of a copy.
LEMMA ASGInterfacesCopied ==
  ASSUME NEW S, NEW ifaces \in Seq(S)
  PROVE  LET copies == [n \in DOMAIN ifaces |-> ASGInterface(ifaces[n])]
         IN  /\ ~InterfacesDiffer(ASGPlain, ASGOptional, copies, ifaces)
             /\ ~InterfacesDiffer(ASGPlain, ASGOptional, ifaces, copies)
<1> DEFINE copies == [n \in DOMAIN ifaces |-> ASGInterface(ifaces[n])]
<1>1. DOMAIN copies = DOMAIN ifaces /\ Len(copies) = Len(ifaces)
  <2>1. DOMAIN ifaces = 1..Len(ifaces) /\ Len(ifaces) \in Nat
    OBVIOUS
  <2>2. copies \in Seq({ASGInterface(ifaces[n]) : n \in DOMAIN ifaces})
    BY <2>1
  <2> QED
    BY <2>1, <2>2
<1>2. \A n \in DOMAIN ifaces :
        /\ copies[n].index = ifaces[n].index
        /\ \A f \in ASGPlain \cup ASGOptional : copies[n][f] = ifaces[n][f]
  BY DEF ASGInterface, ASGPlain, ASGOptional
<1> HIDE DEF copies
<1>3. /\ ~InterfacesDiffer(ASGPlain, ASGOptional, copies, ifaces)
      /\ ~InterfacesDiffer(ASGPlain, ASGOptional, ifaces, copies)
  BY <1>1, <1>2, CopiesAgree
<1> QED
  BY <1>3 DEF copies

\* The interfaces of a copy.
LEMMA LBInterfacesCopied ==
  ASSUME NEW S, NEW ifaces \in Seq(S)
  PROVE  LET copies == [n \in DOMAIN ifaces |-> LBInterface(ifaces[n])]
         IN  /\ ~InterfacesDiffer(LBPlain, LBOptional, copies, ifaces)
             /\ ~InterfacesDiffer(LBPlain, LBOptional, ifaces, copies)
<1> DEFINE copies == [n \in DOMAIN ifaces |-> LBInterface(ifaces[n])]
<1>1. DOMAIN copies = DOMAIN ifaces /\ Len(copies) = Len(ifaces)
  <2>1. DOMAIN ifaces = 1..Len(ifaces) /\ Len(ifaces) \in Nat
    OBVIOUS
  <2>2. copies \in Seq({LBInterface(ifaces[n]) : n \in DOMAIN ifaces})
    BY <2>1
  <2> QED
    BY <2>1, <2>2
<1>2. \A n \in DOMAIN ifaces :
        /\ copies[n].index = ifaces[n].index
        /\ \A f \in LBPlain \cup LBOptional : copies[n][f] = ifaces[n][f]
  BY DEF LBInterface, LBPlain, LBOptional
<1> HIDE DEF copies
<1>3. /\ ~InterfacesDiffer(LBPlain, LBOptional, copies, ifaces)
      /\ ~InterfacesDiffer(LBPlain, LBOptional, ifaces, copies)
  BY <1>1, <1>2, CopiesAgree
<1> QED
  BY <1>3 DEF copies

\* planASGChanges and planLBChanges find no change in an auto scaling group that was created
\* from the YAML as it is, whatever the YAML says: what buildCreateASGRequest
\* sends is what compareASG looks for.
THEOREM ASGBuiltIsUpToDate ==
  ASSUME NEW S, NEW cfg, cfg.interfaces \in Seq(S)
  PROVE  ~CompareASG(BuildCreateASG(cfg), cfg)
<1> DEFINE built == BuildCreateASG(cfg)
<1>1. \A f \in ASGSettings : built[f] = cfg[f]
  BY DEF BuildCreateASG, ASGSettings
<1>2. built.interfaces =
        [n \in DOMAIN cfg.interfaces |-> ASGInterface(cfg.interfaces[n])]
  BY DEF BuildCreateASG
<1>3. ~InterfacesDiffer(ASGPlain, ASGOptional, built.interfaces, cfg.interfaces)
  BY <1>2, ASGInterfacesCopied
<1> QED
  BY <1>1, <1>3 DEF CompareASG

\* A YAML that dump printed plans no change of an auto scaling group: the dump
\* leaves out nothing that compareASG looks at.
THEOREM ASGDumpedIsUpToDate ==
  ASSUME NEW S, NEW current, current.interfaces \in Seq(S)
  PROVE  ~CompareASG(current, DumpASG(current))
<1> DEFINE dumped == DumpASG(current)
<1>1. \A f \in ASGSettings : dumped[f] = current[f]
  BY DEF DumpASG, ASGSettings
<1>2. dumped.interfaces =
        [n \in DOMAIN current.interfaces |-> ASGInterface(current.interfaces[n])]
  BY DEF DumpASG
<1>3. ~InterfacesDiffer(ASGPlain, ASGOptional, current.interfaces, dumped.interfaces)
  BY <1>2, ASGInterfacesCopied
<1> QED
  BY <1>1, <1>3 DEF CompareASG

\* An auto scaling group passes for up to date exactly when it has the settings of the
\* YAML, as long as no index is used twice: compareASG looks only for the interfaces of
\* the YAML, and with their number that is enough.
THEOREM ASGComparisonTells ==
  ASSUME NEW S, NEW current, current.interfaces \in Seq(S), OncePerIndex(current.interfaces),
         NEW desired, desired.interfaces \in Seq(S), OncePerIndex(desired.interfaces)
  PROVE  ~CompareASG(current, desired) <=> SameASG(current, desired)
<1>1. ~InterfacesDiffer(ASGPlain, ASGOptional, current.interfaces, desired.interfaces)
      <=> SameInterfaces(ASGPlain, ASGOptional, current.interfaces, desired.interfaces)
  BY InterfacesTold
<1> QED
  BY <1>1 DEF CompareASG, SameASG

\* planASGChanges and planLBChanges find no change in a load balancer that was created
\* from the YAML as it is, whatever the YAML says: what buildCreateLBRequest
\* sends is what compareLB looks for.
THEOREM LBBuiltIsUpToDate ==
  ASSUME NEW S, NEW cfg, cfg.interfaces \in Seq(S)
  PROVE  ~CompareLB(BuildCreateLB(cfg), cfg)
<1> DEFINE built == BuildCreateLB(cfg)
<1>1. \A f \in LBSettings : built[f] = cfg[f]
  BY DEF BuildCreateLB, LBSettings
<1>2. built.interfaces =
        [n \in DOMAIN cfg.interfaces |-> LBInterface(cfg.interfaces[n])]
  BY DEF BuildCreateLB
<1>3. ~InterfacesDiffer(LBPlain, LBOptional, built.interfaces, cfg.interfaces)
  BY <1>2, LBInterfacesCopied
<1> QED
  BY <1>1, <1>3 DEF CompareLB

\* A YAML that dump printed plans no change of a load balancer: the dump
\* leaves out nothing that compareLB looks at.
THEOREM LBDumpedIsUpToDate ==
  ASSUME NEW S, NEW current, current.interfaces \in Seq(S)
  PROVE  ~CompareLB(current, DumpLB(current))
<1> DEFINE dumped == DumpLB(current)
<1>1. \A f \in LBSettings : dumped[f] = current[f]
  BY DEF DumpLB, LBSettings
<1>2. dumped.interfaces =
        [n \in DOMAIN current.interfaces |-> LBInterface(current.interfaces[n])]
  BY DEF DumpLB
<1>3. ~InterfacesDiffer(LBPlain, LBOptional, current.interfaces, dumped.interfaces)
  BY <1>2, LBInterfacesCopied
<1> QED
  BY <1>1, <1>3 DEF CompareLB

\* A load balancer passes for up to date exactly when it has the settings of the
\* YAML, as long as no index is used twice: compareLB looks only for the interfaces of
\* the YAML, and with their number that is enough.
THEOREM LBComparisonTells ==
  ASSUME NEW S, NEW current, current.interfaces \in Seq(S), OncePerIndex(current.interfaces),
         NEW desired, desired.interfaces \in Seq(S), OncePerIndex(desired.interfaces)
  PROVE  ~CompareLB(current, desired) <=> SameLB(current, desired)
<1>1. ~InterfacesDiffer(LBPlain, LBOptional, current.interfaces, desired.interfaces)
      <=> SameInterfaces(LBPlain, LBOptional, current.interfaces, desired.interfaces)
  BY InterfacesTold
<1> QED
  BY <1>1 DEF CompareLB, SameLB

=============================================================================
