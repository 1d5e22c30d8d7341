--------------------------- MODULE ReleasesProofs ---------------------------
(***************************************************************************)
(* What follows from the promise of Releases, for every history of the     *)
(* YAML file.                                                              *)
(***************************************************************************)
EXTENDS Releases, SequenceTheorems, TLAPS

Typed ==
  /\ yaml \in Nat
  /\ versions \in [Apps -> Seq(Version)]
  /\ exists \subseteq Apps
  /\ active \in [Apps -> Nat]

Inv == Typed /\ ActiveIsThere /\ Sourced

\* A version of a that YAML files of a, the CI and versions before account for.
SourcedVersion(a, v) ==
  /\ \A f \in Settings :
       v.settings[f] # None => \E c \in Specs(a) : c.settings[f] = v.settings[f]
  /\ v.image # None => v.image \in DeployImages \/ \E c \in Specs(a) : c.image = v.image

LEMMA InitInv == Init => Inv
<1> SUFFICES ASSUME Init PROVE Inv
  OBVIOUS
<1>1. <<>> \in Seq(Version) /\ Len(<<>>) = 0
  BY EmptySeq
<1>2. Typed
  BY <1>1 DEF Init, Typed
<1>3. ActiveIsThere
  BY DEF Init, ActiveIsThere
<1>4. Sourced
  BY <1>1 DEF Init, Sourced
<1> QED
  BY <1>2, <1>3, <1>4 DEF Inv

\* A version is added, and every version there was stays under its number.
LEMMA GetsFacts ==
  ASSUME Typed, NEW a \in Apps, NEW v \in Version, Gets(a, v)
  PROVE  /\ versions' \in [Apps -> Seq(Version)]
         /\ Len(versions[a]) \in Nat /\ Len(versions'[a]) = Len(versions[a]) + 1
         /\ versions'[a][Len(versions'[a])] = v
         /\ \A j \in 1..Len(versions[a]) : versions'[a][j] = versions[a][j]
         /\ \A b \in Apps \ {a} : versions'[b] = versions[b]
<1>1. versions[a] \in Seq(Version) /\ versions'[a] = Append(versions[a], v)
  BY DEF Typed, Gets
<1>2. /\ Append(versions[a], v) \in Seq(Version) /\ Len(versions[a]) \in Nat
      /\ Len(Append(versions[a], v)) = Len(versions[a]) + 1
      /\ \A j \in 1..Len(versions[a]) : Append(versions[a], v)[j] = versions[a][j]
      /\ Append(versions[a], v)[Len(versions[a]) + 1] = v
  BY <1>1, AppendProperties, LenProperties
<1> QED
  BY <1>1, <1>2 DEF Typed, Gets

LEMMA GetsInv ==
  ASSUME Inv, NEW a \in exists, NEW v \in Version, Gets(a, v), SourcedVersion(a, v),
         UNCHANGED <<yaml, exists, active>>
  PROVE  Inv'
<1>0. a \in Apps
  BY DEF Inv, Typed
<1>1. /\ versions' \in [Apps -> Seq(Version)]
      /\ Len(versions[a]) \in Nat /\ Len(versions'[a]) = Len(versions[a]) + 1
      /\ versions'[a][Len(versions'[a])] = v
      /\ \A j \in 1..Len(versions[a]) : versions'[a][j] = versions[a][j]
      /\ \A b \in Apps \ {a} : versions'[b] = versions[b]
  BY <1>0, GetsFacts DEF Inv
<1>2. Typed'
  BY <1>1 DEF Inv, Typed
<1>3. ActiveIsThere'
  <2>1. \A b \in Apps : 1..Len(versions[b]) \subseteq 1..Len(versions'[b])
    BY <1>1
  <2> QED
    BY <2>1 DEF Inv, ActiveIsThere
<1>4. ASSUME NEW b \in Apps, NEW j \in 1..Len(versions'[b])
      PROVE  SourcedVersion(b, versions'[b][j])
  <2>1. CASE b = a /\ j = Len(versions'[a])
    BY <1>1, <2>1
  <2>2. CASE ~(b = a /\ j = Len(versions'[a]))
    <3>1. j \in 1..Len(versions[b]) /\ versions'[b][j] = versions[b][j]
      BY <1>1, <2>2
    <3> QED
      BY <3>1 DEF Inv, Sourced, SourcedVersion
  <2> QED
    BY <2>1, <2>2
<1>5. Sourced'
  BY <1>4 DEF Sourced, SourcedVersion, Specs
<1> QED
  BY <1>2, <1>3, <1>5 DEF Inv

\* What is inherited from a version of a was accounted for before.
LEMMA ReleaseSourced ==
  ASSUME Inv, NEW a \in Apps, NEW v \in Version, NEW c \in Specs(a), InSync(v, c),
         NEW b \in Bases(a), Inherits(v, c, b)
  PROVE  SourcedVersion(a, v)
<1>1. SourcedVersion(a, b)
  <2>1. CASE b = NilVersion
    BY <2>1 DEF NilVersion, SourcedVersion
  <2>2. CASE b # NilVersion
    <3>1. PICK j \in 1..Len(versions[a]) : b = Read(versions[a][j])
      BY <2>2 DEF Bases
    <3>2. versions[a][j] \in Version
      BY ElementOfSeq DEF Inv, Typed
    <3>3. b.settings = versions[a][j].settings /\ b.image = versions[a][j].image
      BY <3>1, <3>2 DEF Read, Version
    <3> QED
      BY <3>3 DEF Inv, Sourced, SourcedVersion
  <2> QED
    BY <2>1, <2>2
<1>2. ASSUME NEW f \in Settings, v.settings[f] # None
      PROVE  \E d \in Specs(a) : d.settings[f] = v.settings[f]
  BY <1>1, <1>2 DEF InSync, Inherits, SourcedVersion
<1>3. v.image # None => v.image \in DeployImages \/ \E d \in Specs(a) : d.image = v.image
  BY <1>1 DEF Inherits, SourcedVersion
<1> QED
  BY <1>2, <1>3 DEF SourcedVersion

LEMMA NextInv == Inv /\ [Next]_<<yaml, versions, exists, active>> => Inv'
<1> SUFFICES ASSUME Inv, [Next]_<<yaml, versions, exists, active>> PROVE Inv'
  OBVIOUS
<1>1. CASE UNCHANGED <<yaml, versions, exists, active>>
  BY <1>1 DEF Inv, Typed, ActiveIsThere, Sourced, Specs
<1>2. CASE Edit
  <2>1. \A a \in Apps : Specs(a) \subseteq Specs(a)'
    BY <1>2 DEF Edit, Inv, Typed, Specs
  <2> QED
    BY <1>2, <2>1 DEF Edit, Inv, Typed, ActiveIsThere, Sourced
<1>3. ASSUME NEW a \in Apps, Create(a) PROVE Inv'
  BY <1>3 DEF Create, Inv, Typed, ActiveIsThere, Sourced, Specs
<1>4. ASSUME NEW a \in Apps, Release(a) PROVE Inv'
  <2>1. PICK v : v \in Version /\ Gets(a, v) /\ a \in exists /\ UNCHANGED <<yaml, exists, active>>
                 /\ \E c \in Specs(a) : InSync(v, c) /\ \E b \in Bases(a) : Inherits(v, c, b)
    BY <1>4 DEF Release
  <2> QED
    BY <2>1, ReleaseSourced, GetsInv
<1>5. ASSUME NEW a \in Apps, Remove(a) PROVE Inv'
  <2>1. /\ versions'[a] = <<>> /\ \A b \in Apps \ {a} : versions'[b] = versions[b]
        /\ versions' \in [Apps -> Seq(Version)] /\ Len(<<>>) = 0
    BY <1>5, EmptySeq DEF Remove, Inv, Typed
  <2>2. ActiveIsThere'
    BY <1>5, <2>1 DEF Remove, Inv, Typed, ActiveIsThere
  <2>3. Sourced'
    BY <1>5, <2>1 DEF Remove, Inv, Sourced, Specs
  <2> QED
    BY <1>5, <2>1, <2>2, <2>3 DEF Remove, Inv, Typed
<1>6. ASSUME NEW a \in Apps, NEW img \in DeployImages, Deploy(a, img) PROVE Inv'
  <2> DEFINE n == Len(versions[a])
             v == [versions[a][n] EXCEPT !.image = img]
  <2>1. n \in 1..n /\ versions[a] \in Seq(Version)
    BY <1>6, EmptySeq DEF Deploy, Inv, Typed
  <2>2. versions[a][n] \in Version
    BY <2>1, ElementOfSeq
  <2>3. v \in Version /\ v.settings = versions[a][n].settings /\ v.image = img
    BY <1>6, <2>2 DEF Deploy, Version, Opt
  <2>4. SourcedVersion(a, versions[a][n])
    BY <2>1 DEF Inv, Sourced, SourcedVersion
  <2>5. SourcedVersion(a, v)
    BY <2>3, <2>4 DEF SourcedVersion
  <2>6. Gets(a, v) /\ a \in exists /\ UNCHANGED <<yaml, exists, active>>
    BY <1>6 DEF Deploy
  <2> QED
    BY <2>3, <2>5, <2>6, GetsInv
<1>7. ASSUME NEW a \in Apps, NEW n \in 1..Len(versions[a]), Activate(a, n) PROVE Inv'
  <2>1. Len(versions[a]) \in Nat
    BY LenProperties DEF Inv, Typed
  <2> QED
    BY <1>7, <2>1 DEF Activate, Inv, Typed, ActiveIsThere, Sourced, Specs
<1> QED
  BY <1>1, <1>2, <1>3, <1>4, <1>5, <1>6, <1>7 DEF Next

\* A program that keeps the promise never has an active version that is not there,
\* nor a setting or an image that no YAML of the application and no deployment of
\* the CI accounts for, however often versions inherit from one another.
THEOREM ReleasesSourced == Spec => [](ActiveIsThere /\ Sourced)
<1>1. Spec => []Inv
  BY InitInv, NextInv, PTL DEF Spec
<1>2. Inv => ActiveIsThere /\ Sourced
  BY DEF Inv
<1> QED
  BY <1>1, <1>2, PTL
=============================================================================
