------------------------------ MODULE Releases ------------------------------
(***************************************************************************)
(* What apply, activate and the CI action promise about the applications   *)
(* of a cluster, whoever runs them, however often and with however many    *)
(* failures: every version that is posted has all that a YAML file there   *)
(* has been spells out, inherits the rest from one version of the same     *)
(* application or from none, and what is activated is there.  No commands, *)
(* plans, listings, IDs or state file are seen here.                       *)
(***************************************************************************)
EXTENDS AppSpec, Sequences

CONSTANTS
  Apps,         \* names of applications
  History,      \* the contents the YAML file takes, in order
  DeployImages  \* images the CI action may deploy

VARIABLES
  yaml,      \* index in History of the YAML file as it is now
  versions,  \* versions[a]: the versions of the application named a
  exists,    \* names that have an application
  active     \* active[a]: number of the active version, 0 when there is none

Init ==
  /\ yaml = 1
  /\ versions = [a \in Apps |-> <<>>]
  /\ exists = {}
  /\ active = [a \in Apps |-> 0]

\* The specs for a in the YAML files there have been.
Specs(a) == {History[i][a] : i \in {j \in 1..yaml : a \in DOMAIN History[j]}}

\* What a read of a may have returned since it was created.
Bases(a) == {NilVersion} \cup {Read(versions[a][j]) : j \in 1..Len(versions[a])}

\* Version v has from b what c leaves out.
Inherits(v, c, b) ==
  /\ \A f \in Settings : c.settings[f] = None => v.settings[f] = b.settings[f]
  /\ c.user = None => v.user = b.user
  /\ v.image \in {c.image, b.image}
  /\ c.inheritImage /\ b # NilVersion => v.image = b.image
  /\ Names(c.env) = {} =>
       /\ Names(v.env) = Names(b.env)
       /\ \A k \in Names(b.env) : b.env[k].secret \/ v.env[k] = b.env[k]

Edit ==
  /\ yaml < Len(History)
  /\ yaml' = yaml + 1
  /\ UNCHANGED <<versions, exists, active>>

Create(a) ==
  /\ a \notin exists /\ Specs(a) # {}
  /\ exists' = exists \cup {a}
  /\ UNCHANGED <<yaml, versions, active>>

\* The versions of a become those there were, and v.
Gets(a, v) == versions' = [versions EXCEPT ![a] = Append(@, v)]

Release(a) ==
  LET v == versions'[a][Len(versions'[a])] IN
  /\ a \in exists
  /\ Len(versions'[a]) = Len(versions[a]) + 1
  /\ v \in Version /\ Gets(a, v)
  /\ \E c \in Specs(a) : InSync(v, c) /\ \E b \in Bases(a) : Inherits(v, c, b)
  /\ UNCHANGED <<yaml, exists, active>>

Deploy(a, img) ==
  /\ img \in Images
  /\ a \in exists /\ versions[a] # <<>>
  /\ Gets(a, [versions[a][Len(versions[a])] EXCEPT !.image = img])
  /\ UNCHANGED <<yaml, exists, active>>

Activate(a, n) ==
  /\ a \in exists
  /\ active' = [active EXCEPT ![a] = n]
  /\ UNCHANGED <<yaml, versions, exists>>

Remove(a) ==
  /\ a \in exists /\ active[a] = 0
  /\ exists' = exists \ {a}
  /\ versions' = [versions EXCEPT ![a] = <<>>]
  /\ UNCHANGED <<yaml, active>>

Next ==
  \/ Edit
  \/ \E a \in Apps :
       \/ Create(a) \/ Release(a) \/ Remove(a)
       \/ \E img \in DeployImages : Deploy(a, img)
       \/ \E n \in 1..Len(versions[a]) : Activate(a, n)

Spec == Init /\ [][Next]_<<yaml, versions, exists, active>>

-----------------------------------------------------------------------------
\* What follows for the applications, of any program that keeps the promise.

\* The active version is one the application has: its number is not that of a
\* version of an earlier application of the same name.
ActiveIsThere == \A a \in Apps : active[a] # 0 => a \in exists /\ active[a] \in 1..Len(versions[a])

\* Every setting of every version was spelled out for this very application by a
\* YAML file there has been, however often it was inherited since, and its image by
\* a YAML file or by the CI.
Sourced ==
  \A a \in Apps : \A j \in 1..Len(versions[a]) :
    LET v == versions[a][j] IN
    /\ \A f \in Settings :
         v.settings[f] # None => \E c \in Specs(a) : c.settings[f] = v.settings[f]
    /\ v.image # None => v.image \in DeployImages \/ \E c \in Specs(a) : c.image = v.image
=============================================================================
