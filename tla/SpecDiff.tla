------------------------------ MODULE SpecDiff ------------------------------
(***************************************************************************)
(* What the diff command reports of two versions of an application: both   *)
(* are normalized, compared field by field, and their environment          *)
(* variables are compared apart (NormalizeFromAPI, CompareSpecs,           *)
(* compareVersionEnv).  AppSpec has the comparison of a plan, which takes  *)
(* cmd and exposedPorts as one value each; here they are the lists that    *)
(* the normal form is about.                                               *)
(***************************************************************************)
EXTENDS Naturals, Sequences, SequencesExt

CONSTANTS
  Keys,   \* names of environment variables
  None    \* null, the empty string

\* The fields that are compared as they are: numbers, the image, the registry user.
Plain == {"scale", "image", "user"}

\* A version as GetApplicationVersion returns it (ReadApplicationVersionDetail):
\*   cmd    a list of words; a word is the list of what its spaces separate, which
\*          is never empty: that of the empty word is <<None>>,
\*   ports  a list of [target, lb, hosts], target being different in each, as the
\*          service demands (oas_schemas_gen.go:2790), hosts a list of names
\*          without a comma, and lb all else of a port, which is compared as it is
\*          (useLetsEncrypt and the health check with the port of the LB),
\*   env    for each key None or [secret, value]; the value of a secret is None
\*          (oas_schemas_gen.go:3325).
IsList(s) == s \in Seq(ToSet(s))

IsVersion(v) ==
  /\ IsList(v.cmd) /\ \A i \in DOMAIN v.cmd : IsList(v.cmd[i]) /\ v.cmd[i] # <<>>
  /\ IsList(v.ports)
  /\ \A i, j \in DOMAIN v.ports :
       /\ IsList(v.ports[i].hosts)
       /\ v.ports[i].target = v.ports[j].target => i = j
  /\ v.env = [k \in Keys |-> v.env[k]]
  /\ \A k \in Keys : v.env[k] # None =>
       /\ v.env[k] = [secret |-> v.env[k].secret, value |-> v.env[k].value]
       /\ v.env[k].secret \in BOOLEAN
       /\ v.env[k].secret => v.env[k].value = None

(***************************************************************************)
(* The normal form: the words of cmd joined by a space, ports in the order *)
(* of their target with their hosts sorted and joined by a comma.  A       *)
(* joined list is the list of what was joined; nothing joined is the same  *)
(* text as one empty string.  What is only compared after it was sorted is *)
(* a bag, and the ports, which the diff library pairs by target, are a     *)
(* function of it.                                                         *)
(***************************************************************************)
JoinedList(s) == IF s = <<>> THEN <<None>> ELSE s

NormalPorts(ports) ==
  [t \in {p.target : p \in ToSet(ports)} |->
    LET p == CHOOSE q \in ToSet(ports) : q.target = t
    IN  [lb |-> p.lb, hosts |-> ToBag(JoinedList(p.hosts))]]

\* Mutated form of NormalizeFromAPI: the hosts of a port stay in their order.
NormalizeInOrder(v) ==
  [cmd |-> JoinedList(FlattenSeq(v.cmd)), ports |-> ToSet(v.ports)]

NormalizeFromAPI(v) ==
  [cmd |-> JoinedList(FlattenSeq(v.cmd)), ports |-> NormalPorts(v.ports)]

CompareSpecs(from, to) ==
  LET a == NormalizeFromAPI(from)
      b == NormalizeFromAPI(to)
  IN  {f \in Plain : from[f] # to[f]} \cup {f \in DOMAIN a : a[f] # b[f]}

\* Secret variables that both versions have are not compared.
CompareVersionEnv(from, to) ==
  {k \in Keys :
    \/ (from[k] = None) # (to[k] = None)
    \/ /\ from[k] # None /\ to[k] # None
       /\ ~from[k].secret /\ ~to[k].secret /\ from[k].value # to[k].value}

HasSecretEnv(from, to) ==
  \E k \in Keys : \E env \in {from.env, to.env} : env[k] # None /\ env[k].secret

HasRegistryPwd(from, to) == from.user # None \/ to.user # None

\* The report of GetVersionDiff, and whether a note says that it may be incomplete.
Changes(from, to) == CompareSpecs(from, to) \cup CompareVersionEnv(from.env, to.env)

Noted(from, to) == HasSecretEnv(from, to) \/ HasRegistryPwd(from, to)

-----------------------------------------------------------------------------
\* The same version as far as the API shows it: lists whose order means nothing
\* may be permuted.
SameUpToOrder(s, t) ==
  \E perm \in Bijection(DOMAIN s, DOMAIN t) : \A i \in DOMAIN s : s[i] = t[perm[i]]

SamePorts(ps, qs) ==
  \E perm \in Bijection(DOMAIN ps, DOMAIN qs) : \A i \in DOMAIN ps :
    LET p == ps[i]
        q == qs[perm[i]]
    IN  p.target = q.target /\ p.lb = q.lb /\ SameUpToOrder(p.hosts, q.hosts)

Same(from, to) ==
  /\ \A f \in Plain \cup {"cmd", "env"} : from[f] = to[f]
  /\ SamePorts(from.ports, to.ports)

\* Joining loses nothing of a version whose words are without a space, and neither
\* words nor hosts empty.
Separable(v) ==
  /\ \A i \in DOMAIN v.cmd : Len(v.cmd[i]) = 1 /\ v.cmd[i] # <<None>>
  /\ \A i \in DOMAIN v.ports : None \notin ToSet(v.ports[i].hosts)
=============================================================================
