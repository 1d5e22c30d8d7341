--------------------------- MODULE MCProvisioner ---------------------------
(***************************************************************************)
(* An instance of Provisioner for TLC: YAML files with an application, an  *)
(* ASG and an LB.                                                          *)
(***************************************************************************)
EXTENDS Provisioner, TLC

CONSTANTS a1, v1, v2, i1, i2, u1, k1, s1, g, x, small, large, wrong

Base ==
  [cpu |-> v1, memory |-> v1, scalingMode |-> Manual, fixedScale |-> v1, minScale |-> None,
   maxScale |-> None, scaleInThreshold |-> None, scaleOutThreshold |-> None, cmd |-> None,
   exposedPorts |-> v1]

Web(inherits, secret, n) ==
  [inheritImage |-> inherits, image |-> i1, settings |-> Base, user |-> None, password |-> None,
   pwVersion |-> None, env |-> [k \in Keys |-> [secret |-> TRUE, value |-> secret, secretVersion |-> n]]]

\* The secret is rotated while the ASG under the LB changes; then the image, which the
\* CI may have replaced, is the YAML's again, and the LB gets settings that the
\* service refuses, until they are corrected.
Rotation ==
  << a1 :> Web(TRUE, v1, 1), a1 :> Web(TRUE, v2, 2), a1 :> Web(FALSE, v2, 2), a1 :> Web(FALSE, v2, 2) >>

Rebuilt ==
  << g :> small @@ x :> small, g :> large @@ x :> small,
     g :> large @@ x :> wrong, g :> large @@ x :> large >>

OneLB == x :> g

\* What the theorem about NoChangesIsDone demands of the YAML files.
ASSUME HistoryMovesOn == App!NumbersMoveOn
=============================================================================
