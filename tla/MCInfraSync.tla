---------------------------- MODULE MCInfraSync ----------------------------
(***************************************************************************)
(* Instances of InfraSync for TLC: clusters and YAML histories.            *)
(***************************************************************************)
EXTENDS InfraSync, TLC

CONSTANTS g, h, x, y, u, v, w, s1, s2

SlotSymmetry == Permutations(Slots)

\* Two LBs of one ASG, and one each of two.
OneParent == [l \in LBs |-> g]
TwoParents == x :> g @@ y :> h

OneLB == x :> g

\* The ASG changes and changes back, while its LB changes for good.
FlipOne == << g :> u @@ x :> u, g :> v @@ x :> u, g :> u @@ x :> v >>

\* An ASG changes and changes back while its LB changes for good.  The second LB
\* comes before its ASG, which the service first refuses and which changes later.
Growth ==
  << g :> u @@ x :> u,
     g :> v @@ x :> u @@ y :> u,
     g :> u @@ x :> v @@ y :> u @@ h :> w,
     g :> u @@ x :> v @@ y :> u @@ h :> u,
     g :> u @@ x :> v @@ y :> u @@ h :> v >>

\* y is taken out of the YAML, then its ASG changes.
DropLB == << g :> u @@ x :> u @@ y :> u, g :> v @@ x :> u >>
=============================================================================
