----------------------------- MODULE MCAppSync -----------------------------
(***************************************************************************)
(* Instances of AppSync for TLC: YAML histories, and symmetry.             *)
(***************************************************************************)
EXTENDS AppSync, TLC

CONSTANTS a1, a2, v1, v2, v3, i1, i2, i3, u1, k1, s1, s2

\* Slots are interchangeable, and so are values that are not a scaling mode and
\* play the same part; only the slots are declared symmetric.
SlotSymmetry == Permutations(Slots)

Base ==
  [f \in Settings |->
    CASE f = "scalingMode" -> Manual
      [] f \in {"cpu", "memory", "fixedScale", "exposedPorts"} -> v1
      [] OTHER -> None]

ByCpu ==
  [Base EXCEPT !["scalingMode"] = CpuMode, !["fixedScale"] = None,
               !["minScale"] = v1, !["maxScale"] = v2]

Plain ==
  [inheritImage |-> FALSE, image |-> i1, settings |-> Base, user |-> None,
   password |-> None, pwVersion |-> None, env |-> NoEnv]

Secret(val, n) == [secret |-> TRUE, value |-> val, secretVersion |-> n]
Open(val) == [secret |-> FALSE, value |-> val, secretVersion |-> None]

WithPassword(c, val, n) == [c EXCEPT !.user = u1, !.password = val, !.pwVersion = n]
WithEnv(c, var) == [c EXCEPT !.env[k1] = var]
Inheriting(c) == [c EXCEPT !.inheritImage = TRUE]
WithCpu(c, val) == [c EXCEPT !.settings["cpu"] = val]

\* An application is introduced; then its password and its secret are rotated.
First == WithEnv(WithPassword(Plain, v1, 1), Secret(v1, 1))
Third == WithCpu(WithEnv(WithPassword(Plain, v2, 2), Secret(v2, 2)), v2)

\* Of two applications one gets a new secret value and leaves its image to the CI
\* from then on, the other, which scales by CPU, a new password: nothing of it shows in
\* what the API returns.
Rotation ==
  LET scaled == [Plain EXCEPT !.settings = ByCpu]
  IN  << a1 :> WithEnv(Plain, Secret(v1, 1)) @@ a2 :> WithPassword(scaled, v1, 1),
         a1 :> Inheriting(WithEnv([Plain EXCEPT !.image = i3], Secret(v2, 2)))
           @@ a2 :> WithPassword(scaled, v2, 2) >>

\* One application whose command the second YAML leaves to the base.
LongRotation ==
  << a1 :> [First EXCEPT !.settings["cmd"] = v1],
     a1 :> Inheriting([Third EXCEPT !.image = i3]) >>

\* Only the mode of scaling changes: fixedScale is left out.
ToCpu == << a1 :> Plain, a1 :> [Plain EXCEPT !.settings = ByCpu] >>

\* The histories are written as NumbersMoveOn asks: what the theorem about planned noops
\* assumes, every instance satisfies.
ASSUME HistoryMovesOn == NumbersMoveOn

\* So does the history on which applies are to converge leave nothing out.
ASSUME RotationKeepsAll == History = Rotation => NothingOmitted
=============================================================================
