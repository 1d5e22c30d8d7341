----------------------------- MODULE MCInspect -----------------------------
(***************************************************************************)
(* Instances of Inspect for TLC: a small cluster, and versions that differ *)
(* in one thing each.                                                      *)
(***************************************************************************)
EXTENDS Inspect

CONSTANTS web, batch, k1, k2, v1, v2

Var(secret, val) == [secret |-> secret, value |-> val]

Base ==
  [scale |-> 1, image |-> v1, user |-> None, cmd |-> << <<"sh">>, <<"-c">>, <<"run">> >>,
   ports |-> << [target |-> 80, lb |-> 443, hosts |-> <<v1, v2>>],
                [target |-> 81, lb |-> None, hosts |-> <<>>] >>,
   env   |-> [k \in Keys |-> IF k = k1 THEN Var(FALSE, v1) ELSE None]]

\* The same in another order.
Reordered ==
  [Base EXCEPT !.ports = << Base.ports[2], [Base.ports[1] EXCEPT !.hosts = <<v2, v1>>] >>]

OtherHost == [Base EXCEPT !.ports[1].hosts = <<v1>>]
OtherVar == [Base EXCEPT !.env = [k \in Keys |-> IF k = k2 THEN Var(FALSE, v1) ELSE None]]
SecretVar == [Base EXCEPT !.env[k1] = Var(TRUE, None)]

\* The last two arguments of the command become one.
Rejoined == [Base EXCEPT !.cmd = << <<"sh">>, <<"-c", "run">> >>]

Variants == {Reordered, OtherHost, OtherVar, Rejoined}

App(name, active, versions) ==
  [name |-> name, active |-> active, versions |-> versions, last |-> Len(versions)]

TwoApps == 1 :> App(web, 1, <<Base, OtherVar>>) @@ 2 :> App(batch, 0, <<SecretVar>>)

\* A group with two LBs, and one without.
TwoASGs == 3 :> {4, 5} @@ 6 :> {}
=============================================================================
