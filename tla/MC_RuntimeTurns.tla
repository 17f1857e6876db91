---- MODULE MC_RuntimeTurns ----
(* Instances of RuntimeTurns for TLC. *)
EXTENDS RuntimeTurns, TLC

CONSTANTS e1, e2

BothKinds == {TRUE, FALSE}
====
