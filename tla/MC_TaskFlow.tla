---------------------------- MODULE MC_TaskFlow ----------------------------
(* A small instance of TaskFlow: one task with two specialists.            *)
EXTENDS TaskFlow, TLC

CONSTANTS t1, a1, b1, l1

OneTask == {t1}
OneExecutions == {a1, b1, l1}
OneSpecialists == t1 :> <<a1, b1>>
OneLead == t1 :> l1
=============================================================================
