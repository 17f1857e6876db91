----------------------------- MODULE MC_Restart -----------------------------
(* Two tasks with one specialist each, over restarts of the process.       *)
EXTENDS Restart, TLC

CONSTANTS t1, t2, a1, a2, l1, l2

TwoTasks == {t1, t2}
TwoExecutions == {a1, l1, a2, l2}
TwoSpecialists == t1 :> <<a1>> @@ t2 :> <<a2>>
TwoLead == t1 :> l1 @@ t2 :> l2
=============================================================================
