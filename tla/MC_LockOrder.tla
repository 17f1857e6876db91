---------------------------- MODULE MC_LockOrder ----------------------------
(***************************************************************************)
(* Small instances of LockOrder for TLC.                                   *)
(***************************************************************************)
EXTENDS LockOrder, TLC

\* What may run together: calls and completions; calls, an Action that
\* plans, and the other ends of a Turn.
SafeMixes == {{"run", "retry", "decide", "completed"},
              {"run", "retry", "plan", "cancel", "decide", "failed", "interrupted",
               "action plan"}}

SupervisorMix == {{"completed", "failed"}}

ThreadSymmetry == Permutations(Thread)
=============================================================================
