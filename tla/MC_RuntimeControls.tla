------------------------ MODULE MC_RuntimeControls ------------------------
(***************************************************************************)
(* Small instances of RuntimeControls for TLC.                             *)
(***************************************************************************)
EXTENDS RuntimeControls, TLC

ExecutionSymmetry == Permutations(Execution)
=============================================================================
