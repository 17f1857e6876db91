---- MODULE MC_Assistant ----
(* Instances of Assistant for TLC. *)
EXTENDS Assistant, TLC
====
