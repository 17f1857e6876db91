----------------------------- MODULE PlanOrder -----------------------------
(***************************************************************************)
(* What the planned scheduler promises about one task: a step begins once  *)
(* the steps it depends on delivered, it delivers once and for all, and    *)
(* the task is accepted when every step of its plan delivered.             *)
(***************************************************************************)
CONSTANT Keys

VARIABLES
  deps,     \* the steps each step of the plan depends on; none before a plan
  begun,    \* the steps that were handed to a role
  done,     \* the steps that delivered
  accepted  \* the lead accepted the work

orderVars == <<deps, begun, done, accepted>>

Planned == DOMAIN deps

OrderInit ==
  /\ DOMAIN deps = {} /\ begun = {} /\ done = {} /\ accepted = FALSE

Adopt ==
  /\ Planned = {} /\ Planned' # {} /\ Planned' \subseteq Keys
  /\ \A k \in Planned' : deps'[k] \subseteq Planned' \ {k}
  /\ UNCHANGED <<begun, done, accepted>>

\* Several roots of a fan-out may be handed out together.
Begin ==
  /\ begun \subseteq begun' /\ begun # begun' /\ begun' \subseteq Planned
  /\ \A k \in begun' \ begun : deps[k] \subseteq done
  /\ UNCHANGED <<deps, done, accepted>>

Deliver ==
  /\ \E k \in begun \ done : done' = done \cup {k}
  /\ UNCHANGED <<deps, begun, accepted>>

Accept ==
  /\ Planned # {} /\ done = Planned /\ accepted' = TRUE
  /\ UNCHANGED <<deps, begun, done>>

OrderNext == Adopt \/ Begin \/ Deliver \/ Accept

OrderSpec == OrderInit /\ [][OrderNext]_orderVars
=============================================================================
