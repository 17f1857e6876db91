---------------------------- MODULE MC_PlanFlow ----------------------------
(***************************************************************************)
(* Small instances of PlanFlow: plans of two specialists and a review.     *)
(***************************************************************************)
EXTENDS PlanFlow

CONSTANTS a, b, r,            \* step keys
          brief, note, report \* contracts

RoleOf(k) == <<"role", k>>
MCRoles == {RoleOf(k) : k \in {a, b, r}}
MCLead == RoleOf(r)

Specialist(k, deps, ins, outs) ==
  [key |-> k, role |-> RoleOf(k), kind |-> "specialist", deps |-> deps,
   inputs |-> ins, outputs |-> outs]

LeadReview(deps, ins) ==
  [key |-> r, role |-> RoleOf(r), kind |-> "lead_review", deps |-> deps,
   inputs |-> ins, outputs |-> {}]

Chain ==
  [steps |-> << Specialist(a, {}, {brief}, {note}), Specialist(b, {a}, {note}, {report}),
                LeadReview({b}, {report}) >>,
   initial |-> {brief}]

FanOut ==
  [steps |-> << Specialist(a, {}, {brief}, {note}), Specialist(b, {}, {brief}, {report}),
                LeadReview({a, b}, {note, report}) >>,
   initial |-> {brief}]

\* Not supported: a fan-out whose review reads one branch.
Mixed ==
  [steps |-> << Specialist(a, {}, {brief}, {note}), Specialist(b, {}, {brief}, {report}),
                LeadReview({b}, {report}) >>,
   initial |-> {brief}]

\* Not well formed: b reads what nobody before it writes.
Unproduced ==
  [steps |-> << Specialist(a, {}, {brief}, {note}), Specialist(b, {a}, {report}, {report}),
                LeadReview({b}, {report}) >>,
   initial |-> {brief}]

TwoShapes == {Chain, FanOut}
AllShapes == {Chain, FanOut, Mixed, Unproduced}
=============================================================================
