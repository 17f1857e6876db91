----------------------------- MODULE PlanShapes -----------------------------
(***************************************************************************)
(* Task execution plans: what TaskExecutionPlanSpec accepts, which of the  *)
(* accepted plans validate_supported_plan_shape calls linear or parallel,  *)
(* and the questions the scheduler and the artifacts ask of a stored plan. *)
(*                                                                         *)
(* A plan is [steps : Seq(step), initial : SUBSET contract] and a step is  *)
(* [key, role, kind, deps, inputs, outputs].  The last three are sets: the *)
(* schema refuses a step that names a dependency twice.                    *)
(***************************************************************************)
EXTENDS Naturals, Sequences, FiniteSets

CONSTANTS
  Roles,    \* the roles of the organization version of the task
  LeadRole  \* the one with is_lead

ASSUME RolesAssumption == LeadRole \in Roles

StepKinds == {"specialist", "lead_review"}

Indices(p) == DOMAIN p.steps
KeysOf(p) == {p.steps[i].key : i \in Indices(p)}
StepAt(p, k) == p.steps[CHOOSE i \in Indices(p) : p.steps[i].key = k]
DepsOf(p, k) == StepAt(p, k).deps
LastStep(p) == p.steps[Len(p.steps)]
SpecialistKeys(p) == {p.steps[i].key : i \in Indices(p) \ {Len(p.steps)}}
OutputsOf(p) == UNION {p.steps[i].outputs : i \in Indices(p)}

-----------------------------------------------------------------------------
(* TaskExecutionPlanSpec.                                                  *)

\* One step per key, one producer per contract.
UniqueNames(p) ==
  \A i, j \in Indices(p) : i # j =>
    /\ p.steps[i].key # p.steps[j].key
    /\ p.steps[i].outputs \cap p.steps[j].outputs = {}

KnownDependencies(p) ==
  \A i \in Indices(p) : p.steps[i].deps \subseteq KeysOf(p) \ {p.steps[i].key}

\* _assert_acyclic takes a step off its queue once its predecessors are off:
\* the steps that are off after n rounds.
TakenOff(p) ==
  LET off[n \in 0..Len(p.steps)] ==
        IF n = 0 THEN {}
        ELSE {k \in KeysOf(p) : DepsOf(p, k) \subseteq off[n - 1]}
  IN off[Len(p.steps)]

Acyclic(p) == TakenOff(p) = KeysOf(p)

\* The ancestors _assert_acyclic hands from a step to its children.
Ancestors(p) ==
  LET above[n \in 0..Len(p.steps)] ==
        [k \in KeysOf(p) |->
           IF n = 0 THEN {}
           ELSE DepsOf(p, k) \cup UNION {above[n - 1][d] : d \in DepsOf(p, k)}]
  IN above[Len(p.steps)]

\* An input is an initial input of the plan or the output of an ancestor.
InputsHaveProducers(p) ==
  \A i \in Indices(p) : \A c \in p.steps[i].inputs \ p.initial :
    \E k \in Ancestors(p)[p.steps[i].key] : c \in StepAt(p, k).outputs

WellFormed(p) ==
  /\ Len(p.steps) > 0
  /\ UniqueNames(p) /\ KnownDependencies(p)
  /\ Acyclic(p) /\ InputsHaveProducers(p)

-----------------------------------------------------------------------------
(* validate_supported_plan_shape.                                          *)

RolesFit(p) ==
  /\ \A i \in Indices(p) : p.steps[i].role \in Roles
  /\ \A i, j \in Indices(p) : i # j => p.steps[i].role # p.steps[j].role

EndsInReview(p) ==
  /\ LastStep(p).kind = "lead_review" /\ LastStep(p).role = LeadRole
  /\ LastStep(p).outputs = {}
  /\ \A i \in Indices(p) \ {Len(p.steps)} :
       p.steps[i].kind = "specialist" /\ p.steps[i].role # LeadRole

IsLinear(p) ==
  \A i \in Indices(p) :
    p.steps[i].deps = IF i = 1 THEN {} ELSE {p.steps[i - 1].key}

IsFanOut(p) ==
  /\ \A i \in Indices(p) \ {Len(p.steps)} : p.steps[i].deps = {}
  /\ LastStep(p).deps = SpecialistKeys(p)

\* What a fan-out that is not a chain must declare.
FanOutDelivers(p) ==
  /\ \A i \in Indices(p) \ {Len(p.steps)} : p.steps[i].outputs # {}
  /\ LastStep(p).inputs = OutputsOf(p)

Supported(p) ==
  /\ Len(p.steps) >= 2
  /\ RolesFit(p) /\ EndsInReview(p)
  /\ IsLinear(p) \/ (IsFanOut(p) /\ FanOutDelivers(p))

\* create_task_execution_plan stores no other plan.
AcceptedPlan(p) == WellFormed(p) /\ Supported(p)

-----------------------------------------------------------------------------
(* A stored plan.                                                          *)

\* LinearTaskScheduler.is_parallel_plan.
RunsInParallel(p) ==
  /\ Cardinality(SpecialistKeys(p)) >= 2
  /\ \A k \in SpecialistKeys(p) : DepsOf(p, k) = {}
  /\ LastStep(p).deps = SpecialistKeys(p)

\* ArtifactManager._ancestor_step_ids searches upwards from one step.
AncestorSteps(p, k) ==
  LET found[n \in 0..Len(p.steps)] ==
        IF n = 0 THEN DepsOf(p, k)
        ELSE found[n - 1] \cup UNION {DepsOf(p, d) : d \in found[n - 1]}
  IN found[Len(p.steps)]
=============================================================================
