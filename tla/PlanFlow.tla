------------------------------ MODULE PlanFlow ------------------------------
(***************************************************************************)
(* The life of one planned task: the planning round of its lead, the plan  *)
(* it adopts, the linear or parallel graph that runs the plan, the         *)
(* artifacts handed from step to step, retry, cancellation and a restart   *)
(* of the backend.                                                         *)
(*                                                                         *)
(* The product tables, the checkpoints of the two graphs and the threads   *)
(* are separate pieces of state.  What a handler commits is one step; a    *)
(* handler that commits twice, or commits what it derived from an earlier  *)
(* read, takes several.  A session writes only the columns that differ     *)
(* from what it loaded.  A slot is always free and the supervisor's lock   *)
(* is not here: TaskFlow and LockOrder are about those.                    *)
(***************************************************************************)
EXTENDS PlanShapes

CONSTANTS
  Keys,         \* the step keys a plan may use
  Planner,      \* the execution of lead.plan
  Contract,     \* artifact contracts
  None,
  Offers,       \* what the lead may answer to lead.plan, as plans
  Submissions,  \* what a submission may do
  Reports,      \* how a Turn may end
  Deliveries,   \* what a specialist may deliver
  Verdicts,     \* what the lead may answer to its review
  Cancellable,  \* whether a user may cancel
  Overlapping,  \* whether a client may call while a Turn or a thread is busy
  MaxCalls,     \* bound on plan, start and retry calls
  MaxInputs,    \* bound on published task inputs
  MaxCrashes    \* bound on crashes of the backend

Execution == Keys \cup {Planner}

ASSUME PlanFlowAssumption ==
  /\ Planner \notin Keys /\ None \notin Execution \cup {"accepted", "needs_revision"}
  /\ None \notin {"api", "worker"} \X (Execution \cup {None})
  /\ Offers \subseteq
       [steps : Seq([key : Keys, role : Roles \cup {None}, kind : StepKinds,
                     deps : SUBSET Keys, inputs : SUBSET Contract,
                     outputs : SUBSET Contract]),
        initial : SUBSET Contract]
  /\ Submissions \subseteq {"waiting", "completed", "failed", "rejected"}
  /\ Reports \subseteq {"completed", "failed"}
  /\ Deliveries \subseteq {"valid", "badfile", "blocked", "invalid"}
  /\ Verdicts \subseteq {"accepted", "needs_revision", "invalid"}
  /\ Cancellable \in BOOLEAN /\ Overlapping \in BOOLEAN
  /\ MaxCalls \in Nat /\ MaxInputs \in Nat /\ MaxCrashes \in Nat

VARIABLES
  taskStatus,  \* Task.status
  plan,        \* the stored plan
  planStatus,  \* TaskExecutionPlan.status
  step,        \* PlanStep.status
  exec,        \* RuntimeExecution.status
  refused,     \* executions whose assignment alone is failed: bad deliveries
  attempt,     \* Turns submitted for each execution
  offered,     \* the plan lead.plan answered last
  answer,      \* RuntimeExecution.result_summary, and the Turn it came from
  store,       \* the artifacts of each contract, the last one released
  bound,       \* ArtifactInputBinding: the version of each input, 0 for none
  checkpoint,  \* the latest checkpoint of each graph
  call,        \* the invocation each thread is in
  seen,        \* what a thread's session loaded
  pc,          \* where each thread is
  held,        \* holder of _execution_lock over several steps
  graphLock,   \* holder of _graph_resume_lock
  watched,     \* executions whose Turn has a supervisor worker
  up,          \* the backend finished its startup
  calls, inputs, crashes

tables == <<taskStatus, plan, planStatus, step, exec, refused, attempt,
            offered, answer, store, bound>>
threads == <<call, seen, pc, held, graphLock>>
bounds == <<calls, inputs, crashes>>
vars == <<tables, checkpoint, threads, watched, up, bounds>>

Api == <<"api", None>>        \* plan, start or retry on behalf of the client
Worker(e) == <<"worker", e>>  \* the supervisor's thread for a Turn
Thread == {Api} \cup {Worker(e) : e \in Execution}

Terminal == {"completed", "needs_revision", "failed", "cancelled"}
TaskStatus == {"created", "planning", "running", "waiting"} \cup Terminal
PlanStatus == {"none", "validated", "active"} \cup Terminal
StepEnds == {"completed", "blocked", "failed", "cancelled"}
StepStatus == {"absent", "pending_dependency", "ready", "submitted", "waiting",
               "validating_output"} \cup StepEnds
ExecStatus == {"absent", "submitted", "waiting", "completed", "failed", "cancelled"}

NoPlan == [steps |-> <<>>, initial |-> {}]
NoAnswer == [turn |-> 0, says |-> "nothing"]

Parallel == RunsInParallel(plan)
Review == LastStep(plan).key
InputsOf(k) == StepAt(plan, k).inputs
Graph == IF plan = NoPlan THEN "planning" ELSE "run"

Working == {"execute", "wave_execute"}  \* the stages that run Assignments
Stage == {"none", "prepare", "finalize", "wave_prepare", "wave_finalize", "end"}
         \cup Working
Place == {"idle", "plan", "run", "invoke", "nodes", "schedule", "finalize",
          "complete", "returned", "planned", "mark", "finish", "resume"}

Answer == [turn : Nat, says : Deliveries \cup Verdicts
                              \cup {"nothing", "plan", "invalid"}]

\* done and parked: the nodes of the stage with a result, or at an interrupt.
Checkpoint == [stage : Stage, by : Thread \X Nat, work : SUBSET Execution,
               done : SUBSET Execution, parked : SUBSET Execution,
               results : [Execution -> Answer],
               review : Verdicts \cup {None, "needs_revision"}]

NoCheckpoint == [stage |-> "none", by |-> <<Api, 0>>, work |-> {}, done |-> {},
                 parked |-> {}, results |-> [e \in Execution |-> NoAnswer],
                 review |-> None]

\* todo: nodes still to run, None for a node of the scheduler; next: the stage
\* after this one; given: the node that was given a resume value.
NoCall == [graph |-> "run", at |-> NoCheckpoint, todo |-> {}, next |-> "end",
           raised |-> FALSE, given |-> None]

\* todo: steps the node still has to handle, in their order in the plan; pending:
\* the assignment flushed and not committed; failures: a delivery was refused.
NothingSeen == [task |-> "created", plan |-> "none", step |-> [k \in Keys |-> "absent"],
                todo |-> {}, pending |-> None, failures |-> FALSE]

PlanTypeOK ==
  /\ taskStatus \in TaskStatus /\ planStatus \in PlanStatus
  /\ plan \in Offers \cup {NoPlan} /\ offered \in Offers \cup {NoPlan}
  /\ step \in [Keys -> StepStatus] /\ exec \in [Execution -> ExecStatus]
  /\ refused \subseteq Execution /\ watched \subseteq Execution
  /\ attempt \in [Execution -> Nat] /\ answer \in [Execution -> Answer]
  /\ \A c \in Contract : store[c] \in Seq([by : Keys \cup {None}, turn : Nat])
  /\ \A k \in Keys, c \in Contract : bound[k][c] \in 0..Len(store[c])
  /\ checkpoint \in [{"planning", "run"} -> Checkpoint]
  /\ \A x \in Thread :
       /\ pc[x] \in Place /\ call[x].at \in Checkpoint
       /\ call[x].todo \subseteq Execution \cup {None}
       /\ seen[x].todo \subseteq Keys
  /\ held \in Thread \cup {None} /\ graphLock \in Thread \cup {None}
  /\ calls \in 0..MaxCalls /\ inputs \in 0..MaxInputs /\ crashes \in 0..MaxCrashes
  /\ up \in BOOLEAN

PlanInit ==
  /\ taskStatus = "created" /\ plan = NoPlan /\ planStatus = "none"
  /\ step = [k \in Keys |-> "absent"] /\ exec = [e \in Execution |-> "absent"]
  /\ refused = {} /\ attempt = [e \in Execution |-> 0] /\ offered = NoPlan
  /\ answer = [e \in Execution |-> NoAnswer]
  /\ store = [c \in Contract |-> <<>>]
  /\ bound = [k \in Keys |-> [c \in Contract |-> 0]]
  /\ checkpoint = [g \in {"planning", "run"} |-> NoCheckpoint]
  /\ call = [x \in Thread |-> NoCall] /\ seen = [x \in Thread |-> NothingSeen]
  /\ pc = [x \in Thread |-> "idle"]
  /\ held = None /\ graphLock = None /\ watched = {} /\ up = TRUE
  /\ calls = 0 /\ inputs = 0 /\ crashes = 0

-----------------------------------------------------------------------------
(* Shared steps.                                                           *)

GoTo(x, place) == pc' = [pc EXCEPT ![x] = place]

LockFor(x) == held \in {None, x}

\* What a commit leaves in a column loaded as "loaded" and set to "new".
Written(loaded, new, current) == IF loaded = new THEN current ELSE new

\* _watch_waiting_executions.
Watch == watched' = watched \cup {e \in Execution : exec[e] = "waiting"}

\* _set_plan_step_status; lead.plan has no step.
SetStep(e, s) ==
  IF e = Planner THEN UNCHANGED <<step, planStatus>>
  ELSE /\ step' = [step EXCEPT ![e] = s]
       /\ planStatus' = IF s = "failed" /\ step[e] # s THEN "failed" ELSE planStatus

\* What a Turn of e may answer.
Says(e) == IF e = Planner THEN {"plan"}
           ELSE IF e = Review THEN Verdicts ELSE Deliveries

Delivers(e) ==
  /\ \E s \in Says(e) :
       answer' = [answer EXCEPT ![e] = [turn |-> attempt'[e], says |-> s]]
  /\ IF e = Planner THEN offered' \in Offers ELSE UNCHANGED offered

\* A thread leaves a call of the orchestrator, returning or raising.
Leave(x) ==
  /\ GoTo(x, "idle")
  /\ call' = [call EXCEPT ![x] = NoCall]
  /\ seen' = [seen EXCEPT ![x] = NothingSeen]
  /\ held' = IF held = x THEN None ELSE held
  /\ graphLock' = IF graphLock = x THEN None ELSE graphLock

\* graph.invoke on checkpoint c of graph g; every node without a saved result
\* runs again, parked or not.
Enter(x, g, c, given) ==
  /\ call' = [call EXCEPT ![x] =
       [graph |-> g, at |-> [c EXCEPT !.parked = {}], raised |-> FALSE, given |-> given,
        todo |-> CASE c.stage = "end" -> {}
                   [] c.stage \in Working -> c.work \ c.done
                   [] OTHER -> {None},
        next |-> IF g = "planning" THEN "end"
                 ELSE IF c.stage = "wave_execute" THEN "wave_finalize" ELSE "finalize"]]
  /\ GoTo(x, IF c.stage = "end" THEN "returned" ELSE "nodes")

\* A node's outcome goes to the checkpoint it was loaded from: that one is out
\* of sight when the graph of x has moved on meanwhile.
Latest(x) ==
  LET c == checkpoint[call[x].graph] IN
  c.stage = call[x].at.stage /\ c.by = call[x].at.by

\* A node of _execute_assignment ends: with a result, or at interrupt().
NodeDone(x, e, a) ==
  LET saved(c) == [c EXCEPT !.done = @ \cup {e}, !.results[e] = a] IN
  /\ checkpoint' = IF Latest(x) THEN [checkpoint EXCEPT ![call[x].graph] = saved(@)]
                    ELSE checkpoint
  /\ call' = [call EXCEPT ![x].todo = @ \ {e}, ![x].at = saved(@)]

NodeRaises(x, e) ==
  /\ call' = [call EXCEPT ![x].todo = @ \ {e}, ![x].raised = TRUE]
  /\ UNCHANGED checkpoint

NodeInterrupts(x, e) ==
  LET saved(c) == [c EXCEPT !.parked = @ \cup {e}] IN
  IF call[x].given = e THEN NodeRaises(x, e)
  ELSE /\ checkpoint' = IF Latest(x) THEN [checkpoint EXCEPT ![call[x].graph] = saved(@)]
                         ELSE checkpoint
       /\ call' = [call EXCEPT ![x].todo = @ \ {e}, ![x].at = saved(@)]

\* A node of the scheduler ends.
SchedulerDone(x, next, work, review) ==
  /\ call' = [call EXCEPT ![x].todo = {}, ![x].next = next,
                          ![x].at.work = work, ![x].at.review = review]
  /\ GoTo(x, "nodes")
  /\ UNCHANGED checkpoint

SchedulerRaises(x) == NodeRaises(x, None) /\ GoTo(x, "nodes")

-----------------------------------------------------------------------------
(* plan, start and retry: the client's thread.                             *)

Quiet == watched = {} /\ \A x \in Thread : pc[x] = "idle"

Calls ==
  /\ up /\ pc[Api] = "idle" /\ (Overlapping \/ Quiet)
  /\ calls < MaxCalls /\ calls' = calls + 1

CallPlan ==
  /\ Calls /\ taskStatus \notin Terminal
  /\ GoTo(Api, "plan")
  /\ UNCHANGED <<tables, checkpoint, call, seen, held, graphLock, watched, up,
                 inputs, crashes>>

\* start: every initial input is released.
CallStart ==
  /\ Calls /\ plan # NoPlan
  /\ \A c \in plan.initial : store[c] # <<>> /\ store[c][Len(store[c])].by = None
  /\ GoTo(Api, "run")
  /\ UNCHANGED <<tables, checkpoint, call, seen, held, graphLock, watched, up,
                 inputs, crashes>>

\* Mutant of FailedAssignments: a retry starts completed siblings over too.
EveryAssignment == {e \in Execution : exec[e] # "absent"} \cup refused

FailedAssignments == {e \in Execution : exec[e] = "failed"} \cup refused

\* retry: failed assignments start over, then run.
CallRetry ==
  /\ Calls /\ held = None
  /\ taskStatus = "failed" /\ FailedAssignments # {}
  /\ taskStatus' = "running"
  /\ exec' = [e \in Execution |->
                IF e \in FailedAssignments THEN "submitted" ELSE exec[e]]
  /\ answer' = [e \in Execution |->
                  IF e \in FailedAssignments THEN NoAnswer ELSE answer[e]]
  /\ refused' = {}
  /\ step' = [k \in Keys |->
                IF k \in FailedAssignments THEN "submitted"
                ELSE IF step[k] # "cancelled" \/ exec[k] # "absent" THEN step[k]
                ELSE IF DepsOf(plan, k) = {} THEN "ready" ELSE "pending_dependency"]
  /\ planStatus' =
       IF planStatus = "failed" /\ \E k \in Keys \cap FailedAssignments :
                                     step[k] # "submitted"
       THEN "active" ELSE planStatus
  /\ GoTo(Api, IF plan = NoPlan THEN "plan" ELSE "run")
  /\ UNCHANGED <<plan, attempt, offered, store, bound, checkpoint, call, seen,
                 held, graphLock, watched, up, inputs, crashes>>

\* _mark_planning_ready.
MarkReady ==
  taskStatus' = IF planStatus = "validated" /\ taskStatus \in {"planning", "waiting"}
                THEN "created" ELSE taskStatus

\* plan, under the execution lock: a plan is only marked ready again, an
\* ended task is left alone, and otherwise lead.plan is prepared.
Planning ==
  /\ pc[Api] = "plan" /\ held = None
  /\ \/ /\ plan # NoPlan
        /\ MarkReady /\ Leave(Api) /\ UNCHANGED exec
     \/ /\ plan = NoPlan /\ taskStatus \in Terminal
        /\ Leave(Api) /\ UNCHANGED <<taskStatus, exec>>
     \/ /\ plan = NoPlan /\ taskStatus \notin Terminal
        /\ exec' = [exec EXCEPT ![Planner] = IF @ = "absent" THEN "submitted" ELSE @]
        /\ taskStatus' = IF exec'[Planner] = "submitted" THEN "planning" ELSE taskStatus
        /\ held' = Api
        /\ GoTo(Api, "invoke")
        /\ UNCHANGED <<call, seen, graphLock>>
  /\ UNCHANGED <<plan, planStatus, step, refused, attempt, offered, answer, store,
                 bound, checkpoint, watched, up, bounds>>

\* _run_linear and _run_parallel load the task.
Running ==
  /\ pc[Api] = "run"
  /\ \/ taskStatus = "waiting" /\ Watch /\ Leave(Api)
     \/ taskStatus \in Terminal /\ Leave(Api) /\ UNCHANGED watched
     \/ /\ taskStatus \notin Terminal \cup {"waiting"}
        /\ GoTo(Api, "invoke")
        /\ UNCHANGED <<call, seen, held, graphLock, watched>>
  /\ UNCHANGED <<tables, checkpoint, up, bounds>>

\* The end of an invocation that plan and run take for the result.
Finished(g, c) ==
  c.stage = "end" /\ IF g = "planning"
                     THEN exec[Planner] = "completed" /\ Planner \notin refused
                     ELSE Parallel => c.review # None

\* The graph goes on from its checkpoint, or starts: the results of an earlier
\* start stay in the channel that collects them.
Invoke ==
  LET g == IF held = Api THEN "planning" ELSE "run"
      c == checkpoint[g]
      first == IF g = "planning" THEN "execute"
               ELSE IF Parallel THEN "wave_prepare" ELSE "prepare"
      fresh == [NoCheckpoint EXCEPT
                  !.stage = first, !.by = <<Api, calls>>, !.results = c.results,
                  !.work = IF g = "planning" THEN {Planner} ELSE {}]
      loaded == IF c.stage \notin {"none", "end"} \/ Finished(g, c) THEN c ELSE fresh IN
  /\ pc[Api] = "invoke"
  /\ checkpoint' = [checkpoint EXCEPT ![g] = loaded]
  /\ Enter(Api, g, loaded, None)
  /\ UNCHANGED <<tables, seen, held, graphLock, watched, up, bounds>>

-----------------------------------------------------------------------------
(* _execute_assignment.                                                    *)

RunsNode(x, e) ==
  /\ pc[x] = "nodes" /\ call[x].at.stage \in Working
  /\ e \in call[x].todo /\ LockFor(x)

NodeFrame == UNCHANGED <<plan, refused, store, bound, seen, held, graphLock,
                         watched, up, bounds>>

\* The task is cancelled or the execution completed: the recorded result.
NodeReturns(x, e) ==
  /\ RunsNode(x, e)
  /\ taskStatus = "cancelled" \/ exec[e] = "completed"
  /\ NodeDone(x, e, answer[e])
  /\ NodeFrame
  /\ UNCHANGED <<taskStatus, planStatus, step, exec, attempt, offered, answer, pc>>

\* A failed execution asks for a retry, a waiting one for its Turn.
NodeParks(x, e) ==
  /\ RunsNode(x, e)
  /\ taskStatus # "cancelled" /\ exec[e] \in {"failed", "waiting"}
  /\ NodeInterrupts(x, e)
  /\ NodeFrame
  /\ UNCHANGED <<taskStatus, planStatus, step, exec, attempt, offered, answer, pc>>

\* Only a cancellation that was overwritten leaves a cancelled execution here.
Submits(x, e) ==
  RunsNode(x, e) /\ taskStatus # "cancelled" /\ exec[e] \in {"submitted", "cancelled"}

\* _record_admission_failure: no Turn, and the plan is not told.
NodeRejected(x, e) ==
  /\ Submits(x, e) /\ "rejected" \in Submissions
  /\ exec' = [exec EXCEPT ![e] = "failed"]
  /\ taskStatus' = "failed"
  /\ NodeRaises(x, e)
  /\ NodeFrame
  /\ UNCHANGED <<planStatus, step, attempt, offered, answer, pc>>

\* The Runtime accepted a Turn.
SubmissionWaits(x, e) ==
  /\ Submits(x, e) /\ "waiting" \in Submissions
  /\ attempt' = [attempt EXCEPT ![e] = @ + 1]
  /\ exec' = [exec EXCEPT ![e] = "waiting"]
  /\ taskStatus' = "waiting"
  /\ SetStep(e, "waiting")
  /\ NodeInterrupts(x, e)
  /\ NodeFrame
  /\ UNCHANGED <<offered, answer, pc>>

\* The Runtime did the work at once.
SubmissionCompletes(x, e) ==
  /\ Submits(x, e) /\ "completed" \in Submissions
  /\ attempt' = [attempt EXCEPT ![e] = @ + 1]
  /\ exec' = [exec EXCEPT ![e] = "completed"]
  /\ Delivers(e)
  /\ SetStep(e, "validating_output")
  /\ NodeDone(x, e, answer'[e])
  /\ NodeFrame
  /\ UNCHANGED <<taskStatus, pc>>

\* The Runtime raised.
SubmissionFails(x, e) ==
  /\ Submits(x, e) /\ "failed" \in Submissions
  /\ attempt' = [attempt EXCEPT ![e] = @ + 1]
  /\ exec' = [exec EXCEPT ![e] = "failed"]
  /\ taskStatus' = "failed"
  /\ SetStep(e, "failed")
  /\ NodeRaises(x, e)
  /\ NodeFrame
  /\ UNCHANGED <<offered, answer, pc>>

-----------------------------------------------------------------------------
(* LinearTaskScheduler.prepare_step and prepare_parallel_specialists.      *)

\* The step of ks that comes first in the plan.
First(ks) ==
  LET rank == CHOOSE i \in Indices(plan) :
                /\ plan.steps[i].key \in ks
                /\ \A j \in Indices(plan) : plan.steps[j].key \in ks => i <= j
  IN plan.steps[rank].key

InWave(x) == call[x].at.stage \in {"wave_prepare", "wave_finalize"}

RunsScheduler(x, stages) ==
  pc[x] = "nodes" /\ call[x].todo = {None} /\ call[x].at.stage \in stages

Snapshot == [NothingSeen EXCEPT !.task = taskStatus, !.plan = planStatus, !.step = step]

\* The steps that are not completed.
OpenSteps == {k \in KeysOf(plan) : step[k] # "completed"}

\* prepare_step finds nothing to do.
NothingReady ==
  \/ taskStatus \in Terminal
  \/ OpenSteps = {}
  \/ /\ OpenSteps # {}
     /\ LET k == First(OpenSteps) IN
        \/ step[k] \in {"blocked", "failed", "cancelled"}
        \/ exec[k] = "absent" /\ \E d \in DepsOf(plan, k) : step[d] # "completed"

SchedulerFrame == UNCHANGED <<graphLock, held, watched, up, bounds>>

\* The task and the steps are read; work that was prepared before is returned.
PrepareStep(x) ==
  /\ RunsScheduler(x, {"prepare"})
  /\ \/ /\ NothingReady
        /\ IF Parallel THEN SchedulerRaises(x) ELSE SchedulerDone(x, "end", {}, None)
        /\ UNCHANGED seen
     \/ /\ ~NothingReady /\ exec[First(OpenSteps)] # "absent"
        /\ SchedulerDone(x, "execute", {First(OpenSteps)}, None)
        /\ UNCHANGED seen
     \/ /\ ~NothingReady /\ exec[First(OpenSteps)] = "absent"
        /\ seen' = [seen EXCEPT ![x] = [Snapshot EXCEPT !.todo = {First(OpenSteps)}]]
        /\ call' = [call EXCEPT ![x].at.work = {First(OpenSteps)}]
        /\ GoTo(x, "schedule")
        /\ UNCHANGED checkpoint
  /\ SchedulerFrame
  /\ UNCHANGED tables

PrepareWave(x) ==
  LET wave == {k \in SpecialistKeys(plan) : step[k] # "completed"}
      absent == {k \in wave : exec[k] = "absent"} IN
  /\ RunsScheduler(x, {"wave_prepare"})
  /\ \/ /\ \/ taskStatus \in Terminal \ {"failed"}
           \/ \E k \in wave : step[k] \in {"blocked", "failed", "cancelled"}
        /\ SchedulerDone(x, "prepare", {}, None)
        /\ UNCHANGED seen
     \/ /\ taskStatus \notin Terminal \ {"failed"}
        /\ \A k \in wave : step[k] \notin {"blocked", "failed", "cancelled"}
        /\ IF absent = {}
           THEN /\ SchedulerDone(x, IF wave = {} THEN "prepare" ELSE "wave_execute",
                                 wave, None)
                /\ UNCHANGED seen
           ELSE /\ seen' = [seen EXCEPT ![x] =
                     [Snapshot EXCEPT !.todo = absent]]
                /\ call' = [call EXCEPT ![x].at.work = wave]
                /\ GoTo(x, "schedule")
                /\ UNCHANGED checkpoint
  /\ SchedulerFrame
  /\ UNCHANGED tables

\* _select_released_input: the released version of c, if k may read it.
Eligible(k, c) ==
  /\ store[c] # <<>>
  /\ LET released == store[c][Len(store[c])] IN
     \/ released.by = None /\ c \in plan.initial
     \/ released.by \in AncestorSteps(plan, k)

\* Mutant of Bind: the inputs are selected anew.
BindAnew(k) ==
  bound' = [bound EXCEPT ![k] =
              [c \in Contract |-> IF c \in InputsOf(k) THEN Len(store[c]) ELSE 0]]

\* Mutant of Bind: the version after the released one.
BindNext(k) ==
  bound' = [bound EXCEPT ![k] =
              [c \in Contract |-> IF c \in InputsOf(k) /\ @[c] = 0
                                  THEN Len(store[c]) + 1 ELSE @[c]]]

\* Mutant of Bind: what the user provides is not bound.
BindHandoffs(k) ==
  bound' = [bound EXCEPT ![k] =
              [c \in Contract |-> IF c \in InputsOf(k) \ plan.initial /\ @[c] = 0
                                  THEN Len(store[c]) ELSE @[c]]]

\* materialize_step_inputs: a binding that exists is kept.
Bind(k) ==
  bound' = [bound EXCEPT ![k] =
              [c \in Contract |-> IF c \in InputsOf(k) /\ @[c] = 0
                                  THEN Len(store[c]) ELSE @[c]]]

IsReleased(c, i) == i # 0 /\ i = Len(store[c])

\* _build_review_execution_evidence, on the plan and the steps loaded before:
\* the round that planned, every specialist and what it read and released.
Evidence(s) ==
  /\ s.plan \in {"validated", "active"}
  /\ exec[Planner] = "completed" /\ Planner \notin refused
  /\ \A k \in SpecialistKeys(plan) :
       /\ s.step[k] = "completed"
       /\ exec[k] = "completed" /\ k \notin refused
       /\ \A c \in InputsOf(k) : IsReleased(c, bound[k][c])
       /\ \A c \in StepAt(plan, k).outputs :
            store[c] # <<>> /\ store[c][Len(store[c])].by = k
  /\ \A c \in InputsOf(Review) : IsReleased(c, bound[Review][c])

\* One commit of the node: the assignment it flushed last and the inputs of
\* the next step, whose materialization commits.  The node raises, and its
\* flush is undone, when the assignment exists, when an input is missing or
\* when there is no evidence for the review.
Schedule(x) ==
  LET s == seen[x]
      k == s.pending
      n == IF s.todo = {} THEN None ELSE First(s.todo)
      refuses == \/ k # None /\ exec[k] # "absent"
                 \/ k = Review /\ ~Evidence(s)
                 \/ n # None /\ \E c \in InputsOf(n) : bound[n][c] = 0 /\ ~Eligible(n, c)
      placed == [j \in Keys |->
                   IF j = k THEN "submitted"
                   ELSE IF j = n THEN Written(s.step[j], "ready", step[j])
                   ELSE step[j]] IN
  /\ pc[x] = "schedule"
  /\ IF refuses
     THEN /\ SchedulerRaises(x)
          /\ seen' = [seen EXCEPT ![x] = NothingSeen]
          /\ UNCHANGED tables
     ELSE /\ step' = placed
          /\ exec' = IF k = None THEN exec ELSE [exec EXCEPT ![k] = "submitted"]
          /\ taskStatus' = IF k = None THEN taskStatus
                           ELSE Written(s.task, "running", taskStatus)
          /\ planStatus' = IF s.plan = "validated" THEN "active" ELSE planStatus
          /\ IF n = None THEN UNCHANGED bound ELSE Bind(n)
          /\ IF n = None
             THEN /\ SchedulerDone(x, IF InWave(x) THEN "wave_execute" ELSE "execute",
                                   call[x].at.work, None)
                  /\ seen' = [seen EXCEPT ![x] = NothingSeen]
             ELSE /\ seen' = [seen EXCEPT ![x] =
                       [s EXCEPT !.pending = n, !.todo = @ \ {n},
                                 !.task = IF k = None THEN @ ELSE "running",
                                 !.plan = IF @ = "validated" THEN "active" ELSE @]]
                  /\ UNCHANGED <<call, checkpoint, pc>>
          /\ UNCHANGED <<plan, refused, attempt, offered, answer, store>>
  /\ SchedulerFrame

-----------------------------------------------------------------------------
(* LinearTaskScheduler.finalize_step and finalize_parallel_specialists.    *)

\* _fail_step of k, in a session that loaded s.
FailStep(k, s) ==
  /\ step' = [step EXCEPT ![k] = Written(s.step[k], "failed", @)]
  /\ planStatus' = Written(s.plan, "failed", planStatus)
  /\ taskStatus' = Written(s.task, "failed", taskStatus)
  /\ refused' = refused \cup {k}
  /\ answer' = [answer EXCEPT ![k].says = "invalid"]
  /\ UNCHANGED <<plan, exec, attempt, offered, store, bound>>

\* The wave is left once every delivery of it was handled.
StartFinalize(x) ==
  /\ RunsScheduler(x, {"finalize", "wave_finalize"})
  /\ seen' = [seen EXCEPT ![x] = [NothingSeen EXCEPT
                 !.todo = KeysOf(plan) \cap call[x].at.work]]
  /\ GoTo(x, "finalize")
  /\ SchedulerFrame
  /\ UNCHANGED <<tables, call, checkpoint>>

FinalizeFrame == SchedulerFrame /\ UNCHANGED <<plan, exec, attempt, offered, bound>>

\* Mutant of NextDelivery: the first refused delivery ends the wave.
NextDeliveryStop(x, failed) ==
  LET rest == IF failed THEN {} ELSE seen[x].todo \ {First(seen[x].todo)} IN
  seen' = [seen EXCEPT ![x] = [NothingSeen EXCEPT
             !.todo = rest, !.failures = failed \/ seen[x].failures]]

\* A delivery of a wave was handled: on to the next one.
NextDelivery(x, failed) ==
  seen' = [seen EXCEPT ![x] = [NothingSeen EXCEPT
             !.todo = seen[x].todo \ {First(seen[x].todo)},
             !.failures = failed \/ seen[x].failures]]

\* The wave is over: _cancel_unreachable_steps after a failure.
EndWave(x) ==
  /\ pc[x] = "finalize" /\ InWave(x) /\ seen[x].todo = {}
  /\ IF seen[x].failures
     THEN step' = [k \in Keys |-> IF k \in KeysOf(plan) /\ step[k] \notin StepEnds
                                  THEN "cancelled" ELSE step[k]]
     ELSE UNCHANGED step
  /\ SchedulerDone(x, IF seen[x].failures \/ call[x].at.review # None
                      THEN "end" ELSE "prepare", call[x].at.work,
                   IF seen[x].failures THEN None ELSE call[x].at.review)
  /\ seen' = [seen EXCEPT ![x] = NothingSeen]
  /\ FinalizeFrame
  /\ UNCHANGED <<taskStatus, planStatus, refused, answer, store>>

\* How finalize_step leaves: review is what it returned, done that it is over.
Leaves(x, done, review) ==
  IF InWave(x)
  THEN /\ NextDelivery(x, FALSE)
       /\ call' = [call EXCEPT ![x].at.review = IF review = None THEN @ ELSE review]
       /\ GoTo(x, "finalize")
       /\ UNCHANGED checkpoint
  ELSE /\ IF Parallel /\ review = None
          THEN SchedulerRaises(x)
          ELSE SchedulerDone(x, IF done \/ Parallel THEN "end" ELSE "prepare",
                             call[x].at.work, review)
       /\ seen' = [seen EXCEPT ![x] = NothingSeen]

\* How it raises: a wave goes on.
Refuses(x) ==
  IF InWave(x)
  THEN NextDelivery(x, TRUE) /\ GoTo(x, "finalize") /\ UNCHANGED <<call, checkpoint>>
  ELSE SchedulerRaises(x) /\ seen' = [seen EXCEPT ![x] = NothingSeen]

\* The task, the plan and the step are read; a cancelled task and a completed
\* step are left as they are.
FinalizeStep(x) ==
  LET k == First(seen[x].todo)
      says == call[x].at.results[k].says IN
  /\ pc[x] = "finalize" /\ seen[x].todo # {}
  /\ \/ /\ taskStatus = "cancelled"
        /\ Leaves(x, TRUE, None)
     \/ /\ taskStatus # "cancelled" /\ step[k] = "completed" /\ k # Review
        /\ Leaves(x, FALSE, None)
     \/ /\ taskStatus # "cancelled" /\ step[k] = "completed" /\ k = Review
        /\ IF says \in {"accepted", "needs_revision"} THEN Leaves(x, TRUE, says)
                                                      ELSE Refuses(x)
     \/ /\ taskStatus # "cancelled" /\ step[k] # "completed"
        /\ seen' = [seen EXCEPT ![x] = [Snapshot EXCEPT
                       !.todo = seen[x].todo, !.failures = seen[x].failures]]
        /\ GoTo(x, "complete")
        /\ UNCHANGED <<call, checkpoint>>
  /\ FinalizeFrame
  /\ UNCHANGED <<taskStatus, planStatus, step, refused, answer, store>>

Finalizing(x, says) ==
  /\ pc[x] = "complete" /\ seen[x].pending = None
  /\ call[x].at.results[First(seen[x].todo)].says \in says

\* An answer that does not validate.
RefuseAnswer(x) ==
  LET k == First(seen[x].todo) IN
  /\ Finalizing(x, {"invalid", "nothing"})
  /\ FailStep(k, seen[x]) /\ Refuses(x)
  /\ SchedulerFrame

\* The declared files do not fit: the step fails in a session of its own.
RefuseFiles(x) ==
  LET k == First(seen[x].todo) IN
  /\ Finalizing(x, {"badfile"})
  /\ FailStep(k, Snapshot) /\ Refuses(x)
  /\ SchedulerFrame

\* The specialist could not work.
BlockStep(x) ==
  LET k == First(seen[x].todo)
      s == seen[x] IN
  /\ Finalizing(x, {"blocked"})
  /\ step' = [step EXCEPT ![k] = Written(s.step[k], "blocked", @)]
  /\ planStatus' = Written(s.plan, "needs_revision", planStatus)
  /\ refused' = refused \cup {k}
  /\ Leaves(x, TRUE, "needs_revision")
  /\ FinalizeFrame
  /\ UNCHANGED <<taskStatus, answer, store>>

\* The verdict of the lead.
CompleteReview(x) ==
  LET k == First(seen[x].todo)
      says == call[x].at.results[k].says IN
  /\ Finalizing(x, {"accepted", "needs_revision"})
  /\ step' = [step EXCEPT ![k] = "completed"]
  /\ planStatus' = IF says = "accepted" THEN "completed" ELSE "needs_revision"
  /\ Leaves(x, TRUE, says)
  /\ FinalizeFrame
  /\ UNCHANGED <<taskStatus, refused, answer, store>>

\* Mutant of Released: a delivery that was published is published again.
ReleasedAgain(k) ==
  [c \in Contract |->
     IF c \in StepAt(plan, k).outputs
     THEN Append(store[c], [by |-> k, turn |-> attempt[k]]) ELSE store[c]]

\* The store once the outputs of k are released under the Turn of its
\* execution: _publish_file returns the artifact a delivery already has.
Released(k) ==
  LET artifact == [by |-> k, turn |-> attempt[k]] IN
  [c \in Contract |->
     IF c \in StepAt(plan, k).outputs
        /\ \A i \in DOMAIN store[c] : store[c][i] # artifact
     THEN Append(store[c], artifact) ELSE store[c]]

\* publish_assignment_delivery commits; the step is completed after it.
PublishDelivery(x) ==
  LET k == First(seen[x].todo) IN
  /\ Finalizing(x, {"valid"})
  /\ store' = Released(k)
  /\ seen' = [seen EXCEPT ![x].pending = k]
  /\ FinalizeFrame
  /\ UNCHANGED <<taskStatus, planStatus, step, refused, answer, call, checkpoint, pc>>

CompleteStep(x) ==
  LET k == seen[x].pending IN
  /\ pc[x] = "complete" /\ k # None
  /\ step' = [step EXCEPT ![k] = "completed"]
  /\ Leaves(x, FALSE, None)
  /\ FinalizeFrame
  /\ UNCHANGED <<taskStatus, planStatus, refused, answer, store>>

-----------------------------------------------------------------------------
(* LangGraph, and what a thread does with the result of an invocation.     *)

\* The superstep is over: raise, return with interrupts, or step on.
EndSuperstep(x) ==
  LET c == call[x].at
      next == [c EXCEPT !.stage = call[x].next, !.by = <<x, calls>>,
                        !.done = {}, !.parked = {}] IN
  /\ pc[x] = "nodes" /\ call[x].todo = {}
  /\ \/ /\ call[x].raised
        /\ Leave(x)
        /\ UNCHANGED checkpoint
     \/ /\ ~call[x].raised /\ c.parked # {}
        /\ GoTo(x, "returned")
        /\ UNCHANGED <<checkpoint, call, seen, held, graphLock>>
     \/ /\ ~call[x].raised /\ c.parked = {}
        /\ checkpoint' = [checkpoint EXCEPT ![call[x].graph] = next]
        /\ Enter(x, call[x].graph, next, None)
        /\ UNCHANGED <<seen, held, graphLock>>
  /\ UNCHANGED <<tables, watched, up, bounds>>

\* Mutant of Returned: a resume leaves the next Turns to nobody.
ReturnedUnwatched(x) ==
  LET c == call[x].at
      waits == x = Api /\ taskStatus = "waiting"
      planned == call[x].graph = "planning" /\ c.stage = "end"
                 /\ c.results[Planner].says # "nothing"
      reviewed == c.stage = "end" /\ c.review # None /\ taskStatus # "cancelled" IN
  /\ pc[x] = "returned"
  /\ IF ~waits /\ (planned \/ reviewed)
     THEN /\ GoTo(x, IF planned THEN "planned" ELSE "finish")
          /\ UNCHANGED <<call, seen, held, graphLock, watched>>
     ELSE Leave(x) /\ IF waits THEN Watch ELSE UNCHANGED watched
  /\ UNCHANGED <<tables, checkpoint, up, bounds>>

\* plan and run watch the Turns of a waiting task, a resume those of a graph
\* that is parked; a planning result is validated, a review finishes the task,
\* and anything else returns or raises.
Returned(x) ==
  LET c == call[x].at
      waits == IF x = Api THEN taskStatus = "waiting"
                          ELSE checkpoint[call[x].graph].parked # {}
      planned == call[x].graph = "planning" /\ c.stage = "end"
                 /\ c.results[Planner].says # "nothing"
      reviewed == c.stage = "end" /\ c.review # None
                  /\ taskStatus # "cancelled" /\ (x = Api => taskStatus # "failed") IN
  /\ pc[x] = "returned"
  /\ \/ waits /\ Watch /\ Leave(x)
     \/ /\ ~waits /\ (planned \/ reviewed)
        /\ GoTo(x, IF planned THEN "planned" ELSE "finish")
        /\ UNCHANGED <<call, seen, held, graphLock, watched>>
     \/ /\ ~waits /\ ~planned /\ ~reviewed
        /\ Leave(x) /\ UNCHANGED watched
  /\ UNCHANGED <<tables, checkpoint, up, bounds>>

\* Mutant of Finish: any verdict completes the task.
FinishUnread(x) ==
  /\ pc[x] = "finish"
  /\ taskStatus' = "completed"
  /\ Leave(x)
  /\ UNCHANGED <<plan, planStatus, step, exec, refused, attempt, offered, answer,
                 store, bound, checkpoint, watched, up, bounds>>

\* _finish_task commits the verdict over the status that Returned loaded.
Finish(x) ==
  /\ pc[x] = "finish"
  /\ taskStatus' = IF call[x].at.review = "accepted" THEN "completed"
                                                     ELSE "needs_revision"
  /\ Leave(x)
  /\ UNCHANGED <<plan, planStatus, step, exec, refused, attempt, offered, answer,
                 store, bound, checkpoint, watched, up, bounds>>

\* _complete_planning stores the plan; an equal one may be there already.
AdoptPlan(x) ==
  /\ pc[x] = "planned" /\ LockFor(x)
  /\ AcceptedPlan(offered) /\ plan \in {NoPlan, offered}
  /\ plan' = offered
  /\ IF plan = NoPlan
     THEN /\ planStatus' = "validated"
          /\ step' = [k \in Keys |-> IF k \notin KeysOf(offered) THEN "absent"
                                     ELSE IF DepsOf(offered, k) = {} THEN "ready"
                                     ELSE "pending_dependency"]
     ELSE UNCHANGED <<planStatus, step>>
  /\ held' = x
  /\ GoTo(x, "mark")
  /\ UNCHANGED <<taskStatus, exec, refused, attempt, offered, answer, store, bound,
                 checkpoint, call, seen, graphLock, watched, up, bounds>>

MarkPlanned(x) ==
  /\ pc[x] = "mark"
  /\ MarkReady /\ Leave(x)
  /\ UNCHANGED <<plan, planStatus, step, exec, refused, attempt, offered, answer,
                 store, bound, checkpoint, watched, up, bounds>>

\* _record_planning_failure, whatever became of the task.
RefusePlan(x) ==
  /\ pc[x] = "planned" /\ LockFor(x)
  /\ ~AcceptedPlan(offered) \/ plan \notin {NoPlan, offered}
  /\ refused' = refused \cup {Planner}
  /\ taskStatus' = "failed"
  /\ Leave(x)
  /\ UNCHANGED <<plan, planStatus, step, exec, attempt, offered, answer, store,
                 bound, checkpoint, watched, up, bounds>>

\* _resume_runtime_interrupt.
Resume(e) ==
  LET x == Worker(e)
      c == checkpoint[Graph] IN
  /\ pc[x] = "resume" /\ graphLock = None
  /\ \/ /\ taskStatus \in Terminal
        /\ Leave(x) /\ UNCHANGED watched
     \/ /\ taskStatus \notin Terminal /\ e \in c.parked
        /\ graphLock' = x
        /\ Enter(x, Graph, c, e)
        /\ UNCHANGED <<seen, held, watched>>
     \/ /\ taskStatus \notin Terminal /\ e \notin c.parked
        /\ c.stage = "end" /\ (plan # NoPlan /\ Parallel => c.review # None)
        /\ graphLock' = x
        /\ Enter(x, Graph, c, None)
        /\ UNCHANGED <<seen, held, watched>>
     \/ /\ taskStatus \notin Terminal /\ e \notin c.parked
        /\ ~(c.stage = "end" /\ (plan # NoPlan /\ Parallel => c.review # None))
        /\ IF c.parked # {} THEN Watch ELSE UNCHANGED watched
        /\ Leave(x)
  /\ UNCHANGED <<tables, checkpoint, up, bounds>>

-----------------------------------------------------------------------------
(* The end of a Turn, cancellation, task inputs and the backend.           *)

\* complete_runtime_execution.
TurnCompletes(e) ==
  LET x == Worker(e) IN
  /\ "completed" \in Reports
  /\ pc[x] = "idle" /\ e \in watched /\ exec[e] = "waiting" /\ held = None
  /\ exec' = [exec EXCEPT ![e] = "completed"]
  /\ UNCHANGED attempt /\ Delivers(e)
  /\ SetStep(e, "validating_output")
  /\ watched' = watched \ {e}
  /\ GoTo(x, IF taskStatus \in Terminal THEN "idle" ELSE "resume")
  /\ UNCHANGED <<taskStatus, plan, refused, store, bound, checkpoint, call, seen,
                 held, graphLock, up, bounds>>

\* fail_runtime_execution.
FailTurn(e) ==
  /\ exec[e] = "waiting" /\ held = None
  /\ exec' = [exec EXCEPT ![e] = "failed"]
  /\ taskStatus' = "failed"
  /\ SetStep(e, "failed")
  /\ watched' = watched \ {e}
  /\ UNCHANGED <<plan, refused, attempt, offered, answer, store, bound, checkpoint,
                 threads, up, bounds>>

TurnFails(e) ==
  "failed" \in Reports /\ pc[Worker(e)] = "idle" /\ e \in watched /\ FailTurn(e)

\* _persist_task_cancellation and _cancel_execution_plan.
CancelTask ==
  /\ Cancellable /\ taskStatus \notin Terminal /\ held = None
  /\ taskStatus' = "cancelled"
  /\ exec' = [e \in Execution |-> IF exec[e] \in {"absent", "completed"} THEN exec[e]
                                  ELSE "cancelled"]
  /\ refused' = {}
  /\ step' = [k \in Keys |-> IF step[k] \in StepEnds \cup {"absent"} THEN step[k]
                             ELSE "cancelled"]
  /\ planStatus' = IF planStatus \in {"validated", "active"} THEN "cancelled"
                   ELSE planStatus
  /\ watched' = {}
  /\ UNCHANGED <<plan, attempt, offered, answer, store, bound, checkpoint, threads,
                 up, bounds>>

\* publish_task_input, at any time once there is a plan.
PublishInput(c) ==
  /\ up /\ plan # NoPlan /\ c \in plan.initial
  /\ inputs < MaxInputs /\ inputs' = inputs + 1
  /\ store' = [store EXCEPT ![c] = Append(@, [by |-> None, turn |-> inputs'])]
  /\ UNCHANGED <<taskStatus, plan, planStatus, step, exec, refused, attempt, offered,
                 answer, bound, checkpoint, threads, watched, up, calls, crashes>>

\* The backend dies: tables and checkpoints remain.
Crash ==
  /\ crashes < MaxCrashes /\ crashes' = crashes + 1
  /\ up' = FALSE
  /\ call' = [x \in Thread |-> NoCall] /\ seen' = [x \in Thread |-> NothingSeen]
  /\ pc' = [x \in Thread |-> "idle"]
  /\ held' = None /\ graphLock' = None /\ watched' = {}
  /\ UNCHANGED <<tables, checkpoint, calls, inputs>>

\* recover_orphaned_runtime_executions: a Turn is reattached, or failed.
Orphans == {e \in Execution : exec[e] = "waiting"} \ watched

Reattach(e) ==
  /\ ~up /\ e \in Orphans
  /\ watched' = watched \cup {e}
  /\ UNCHANGED <<tables, checkpoint, threads, up, bounds>>

Orphaned(e) == ~up /\ e \in Orphans /\ FailTurn(e)

Startup ==
  /\ ~up /\ Orphans = {}
  /\ up' = TRUE
  /\ UNCHANGED <<tables, checkpoint, threads, watched, bounds>>

-----------------------------------------------------------------------------

ClientCalls == CallPlan \/ CallStart \/ CallRetry
ClientSteps == Planning \/ Running \/ Invoke

Node(x, e) ==
  \/ NodeReturns(x, e) \/ NodeParks(x, e) \/ NodeRejected(x, e)
  \/ SubmissionWaits(x, e) \/ SubmissionCompletes(x, e) \/ SubmissionFails(x, e)

Prepares(x) == PrepareStep(x) \/ PrepareWave(x) \/ Schedule(x)

Finalizes(x) ==
  \/ StartFinalize(x) \/ FinalizeStep(x) \/ EndWave(x)
  \/ RefuseAnswer(x) \/ RefuseFiles(x) \/ BlockStep(x) \/ CompleteReview(x)
  \/ PublishDelivery(x) \/ CompleteStep(x)

GraphStep(x) ==
  \/ \E e \in Execution : Node(x, e)
  \/ Prepares(x) \/ Finalizes(x) \/ EndSuperstep(x)
  \/ Returned(x) \/ Finish(x) \/ AdoptPlan(x) \/ MarkPlanned(x) \/ RefusePlan(x)

TurnEnds(e) == TurnCompletes(e) \/ TurnFails(e)

Next ==
  \/ ClientCalls \/ ClientSteps
  \/ \E x \in Thread : GraphStep(x)
  \/ \E e \in Execution : Resume(e) \/ TurnEnds(e) \/ Reattach(e) \/ Orphaned(e)
  \/ CancelTask \/ Crash \/ Startup
  \/ \E c \in Contract : PublishInput(c)

Spec == PlanInit /\ [][Next]_vars

\* Threads run on, the Runtime ends its Turns, and startup comes to an end.
Fairness ==
  /\ WF_vars(ClientSteps)
  /\ \A x \in Thread : WF_vars(GraphStep(x))
  /\ \A e \in Execution : WF_vars(Resume(e)) /\ WF_vars(TurnEnds(e))
  /\ WF_vars(Startup) /\ WF_vars(\E e \in Execution : Reattach(e) \/ Orphaned(e))

FairSpec == Spec /\ Fairness

-----------------------------------------------------------------------------
(* Properties.                                                             *)

Done == {k \in Keys : step[k] = "completed"}

Order == INSTANCE PlanOrder WITH
  deps <- [k \in KeysOf(plan) |-> DepsOf(plan, k)],
  begun <- {k \in Keys : exec[k] # "absent"},
  done <- Done,
  accepted <- taskStatus = "completed"

\* The tables and the threads implement PlanOrder: the scheduler hands a step
\* to its role only when the steps before it delivered, whatever is retried,
\* cancelled or restarted (TASK_PLAN_ARTIFACT_HANDOFF.md, Assignment lifecycle).
StepsInOrder == Order!OrderSpec

\* An input that was materialized for a step is never replaced by a newer
\* version (materialize_step_inputs, _existing_contract_binding).
InputsFrozen ==
  [][\A k \in Keys, c \in Contract : bound[k][c] # 0 => bound'[k][c] = bound[k][c]]_vars

\* A step that has an assignment has all its inputs, each from the user or
\* released by an ancestor of the step (_select_released_input).  Without
\* overlapping calls that ancestor is still completed.
InputsFromAncestors ==
  \A k \in Keys : exec[k] # "absent" =>
    \A c \in InputsOf(k) :
      /\ bound[k][c] # 0
      /\ LET bytes == store[c][bound[k][c]] IN
         \/ bytes.by = None /\ c \in plan.initial
         \/ bytes.by \in Ancestors(plan)[k] /\ (Overlapping \/ bytes.by \in Done)

\* One delivery releases one version of an artifact, also when the backend
\* dies between the release and the completion of the step (_publish_file).
ReleasedOnce ==
  \A c \in Contract : \A i, j \in DOMAIN store[c] :
    i # j => store[c][i] # store[c][j]

\* A refused delivery does not cost a sibling of the wave its own: the valid
\* ones are published, never cancelled (finalize_parallel_specialists,
\* _cancel_unreachable_steps).
SiblingsKept ==
  plan # NoPlan /\ Parallel /\ checkpoint["run"].stage = "end" =>
    \A k \in SpecialistKeys(plan) : answer[k].says = "valid" => step[k] = "completed"

\* The task, its plan and its steps agree on an accepted review.
AcceptedTogether ==
  taskStatus = "completed" => planStatus = "completed" /\ Done = KeysOf(plan)

\* A task whose plan is active ends, after however many retries (run,
\* _resume_runtime_interrupt, supervisor).
StartedPlanEnds == planStatus = "active" ~> taskStatus \in Terminal

=============================================================================
