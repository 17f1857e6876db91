# mutiAI in TLA+

A verification development of the mutiAI backend (`src/src/mutiai`): models of
the parts where several threads, several tasks and a restart meet, model-checked
with TLC, and theorems about them checked with TLAPS. Paths below are relative
to `src/src/mutiai` unless they start with `src/`.

1. The system
2. What is modelled, and how it corresponds to the code
3. Runs and bounds
4. What is proved
5. Where code and documentation disagree
6. What is not modelled
7. Plan

## 1. The system

mutiAI runs *tasks* for an organization of roles. A task is split into
*assignments*; each has one *RuntimeExecution*, which an external Runtime (a
Codex App Server) performs as a *Turn* of a *Thread*. LangGraph drives the
assignments of a task as a graph with a checkpoint per step; the product
database owns every status, the approvals, the artifacts and a token budget. A
conversational *Platform Assistant* proposes *Actions* on all of this.

### Components

**Admission, slots and token ledger** (`services/runtime_controls.py`).
State: the policy row of an owner and provider (`max_concurrent_executions`,
`token_budget_limit`, `token_reservation_per_execution`, `tokens_reserved`,
`tokens_consumed`); per execution `status`, `wait_reason`, `reserved_tokens`,
`budget_settled_at`. Operations: `ensure_policy`, `active_execution_count`,
`admit`, `settle`, `snapshot`. Called by the orchestrator inside its own
transactions. Hard: a slot is not a row but a status, so every status change in
the orchestrator is an operation on slots. Correct when there are never more
active executions than slots, the counter is the sum of the holders'
reservations, every release settles exactly once, and the budget is passed only
by what Turns in flight use beyond their reservation.

**Legacy task orchestration** (`orchestration/task_orchestrator.py`,
`orchestration/task_graph.py`, `services/tasks.py`, `api/routes/tasks.py`).
State: task, assignment and execution rows; the LangGraph checkpoint; two locks.
Operations: `run` (submit and replay), `retry`, `cancel`, the node functions
`_execute_assignment` and `_review_assignments`, `complete_runtime_execution`,
`fail_runtime_execution`, `cancel_runtime_execution`,
`_resume_runtime_interrupt`, `_drain_capacity_waiters`, and the recovery
functions. Hard: API threads, one worker per Turn and drains all step the same
graph; an interrupt is answered from a different thread, while the superstep
that parked it may still run; the status of a task is written by whoever is
last. Correct when work that is delivered is not repeated, a review sees
delivered work only, terminal tasks stay terminal and quiet, every Turn has
somebody waiting for it, no slot idles while somebody queues, and a task ends.

**Runtime supervisor** (`runtime/supervisor.py`). State: one worker thread per
watched execution. Operations: `watch`, `_wait_and_resume`,
`_record_runtime_failure`, `close`. Calls the orchestrator's three terminal
operations; is called back from every place that may have started a Turn. Hard:
holds its lock over a whole completion. Correct when each Turn is reported once
and no worker waits for another in a circle.

**Planned execution** (`services/linear_scheduler.py`,
`services/task_plans.py`, `domain/task_plan.py`). State: plan, steps,
dependencies. Operations: `prepare_step`, `prepare_parallel_specialists`,
`finalize_step`, `finalize_parallel_specialists`, `_cancel_unreachable_steps`,
called from the nodes of two more LangGraph graphs. Hard: the scheduler takes no
lock, one call of it makes several commits, and the row a commit writes may have
changed since it was loaded. Correct when a step starts after all it depends on,
a wave keeps its valid deliveries, and plan, steps, task agree on the end.

**Planning round** (`plan`, `_complete_planning`, `_mark_planning_ready`,
`_record_planning_failure` of the orchestrator). One lead execution produces the
plan; the plan is stored, or the task fails. Hard: cancellation during planning.

**Artifacts** (`services/artifacts.py`). Files published by a step or by the
user, released to its successors and copied into their workspaces. Hard: the
release commits before the step completes, a user may replace an input at any
time. Correct when a step reads only what the user or its ancestors released,
never a later version than it started with, and one delivery is released once.

**Approval coordinator** (`services/approvals.py`). State: approval rows, one
`Event` per waiting request. Operations: `request_approval`, `decide`,
`cancel_task`, `recover_orphaned_approvals`, `close`. Hard: the waiter blocks a
Runtime callback until a decision, a cancellation or a shutdown wakes it.
Correct when no waiter sleeps on a resolved approval and a decision is final.

**Codex adapter and App Server client** (`runtime/codex.py`,
`runtime/codex_app_server.py`). State: the active executions with their
sessions, each with a reader's queue and a connection. Operations: `execute`,
`recover`, `wait_for_completion`, `cancel`, `close_execution`. Hard: a retry
replaces the Turn of an execution while the worker of the old one still closes
it; a connection breaks at any point; an App Server outlives the backend when it
is reached through an endpoint and dies with it when it is a child process.

**Sidecar** (`runtime/sidecar.py`). A restart loop with a budget and a backoff.

**Platform Assistant** (`services/assistant.py`). State: conversations,
messages, Turns, Actions, events. Operations: `submit_message`, `_run_turn`,
`_finish_turn`, `cancel_turn`, `_create_action`, `decide_action`,
`_execute_action_worker` and their recovery. Hard: a Turn is finished by a worker
while a client cancels it; an Action is confirmed, executed and recovered by
different threads. Correct when an Action runs at most once to an end, only
after a confirmation, and a Turn has one outcome.

**Application lifecycle** (`main.py`). Wires one product lock into orchestrator,
approvals and assistant; recovers approvals, executions, queue and assistant at
startup, and closes them in order at shutdown.

**The rest**: Provider capacity signal (a cached observation), workspaces,
runtime bindings and profiles, feasibility gate, organizations, authentication,
assistant attachments, product event log, persistence, fake runtime, HTTP API.
They keep rows or files that one request writes; see section 6.

### How they interact

    client --HTTP--> run / retry / cancel / decide          (API threads)
    Assistant Action worker --------> the same operations
    run, retry --graph.invoke--> nodes --admit--> ledger
                                   node --execute--> Runtime adapter
    node --interrupt--> checkpoint;  run, resume --watch--> supervisor worker
    supervisor worker --complete / fail / cancel--> orchestrator
    orchestrator --resume--> graph;  --drain--> waiters of other tasks
    Runtime callback --request_approval--> coordinator <--decide-- client

## 2. What is modelled

| Module | Models | Extends |
|---|---|---|
| `RuntimeControls` | slots and ledger of one owner and provider | |
| `RuntimeControlsProofs` | its theorems | `RuntimeControls` |
| `TaskFlow` | legacy tasks: API threads, workers, graph, queue, lead review | `RuntimeControls` |
| `TaskFlowProofs` | its theorems | `TaskFlow`, `RuntimeControlsProofs` |
| `TaskDeliveryProofs` | its theorems about delivered work and reviews | `TaskFlowProofs` |
| `Restart` | `TaskFlow` in a process that stops and starts | `TaskFlow` |
| `RestartProofs` | its theorems | `Restart`, `TaskDeliveryProofs` |
| `PlanShapes` | which plans are accepted, and what is derived from one (no state) | |
| `PlanOrder` | abstract: begin, deliver and accept the steps of a plan in order | |
| `PlanFlow` | planned tasks: planning, scheduler, artifacts, graphs, workers | `PlanShapes`, instantiates `PlanOrder` |
| `PlanFlowProofs` | its theorems | `PlanFlow` |
| `RuntimeTurns` | adapter, supervisor, approvals, cancellation, shutdown and startup of Turns | |
| `RuntimeTurnsProofs` | its theorems | `RuntimeTurns` |
| `Assistant` | a conversation of the platform assistant | |
| `AssistantProofs` | its theorems | `Assistant` |
| `LockOrder` | the backend's four reentrant locks and every handler's use of them | |
| `LockOrderProofs` | its theorems | `LockOrder` |
| `MC_*` | instances for TLC | |

`PROJECT.json` maps each definition to its lines.

### RuntimeControls

`status`, `capacityWait` (`wait_reason = concurrency_limit`), `reserved` and
`settled` are columns of an execution; `tokensReserved` and `tokensConsumed` of
the policy. `submitting` is the execution for which `_execute_assignment` holds
the execution lock over `adapter.execute`, between the commit of `running` and
the commit of the outcome. Every action is one transaction: `Create`, `Admit`,
`Defer`, `Reject`, `SubmitWaiting`, `SubmitCompleted`, `SubmitFailed`,
`Complete`, `Fail`, `Cancel`, `Retry`, `Pick`. The model is an abstract
specification as well: it leaves open *when* a transaction happens, so anything
may be created, cancelled or retried, and `TaskFlow` is shown to implement it.

`ControlSpec` commits every outcome. `CrashSpec` adds `SubmissionLost`: the
process stops, or an exception escapes, in the window; the row stays `running`.

Choices worth knowing. Budget and reservation are configured together, so an
unlimited budget is usually paired with `Reservation = 0`; the model allows any
pair. `Complete` requires `~capacityWait`, which the code does not test: a
report comes from a Turn, and a queued execution has none. The reported usage of
a Turn ranges over `0..MaxUsage`, with `None` when nothing was reported.

### TaskFlow

A task has specialists and a lead review (`build_task_graph`). Threads are API
threads (`run`, `retry`), stoppers (`cancel`), and one supervisor worker per
execution; `pc` says where each is.

| Action | Code |
|---|---|
| `Submit`, `RetryTask`, `UserCancels` | the routes, `retry`, `cancel` |
| `LoadTask`, `PrepareAssignments`, `Invoke`, `Returned`, `Finish` | `run`; the load and the commits are separate steps because no lock spans them |
| `NodeReturns`, `NodeParks`, `NodeDefers`, `NodeRejected`, `NodeAdmitted` | the branches of `_execute_assignment` up to the submission, each one transaction under the execution lock |
| `SubmissionWaits`, `SubmissionCompletes`, `SubmissionFails` | what `adapter.execute` may answer |
| `CreateReview`, `Review` | `_review_assignments` |
| `WriteOutcome`, `EndSuperstep` | LangGraph (external) |
| `TurnCompletes`, `TurnFails`, `TurnInterrupted` | the supervisor's reports with the transaction they call |
| `Resume`, `Drain` | `_resume_runtime_interrupt`, `_drain_capacity_waiters` |

`graphLock` is `_graph_resume_lock`; `completing` is the supervisor's lock while
a completion holds it. The execution lock is `submitting`: every other use of it
is one atomic step.

LangGraph is external and modelled from its use. Assumed of it: the nodes of a
superstep all run, even when one raises; the result or interrupt of a node is
saved as a pending write of the checkpoint the invocation started from; an
invocation of a checkpoint runs every node without a saved result again; a resume
value is returned by the first `interrupt()` of the node it is addressed to and
by no other; a node that interrupts again after its answer raises; interrupts of
a checkpoint stay visible until a next checkpoint replaces it.

Two assumptions bound the threads: one API call and one cancellation per task at
a time, and one supervisor worker per execution at a time. `CancelTask` removes
the workers of the task's executions from `watched`: an interrupt that the
Runtime confirms ends the Turn and reports it to a task that is terminal.

### Restart

`Crash` takes threads, locks and workers; rows and checkpoints stay. It may fall
into a submission (`SubmissionLost`). `Start` reads the executions that wait on
the Runtime, as `recover_orphaned_runtime_executions` does; each is reattached
(`Endpoint`) or failed, and a failure drains the queue as in the code, so the
startup is a thread of its own (`Starter`), no client's. `ResumeQueue` is
`resume_deferred_runtime_executions`. Clients are served after it (`Serve`).

### PlanFlow, PlanShapes, PlanOrder

A plan is a record of steps with keys, roles, dependencies, inputs and outputs.
`PlanShapes` translates `validate_graph_and_contract_flow` and
`validate_supported_plan_shape` clause by clause; `AcceptedPlan` decides whether
`_complete_planning` stores what the lead offered. `Acyclic` takes off the steps
without dependencies round after round, as `_assert_acyclic` does.

Rows: `taskStatus`, `plan`, `planStatus`, `step`, `exec`, `answer` (the summary
and the Turn it came from), `refused` (executions that completed and whose
assignment failed over their answer), `store` (artifacts by contract, the last
one released), `bound` (which version a step reads). Threads are the client's and
one worker per execution. The scheduler takes no lock, so each of its commits is
a step of its own, and `seen` holds what its session loaded before: `Written`
says which columns the commit then overwrites, namely those it changed.

| Action | Code |
|---|---|
| `CallPlan`, `CallStart`, `CallRetry`, `PublishInput` | the routes with `plan`, `start`, `retry`, `publish_task_input` |
| `Planning`, `AdoptPlan`, `MarkPlanned`, `RefusePlan` | `plan`, `_complete_planning`, `_mark_planning_ready`, `_record_planning_failure` |
| `Running`, `Invoke`, `Returned`, `Finish` | `_run_linear`, `_run_parallel`, `_finish_task` |
| `NodeReturns` ... `SubmissionFails` | `_execute_assignment`, with a slot always free |
| `PrepareStep`, `PrepareWave`, `Schedule` | `prepare_step`, `prepare_parallel_specialists`, `_create_assignment`; one `Schedule` per commit |
| `StartFinalize`, `FinalizeStep`, `RefuseAnswer`, `RefuseFiles`, `BlockStep`, `CompleteReview`, `PublishDelivery`, `CompleteStep`, `EndWave` | `finalize_step`, `finalize_parallel_specialists` |
| `Resume`, `TurnCompletes`, `TurnFails` | the supervisor's reports and `_resume_runtime_interrupt` |
| `CancelTask`, `Crash`, `Reattach`, `Orphaned`, `Startup` | `cancel`, a stop, the startup recovery |

Slots and budgets are left to `RuntimeControls`. `Overlapping = FALSE` restricts
the client to calls while no thread and no Turn is busy (section 5 says why).

`PlanOrder` promises: a step begins only when what it depends on is delivered, is
delivered once, and the task is accepted when everything is. `StepsInOrder` is
that specification under the mapping `begun` = steps with an assignment, `done` =
completed steps, `accepted` = completed tasks; retries, waves, cancellations and
planning are stutters.

### RuntimeTurns

`server` is each Turn in the App Server, `session` the adapter's connection to
it (open, an accepted interrupt, a completion it keeps, the queue of its reader),
`active` the Turn the adapter owns for an execution, `threads` and `worker` the
supervisor's, `waiters` and `woken` the events of the approval coordinator,
`unconfirmed` the executions with a `runtime.execution_cancel_failed` event,
`failures` the Turns named in `runtime.execution_failed` events,
`cancelling` a cancellation between its transaction and its last interrupt. One
cancellation of a client and one of each worker may run at a time.

| Action | Code |
|---|---|
| `Submit`, `Execute`, `ExecuteFails`, `Commit` | a node's submission around `CodexRuntimeAdapter.execute` |
| `Watch`, `Worker...` | `watch`, `_wait_and_resume`, `_record_runtime_failure`, `wait_for_completion` |
| `WorkerAsks`, `WorkerReads`, `WorkerWakes`, `WorkerAnswers`, `Decide` | `request_approval` (its loop around the event) and `decide` |
| `Cancel`, `WorkerCancels`, `Dispatch`, `Acknowledged`, `RecordDispatch`, `CancelApprovals` | `cancel`, `cancel_runtime_execution` and what they do after the transaction |
| `CloseApprovals`, `CloseSupervisor`, `Exit`, `Crash` | shutdown in its order, or none |
| `Reattach`, `Orphaned`, `Startup` | `recover`, `recover_orphaned_runtime_executions`, `recover_orphaned_approvals` |
| `ServerAsks`, `ServerEnds`, `ConnectionLost` | external |

The graph is reduced to what a Turn sees of it: a completion resumes it, and it
may refuse the delivery (`Refusals`). A Turn asks for an approval at most once.
A node returns early for a cancelled task only: in a task that a sibling failed
`Submit` still begins a Turn, and `Commit` then makes the task wait again. A
retry resets the Turn of an execution (`turn`), but not the Turn itself. The
decision `orphaned` marks a prompt that the startup resolved; the code writes
`cancelled` there too, with `runtime_owner_lost` as the reason.

### Assistant

Most of this service holds no lock. What orders its commits is the number of a
conversation's events, read with the conversation and unique in the table: a
session whose copy is old fails at its commit. `current` is the set of sessions
whose copy is not old, `Loads`, `Appends` and `AppendsAlone` what an action does
to it, `Fresh` the test. Per Turn there is a job in the pool (`job`), per Action
the confirmations in the queue (`queued`) and the job that carries it out
(`acting`); `lock` is the product lock where it is held across steps. `effect`
counts what an Action did: one for a Task that is found again by the key of the
Action and for a version, a task or an approval that is found in the state it
was to be brought to, one more for every execution of a retry (`Repeats`).
Recovery (`Startup`) reattaches the Turns that it finds at the endpoint, any part
of those in flight, and leaves the others as they are; it hands what was
confirmed or executing to the pool again.

### LockOrder

A handler is the sequence of its lock operations along its longest path: `take`,
`give`, `use` (a section that takes no other lock) and `pool` (LangGraph runs
several nodes in pool threads, each of which needs the product lock, while the
caller waits; reentrancy does not help). Locks are `product`
(`product_mutation_lock` of `main.py`, shared by orchestrator, approvals and
assistant), `graph`, `watch` and `waiter`. `mix` is the set of handlers of a
behaviour.

## 3. Runs and bounds

| Run | Configuration | Question |
|---|---|---|
| `controls` | 3 executions, 2 slots, reservation 2, budget 6, usage 0..3 | are slots bounded and the ledger exact, whatever happens in which order? |
| `task_one` | 1 task, 2 specialists, 2 slots, budget 3, every outcome, 2 calls, a cancellation | safety of one task under every interleaving; refinement of `RuntimeControls` |
| `task_ends` | 1 task, 2 specialists, 1 slot, 3 calls, fair | is every Turn watched, and does a started task end? |
| `restart` | 2 tasks, 1 specialist each, 1 slot, both cancellable, 1 stop | does a released slot reach the queue of another task, and what does a stop leave? |
| `plan` | a fan-out and a chain of three steps, 3 overlapping calls, 2 inputs, a cancellation, a crash | which artifacts may a step read and release? |
| `plan_ends` | every shape, every delivery and verdict, 4 calls, 1 input, fair | refinement of `PlanOrder`; does an active plan end? |
| `turn` | 1 execution, 2 Turns, 1 lost connection, 1 stop, with and without endpoint, fair | who owns a Turn, and is its end reported? |
| `turn_two` | 2 executions with a Turn each, refused deliveries, 1 lost connection, 1 stop, an endpoint, workers on a prompt fair | what does a cancellation leave behind, and who sleeps through it? |
| `assistant` | 2 messages, 2 Actions of two payloads (a submission and a retry, or twice one), 2 pool threads, 1 lost connection, 1 stop, an endpoint | safety of a conversation |
| `locks` | 4 threads; two mixes of handlers | can threads wait in a circle? |
| `locks_supervisor`, `turn_silent` | smallest that shows it | section 5 |

Why the bounds are enough. With three executions and two slots somebody always
queues; a budget of three reservations with a usage that may exceed one reaches
refusal, overshoot and the clamp. Two specialists are the smallest fan-out, and
with the lead the smallest graph with two stages; two calls are a submission
followed by a replay or a retry, which overlap with every worker. A queue that
joins tasks needs two tasks and one slot. Three steps are a wave with a review,
or a chain in which the last has a grandparent; plan, start, retry and one more
fill four calls, and two versions of the user's input are one that was read and
one that came later. A retry makes a second Turn of an execution, which is all
an old worker can be confused by. Two Turns of a conversation are one and its
successor; two Actions with one payload are the only ones that could be
duplicates, and a second payload is one whose execution counts again. With an
endpoint the startup may find any of the Turns in flight, none included, which
is all that a backend without an endpoint finds. A circle of locks needs as many
threads as it has locks; there are four locks, and four threads run.
`Reservation = 0` where the ledger is not the question.

What each property says that is not obvious from the code:

* `ConcurrencyBound`, `LedgerBalanced`, `BudgetEdge`, `ReleaseSettles`,
  `ChargeOnRelease`: admission counts statuses and reserves in one transaction,
  ten other transactions release, over any number of retries and repeated
  cancellations. `BudgetEdge` is the sharp bound: the limit plus what each slot
  may use beyond its reservation. After a lost submission only `LedgerCovers`
  holds: the counter is never too low.
* `ReviewAfterDelivery`, `CompletedOnAcceptance`, `DeliveredStays`: two
  invocations of one checkpoint may run the nodes at the same time, and retries
  start over from old checkpoints.
* `CancelledIsQuiet`: a node that was already running when the task was
  cancelled is not admitted. The *status* of a cancelled task may still be
  overwritten (section 5), its executions may not become active while it is
  cancelled.
* `NoIdleSlotServing`, `TurnsAreWatched`, `WaitingForSomething`: quiescence
  properties. They speak of states in which no thread is inside the backend,
  where whatever is missing stays missing. `NoIdleSlotServing` leaves out tasks
  that a stop severed from their interrupt (section 5).
* `InputsFromAncestors`, `InputsFrozen`, `ReleasedOnce`: inputs are bound, used
  and released in separate commits of a scheduler that takes no lock, with
  retries, crashes and new versions in between. That the ancestor an input comes
  from is *still* completed is part of `InputsFromAncestors` only where calls do
  not overlap: with three specialists in a chain a stale scheduler may send a
  completed step back to `ready` (section 5).
* `StepsInOrder`, `SiblingsKept`, `AcceptedTogether`: order and agreement of
  task, plan and steps, over failures of any part of a wave and retries of it.
* `WaitingIsOwned`, `FreshAnswers`: the worker of an old Turn, and its late
  answers, against the new Turn of a retry.
* `CancelledHasNoPrompts`, `CancelCovers`: a cancellation is a transaction, then
  interrupts one by one, then the approvals; Turns end, ask and break meanwhile.
  `CancelCovers` is stated for behaviours without a crash (section 5). On record
  is a Turn whose interrupt is unconfirmed, which a repeated cancellation asks
  for again, and one whose execution failed with it over a lost connection, which
  nobody interrupts when a sibling makes the task wait again or a retry replaces
  the Turn before the cancellation (section 5). It speaks of every Turn, those of
  before a retry too.
* `SleepersWake`: the waiter of a prompt reads its status and sleeps in two steps,
  while a decision, a cancellation, an interrupted sibling and a shutdown resolve
  it. A prompt that the startup resolved is left out: nobody sets its event
  (section 5).
* `OneTurnInFlight`, `ActiveActionsDistinct`, `CancelledStays`: rest on the
  uniqueness of the event number alone; the mutant that drops it breaks each.
* `OneEffect`, `ConfirmedIsQueued`: a confirmation may be repeated, recovered and
  queued several times. The key of the Action makes the Task of a submission
  one; the other Actions look at the state they find. `OneEffect` does not speak
  of an Action that retries a task: it has no key and does its work again
  (section 5).
* `StartedTaskEnds`, `StartedPlanEnds`, `TurnsAreReported`: liveness. The first
  is about one task, whose drain picks nothing, so it says nothing of a node that
  the drain resumes (section 5). The last is about a task with one execution: with
  a sibling that fails the task, a Turn that is interrupted afterwards is reported
  to nobody, also when the task is retried (section 5).
* `LedgerCovers` and `NoIdleSlotServing` say what a stop leaves of the ledger and
  of the queue. An execution that a stop in the drain took out of the queue is in
  neither, and stays where it is (section 5).
* `NoCircularWait`: for every set of threads one waits for none of the set.

Fairness. In `TaskFlow` and `PlanFlow` the steps of every thread are weakly fair
(the operating system schedules it, and LangGraph returns), and every watched
Turn is weakly fairly reported (the App Server ends a Turn, or its loss is
reported by `wait_for_completion`). In `RuntimeTurns` the threads, a started
shutdown and the startup are weakly fair (`FairSpec`), and nothing else is: a
Turn may run, a prompt may stay and a connection may hold for ever;
`TurnsAreReported` begins where a Turn has ended. `SleepersWake` needs less,
that a worker which asks and waits is scheduled (`PromptSpec`); run `turn_two`
assumes no more. Clients are never fair. Liveness is checked where the known
defects cannot occur:

* `Cancellable` is empty, and Turns do not fail, in `task_ends`. With a
  cancellation or with a retry after a failed Turn TLC finds the deadlock of
  `locks_supervisor` in the composed model: the drain holds the graph lock and
  waits to watch, a completion holds the supervisor's lock and waits for the
  graph lock. With two slots, or submissions that fail, defects of section 5
  end the run.
* `plan_ends` has no cancellation, no crash, no submission that is refused or
  fails, and no overlapping calls; each of them breaks `StartedPlanEnds` by a
  defect of section 5. `StepsInOrder` and `AcceptedTogether` need only the last
  restriction (section 4).
* `turn` has no refused deliveries (with them `FreshAnswers` fails, section 5).

`CHECK_DEADLOCK FALSE` is used where the system may stop: in `TaskFlow`,
`Restart`, `PlanFlow`, `RuntimeTurns` and `Assistant` nothing happens any more
when the calls are used up and everything has ended.

The two mixes of `locks` are maximal in this sense: each handler of one added to
the other closes a circle. Pairs that deadlock with a fan-out: a completion with
plan, cancel, a failed Turn, an interrupted Turn or an Action that plans; an
Action that decides an approval with a decision, a cancel or an interrupted
Turn. An Action that submits, retries or cancels deadlocks by itself.

## 4. What is proved

Everything below holds for every number of executions, slots, tasks,
specialists, plans, Turns, messages, Actions, threads and calls: the theorems
assume of the constants what their modules' `ASSUME`s say, that placeholders
(`None`, `Client`, `Planner`, the roles) differ from what they stand beside,
limits are natural numbers, and a process restarts with at least one task in
its tables. Four groups assume more; section 5 says what happens without:

* the theorems of `PlanFlow` about `PlanInv` assume `~Overlapping`;
* one theorem of `RuntimeTurns` assumes `~Refusals`;
* those of `LockOrder` assume that the mixes can be ranked;
* the three about quiescence assume `Calm`, and `Roomy` or `Alone`. `Calm`:
  submissions wait or complete, Turns complete or are interrupted, no budget.
  `Roomy`: a slot for every execution (any tasks, any cancellations). `Alone`:
  one task that is never cancelled, with any number of specialists and slots.

| Theorem | Statement |
|---|---|
| `TypeCorrect`, `ConcurrencyBounded` | `CrashSpec => []TypeOK`, `CrashSpec => []ConcurrencyBound` |
| `LedgerAlwaysCovers`, `BudgetHoldsOverLosses` | `CrashSpec => []LedgerCovers`, `CrashSpec => []BudgetEdge` |
| `LedgerAlwaysBalanced`, `BudgetHolds` | `ControlSpec => []LedgerBalanced`, `ControlSpec => []BudgetEdge` |
| `ReleasesAreSettled`, `ChargesAreReleases` | `ControlSpec => ReleaseSettles`, `ControlSpec => ChargeOnRelease` |
| `OneSubmission`, `FlowImplementsControl` | `FlowSpec => []SubmitInv`, `FlowSpec => ControlSpec` |
| `FlowIsBounded` | `FlowSpec => [](ConcurrencyBound /\ LedgerBalanced /\ BudgetEdge)` |
| `CancelledStayQuiet` | `FlowSpec => []CancelledIsQuiet` |
| `FlowTypeCorrect`, `ReviewsFinishedWork` | `FlowSpec => []FlowTypeOK`, `FlowSpec => []ReviewAfterDelivery` |
| `CompletedIsAccepted`, `DeliveredIsKept` | `FlowSpec => []CompletedOnAcceptance`, `FlowSpec => DeliveredStays` |
| `RestartImplementsCrash` | `RestartSpec => CrashSpec` |
| `RestartIsBounded` | `RestartSpec => [](ConcurrencyBound /\ LedgerCovers /\ BudgetEdge)` |
| `RestartKeepsTasks`, `RestartKeepsDelivered` | `CancelledIsQuiet`, `ReviewAfterDelivery`, `CompletedOnAcceptance`, `DeliveredStays` of `RestartSpec` |
| `EveryTurnIsWatched`, `WaitingTasksWait`, `SlotsAreUsed` | `FlowSpec => []TurnsAreWatched`, `[]WaitingForSomething`, `[]NoIdleSlot` if `Calm` and (`Roomy` or `Alone`) |
| `PlanTypeCorrect`, `PlanInputsFrozen`, `PlanReleasedOnce` | `PlanTypeOK`, `InputsFrozen`, `ReleasedOnce`, whatever overlaps |
| `PlanInputsFromAncestors` | `InputsFromAncestors`, whatever overlaps |
| `PlanInvHolds`, `PlanAcceptedTogether` | `PlanInv`, `AcceptedTogether` if `~Overlapping` |
| `PlanStepsInOrder` | `Spec => StepsInOrder`, the refinement of `PlanOrder`, if `~Overlapping` |
| `PlanSiblingsKept` | `SiblingsKept` of a task that is not cancelled, if `~Overlapping` |
| `TurnTypeCorrect`, `NoExecutionIsLost` | `TurnTypeOK`, `WaitingIsOwned` |
| `RetriesAnswerAnew` | `FreshAnswers` if `~Refusals` |
| `NoPromptsAreLeft`, `CancellationIsComplete` | `CancelledHasNoPrompts`, `CancelCovers` |
| `AssistantTypeCorrect`, `OneAnswerAtOnce`, `OpenActionsDiffer` | `AssistantTypeOK`, `OneTurnInFlight`, `ActiveActionsDistinct` |
| `DoneOnce`, `ConfirmationIsKept`, `CancelledIsFinal` | `OneEffect`, `ConfirmedIsQueued`, `CancelledStays` |
| `LocksAreGivenBack` | `LockSpec => []LockTypeOK` |
| `RankedLocksNeverRing`, `HandlersNeverRing` | `NoCircularWait` for mixes with a ranking; for all parts of `CallMix` and `CompletionMix` |

### RuntimeControls

`LedgerBalanced` is not inductive. `HoldInv` adds that a slot holder has its
reservation and is not settled (so a release gives back exactly one) and that
the execution in submission is running; it holds under crashes too. `LedgerInv`
adds that nothing but the execution in submission is `running` and that nobody
without a slot has a reservation; a lost submission breaks exactly this. The
counting steps (`AdmitJoins`, `OutcomeLeaves`, `CancelLeaves`) say how each
transaction changes the set of slot holders, and `AdmitLedger`,
`OutcomeLedger`, `CancelLedger` how the counter follows. For `BudgetEdge` the
commitment of the owner, consumption plus reservations, is bounded by the limit
plus one excess for every slot that is *not* held (`CommitmentBound`): a release
turns a held slot into an excess, an admission has just been compared with the
limit.

Over losses (`CrashSpec`) the counter is not equal to anything simple: an
execution whose submission was lost is admitted again and reserves twice.
`CrashInv` counts over `Owing`, the executions whose row still has a reservation
to give back: the counter is at least one reservation for each of them
(`Covered`). An admission may add one to the counter and none to `Owing`, and
every release takes from both what the row holds. `Committed` is the budget bound
over this counter.

### TaskFlow and Restart

`FlowImplementsControl` rests on `SubmitInv`: at most one thread is in a
submission, and while it is, the lock is held. Then every step of `TaskFlow` is
one transaction of `RuntimeControls` or leaves its variables alone, and the
theorems above carry over to any number of tasks and threads.

`CancelledStayQuiet` needs to know whose nodes a thread runs: `CallsFit` says
that what a thread has still to run or to drain belongs to the task it serves.
`SlotStep` then shows that an admission is the only step that adds a slot
holder, and `NodeAdmitted` reads the status of that same task under the execution
lock. A step that makes a task cancelled takes the slots of its executions in the
same transaction. (`CancelledIsQuiet` holds even though the status may be
overwritten: a task that is no longer cancelled promises nothing.)

`ReviewAfterDelivery` speaks of rows, but rows are written from what a graph
believes: the outcomes in a thread's call, collected from nodes and copied from a
checkpoint, while other threads run the same graph and retries start it over.
A node returns when its execution completed *or its task is cancelled*, so what
is inductive is that a stage that lies behind is `Settled`, that is, delivered or
cancelled. `DeliveryInv` of `TaskDeliveryProofs` follows this through every place
it can be in: from the node to the call of its thread (`Superstep`), to the
checkpoint (`Graph`), and to the next thread that loads it (`Knows`). `Rows` says
what is then in the tables: a lead's execution only beyond delivered
specialists, a verdict only with a completed lead. `FlowInv` is this with the
types and `CompletedOnAcceptance`. `DeliveredStays` follows from it because the
only step that takes `completed` away is a retry of a refused review.

The quiescence theorems ask who waits for what at every other moment. `SteadyInv`
says it: a Turn is watched, or is in the list that the one thread serving its
task will hand to the supervisor when its call returns (`Waits`); a waiting task
has such an execution, or a thread that is about to make one (`Reaches`); at most
one thread serves a task, and it is the completion in progress or the call of the
client (`Stands`); and the superstep of that thread agrees with the checkpoint:
whoever of the stage it has not still to run is done or waits (`Runs`). A drain is
the hard step, because it resumes a graph whose interrupt it does not look up.
`QueueInv` says of one task that whoever queues stands behind full slots or is
about to be asked again by the resume, which runs every interrupted node of the
stage, and that a drain belongs to the last resume. So a drain finds nothing to
pick (`NothingToPick`): a task alone never needs it. With `Roomy` nobody ever
queues. Run `task_ends` is an instance of `Calm` and `Alone`. The hypotheses are
needed: section 5 lists what a failed submission, a failed Turn beside a sibling,
and two tasks that compete for a slot do to these properties.

`FlowInv` says nothing that needs a thread to exist. That is why it survives a
stop (`Crash` empties the threads, and a thread without a call satisfies every
part of it), and why the theorems of tasks hold over any number of stops. For
slots, a stop in a submission is `SubmissionLost` and any other leaves
`RuntimeControls` alone; the steps of the startup are steps of its own thread
`Starter`, hence of `FlowNext`.

### PlanFlow

Lemmas about `PlanShapes` come first: in a chain the ancestors of a step are the
steps before it, in a fan-out a review's ancestors are the specialists, and a
contract that a step consumes is initial or produced by an ancestor, because
`AcceptedPlan` searched for the producer. `PlanTypeCorrect`, `PlanInputsFrozen`
and `PlanReleasedOnce` need no more than types, and for the last that the
versions a user published are numbered by his inputs (`Numbered`): they hold
however calls overlap.

`InputsFromAncestors` holds however calls overlap, too, because it needs no
exclusion of threads. `SourceInv` speaks of one thread at a time: whatever a
thread carries through the scheduler, as work or as a step not yet finalized, has
an assignment, or the thread has bound that step's inputs itself and is about to
commit it (`Carries`, `Placed`); and what is bound is a version that the user or
an ancestor published (`Supplied`), which stays so as the store only grows. The
part that the ancestor is completed, of calls that do not overlap, is `TableInv`
below.

The rest needs `PlanInv`, whose parts say:

* `Serial`: without overlapping calls at most one thread is in a graph.
* `TableInv`: a completed step has a completed execution that was not refused;
  a step that has an assignment comes after completed steps and has its inputs
  bound; what is bound is a version of a completed ancestor or of the user; a
  refused execution has a step that failed or is blocked.
* `CheckInv`: the results in a checkpoint are those of the Turns that delivered,
  and an execution that waits is one its graph has not heard of (`WaitingFits`).
  `Ended` says what the status of the task promises of the rest.
* `ThreadInv`: what the thread in the graph has loaded, placed, finalized and
  still to do, at each place of the scheduler, fits the tables now; for what a
  session loaded before, which statuses it may still say of a step.

`SchedulerCall`, `ScheduleCall` and `FinalizeCall` carry the argument: for each
commit of the scheduler they list which steps have been placed and completed
and which remain. A crash between any two commits leaves a table that the next
retry starts from, and `RetryKeeps` shows that this start fits again.

For the refinement, `Progress` says that a step of the code begins steps of the
plan or completes one of them, and undoes none of it; the tables of the plan
then take one step of `PlanOrder` or stutter. `AcceptanceNext` shows that the
task is completed in one commit with the plan, and `Whole` that all steps are
completed by then.

`SiblingsKept` is about the end of a graph, and what is inductive says of every
stage before it whose deliveries are outstanding: a valid answer is delivered, or
its step is among those the graph, or the loop over a wave, has still to handle
(`Spared`). A refusal takes one step off that list and a linear stage has one
step to begin with (`Single`). The loop stops early only for a cancelled task, and
`DroppedStays` shows that a cancellation then stays, whoever runs on. That is why
`PlanSiblingsKept` excepts cancelled tasks, which run `plan_ends` has none of.

### RuntimeTurns

`FreshAnswers` and `WaitingIsOwned` are about three copies of one fact, the Turn
an execution waits for: the row, the adapter's session, and the worker.
`TurnInv` says for every Turn which sessions may be open for it and with which
events queued (`QueueInv`), for every
execution who attends its Turn (`OwnerInv`, `AttendedInv`: the submission, the
worker that has yet to report, or the shutdown that will), and that the Turn of
a row is the last that was begun (`BegunInv`, `SubmissionInv`). Prompts and
cancellations are `PromptsInv` (a prompt that pends in a cancelled task has a
call of `cancel` under way that has not come to it yet) and `CoverInv` (a Turn
that runs on in a cancelled task is recorded as unconfirmed or as failed, or still
on the list of a call, or just refused). What makes `CoverInv` inductive over
failures, late submissions and retries is `LiveInv`: before a cancellation, and
without a crash, a Turn that is in progress is the Turn of an execution that
submits it or waits for it, which a cancellation interrupts, or is named in a
failure. That the submission of a sibling may make a failed task wait again then
does no harm, because the failure stays on record.

### Assistant

`AssistantInv` orders the conversation. Turns are numbered without a gap
(`TurnsInOrder`) and one is in flight (`OneInFlight`), since the number is unique
and a message is refused while one is. `Generations` bounds the generation of the
Thread by the messages answered. `JobsFit`, `ToolsFit`, `ActsFit` and `StopsFit`
say what each place of a thread knows about its Turn or Action. The check of
`propose` and its insertion are two steps without a lock between them; what is
inductive is that a tool call found no open Action like its own and that there is
none while its copy of the conversation is current (`ToolsFit`): any event that
came between makes the insertion fail on its number.

### LockOrder

A handler is a sequence of sections of code. For each handler `Asks` is the set
of pairs of locks one of which it asks for while it holds the other, and a lemma
per handler shows that its sections ask for no other pair and give back what they
took (`Trace`). `LockInv` says of each thread that the rest of its sections is
such a trace from what it holds. If a rank grows along all pairs of a mix, the
thread of a ring that holds the highest lock would ask for a higher one
(`RankedLocksNeverRing`); `CallRank` and `CompletionRank` are ranks for the two
mixes of the run `locks`. That no rank exists for a completion beside a cancel is
what `locks_supervisor` shows.

### Model-checked only

* Liveness under fairness, out of reach of the prover: `StartedTaskEnds`,
  `StartedPlanEnds`, `SleepersWake`, `TurnsAreReported`.
* `NoIdleSlotServing` (run `restart`): `SlotsAreUsed` is its counterpart without
  stops. Over stops the invariant would have to follow several tasks through a
  startup that competes with their Turns.
* Quiescence outside `Calm` and `Roomy` or `Alone`: with several tasks that
  compete for slots `TurnsAreWatched` and `WaitingForSomething` fail (section 5).

## 5. Where code and documentation disagree

Two runs must end with a violation; `PROJECT.json` quotes the text.

* `locks_supervisor`: supervisor lock and graph lock are taken in both orders.
* `turn_silent` (`EveryEndReported`): a Turn that completes without a message of the agent makes
  `wait_for_completion` raise an error that the supervisor only records; its
  execution waits for ever, and so does the task.

The rest are remarks: behaviours of the code that the models show when a bound
is widened, each with the property it breaks or the exception it makes.

Legacy tasks (`TaskFlow`, `Restart`):

* A cancellation between a handler's load and its commit (`prepare_assignments`,
  `_finish_task`) is overwritten.
* A submission that returns after a sibling's Turn failed sets the failed task to
  `waiting` (`task_orchestrator.py:2670`; `RuntimeTurns` has what follows, below).
* A queued execution that the drain resumes and whose Turn waits meets its second
  `interrupt()` with the answer of the first, raises, and its Turn has no worker.
* The drain can pick a queued execution before its graph has written the
  interrupt: the end of another task's Turn frees a slot in between. The drain's
  resume then finds no interrupt, and the task waits for nothing
  (`WaitingForSomething` fails with two tasks and one slot, without a stop).
* With two specialists, a submission that fails or is rejected makes the graph
  raise beside the sibling's new Turn: the call does not return its list, and that
  Turn has no worker (`TurnsAreWatched` fails; so does `WaitingForSomething` once
  the task is submitted again). A Turn that fails ends the task while the
  sibling's Turn runs; if that one is then interrupted, its execution waits for
  nobody.
* A freed slot goes to whichever node or drain asks first, not to the oldest
  waiter as `src/README.md:143` says.
* A resume that raises skips the drain in `complete_runtime_execution`.
* An execution admitted again after a lost submission reserves a second time
  (`LedgerBalanced` fails, `LedgerCovers` holds), and its row keeps the slot
  until it is run again.
* A stop between the commit of `waiting` and LangGraph's write of the interrupt
  severs the task: no resume finds the interrupt (`Severed`). A stop between the
  drain's commit and its resume leaves a waiting task that waits for nothing.
* An Action that submits a task with two specialists holds the product lock
  while pool threads wait for it.

Planned tasks (`PlanFlow`):

* A retry's `run` invokes the graph without the graph lock, beside a worker's
  resume; two schedulers then act on one plan (`Overlapping = TRUE` breaks
  `StepsInOrder` and `AcceptedTogether`). In a chain of three specialists the
  stale session of one writes `ready` over a step the other completed.
* A wave with a failed and a blocked delivery leaves the plan `needs_revision`;
  the retried review finds no evidence, raises, and the task stays `running`.
* A refused or failed submission beside a waiting sibling leaves the sibling's
  Turn without a worker; a refused one fails the task and not its step or plan.
* A cancellation is overwritten by `_create_assignment`, `_fail_step` and
  `_record_planning_failure`, and `_complete_planning` stores a plan for a
  cancelled task.
* A stop between the commit of a completion and the resume of the graph leaves
  the task `waiting` with nothing to report.
* `plan` called again holds the execution lock while it watches; a completion
  holds the supervisor's lock and asks for the execution lock.
* The user may publish a new version of a contract that a step produced too, when
  the contract is also an initial input.

Turns (`RuntimeTurns`):

* A stop between the transaction of a cancellation and its interrupts leaves
  Turns running that are not recorded as unconfirmed (`CancelCovers` excludes
  it), and one between `turn/start` and the commit of its identities makes a
  second Turn.
* A Turn interrupted in a task that failed leaves its execution waiting for
  nobody (`WaitingIsOwned` excludes it).
* A delivery that the graph refused is returned again by `execute` when the
  retry comes before its worker closed the Turn (`FreshAnswers` fails with
  `Refusals = TRUE`).
* After a restart the supervisor's workers run before the startup is over. When a
  reattached Turn is found interrupted, its worker cancels the task; the startup's
  last step then resolves the prompt of a sibling that was reattached too, without
  setting its event (`approvals.py:201-233`, called at `main.py:171`), and
  the cancellation finds no prompt pending and wakes nobody
  (`approvals.py:247-271`). The sibling's worker sleeps until the shutdown
  (`SleepersWake` excludes it; without the exception run `turn_two` finds it).
* A node returns early for a cancelled task only (`task_orchestrator.py:2290`): in
  a task that a sibling failed it begins a Turn, and the task waits again
  (`2670-2671`). A client who cancels it then interrupts what runs or waits
  (`1047-1056`), and not the Turn of the failed execution, which goes on at the
  endpoint when only its connection was lost. The same holds of a Turn whose
  execution a retry reset (`721`) before the cancellation. Both are named in
  `runtime.execution_failed` and nowhere as unconfirmed.
* With two executions `TurnsAreReported` fails: one fails the task, the other is
  interrupted and waits for nobody, and a retry of the first makes the task wait.
  TLC finds it when run `turn` is given a second execution.
* A decision that was committed and not delivered before a stop is lost with it.
  A Turn lost while its worker sleeps on a prompt is noticed when the user
  decides. A shutdown answers open prompts with `cancel`.

Assistant:

* Any event appended to the conversation while a Turn is being submitted, a
  reply finished or an Action carried out makes that commit fail: the Turn is
  recorded as failed, a reply is lost, an Action with its effect done is
  recorded as failed, or is left `executing` until the next restart or
  confirmation.
* An interrupt that ends the Turn before `cancel_turn` commits records it as
  failed and then as cancelled. A tool call that was in the queue of a cancelled
  Turn still proposes its Action.
* A Turn submitted without identities, or any Turn without an endpoint, is not
  failed at startup; its conversation takes no message from then on.
* An Action `task.retry` has no key (`assistant.py:1978-1996`). When the process
  stops between the commits of `orchestrator.retry` and that of the Action
  (`1097`), or when the Action stays `executing` because that commit failed,
  `recover_incomplete_actions` (`main.py:173`) or the next confirmation retries
  the task again if it has failed meanwhile, which without an endpoint the startup
  itself sees to (`main.py:167`). `OneEffect` excludes such Actions.
* A submission whose planning round a stop cut off is planned again for the same
  Task (`1965-1972`); what the key makes one is the Task, not the round.

## 6. What is not modelled

* Provider capacity, bindings, feasibility: evaluated inside the admission
  transaction; the models have their only effect, a refusal (`Reject`,
  `NodeRejected`).
* Files: paths, media checks, copies and hashes of artifacts and attachments. A
  file that does not fit is one outcome of a delivery. A revocation of an
  attachment races the submission of its message; attachments are not modelled.
* App Server protocol: handshake, login, account reads, timeouts of one request,
  token accounting, and the sidecar that restarts the process.
* The assistant's read tools, the content of its Actions, the rendering of its
  replies.
* The numbering of a task's events (`services/events.py`), which no handler's
  outcome depends on in the models of tasks.
* Workspaces, organizations, authentication, migrations, schemas, error mapping:
  validation and storage of single rows or files by one request.
* The fake runtime is a test double; `Submissions` covers what it can do.
* Wording of events, prompts and summaries, model names: no property is about
  them.

## 7. Plan

The modules of section 2 exist, and what the runs check is proved but for what
section 4 lists under "Model-checked only". What is left for the prover:

1. `NoIdleSlotServing` over any number of stops.
2. Quiescence of several tasks that compete for slots, once the drain looks for
   the interrupt before it picks an execution.
