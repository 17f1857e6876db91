------------------------------ MODULE TaskFlow ------------------------------
(***************************************************************************)
(* The life of legacy tasks in orchestration/task_orchestrator.py: API     *)
(* calls that run, retry and cancel a task, supervisor workers that report *)
(* the end of a Turn, and the capacity queue that joins the tasks of one   *)
(* owner.  Admission and the token ledger are those of RuntimeControls.    *)
(*                                                                         *)
(* A task fans out to its specialists and ends with the review of its      *)
(* lead (build_task_graph).  LangGraph runs one superstep of the graph in  *)
(* an invocation: every node of the step runs, its result or its interrupt *)
(* is then written to the latest checkpoint, and the invocation raises if  *)
(* a node raised, returns if a node is parked at an interrupt, and enters  *)
(* the next step otherwise.  An invocation works on what it loaded; run()  *)
(* invokes without the graph lock, a resume holds it.                      *)
(***************************************************************************)
EXTENDS RuntimeControls, Sequences

CONSTANTS
  Task,
  Specialists,  \* the specialist executions of a task, in role order
  Lead,         \* the execution of the task's lead review
  Submissions,  \* what a submission may do: see SubmissionKinds
  Reports,      \* how a Turn may end: see ReportKinds
  Verdicts,     \* what a lead may answer: see VerdictKinds
  Cancellable,  \* the tasks a user may cancel
  MaxCalls      \* bound on submit, replay and retry calls per task

SubmissionKinds == {"waiting", "completed", "failed", "rejected"}
ReportKinds == {"completed", "failed", "interrupted"}
VerdictKinds == {"accepted", "needs_revision", "invalid"}

SpecialistSet(t) == {Specialists[t][i] : i \in DOMAIN Specialists[t]}
ExecutionsOf(t) == SpecialistSet(t) \cup {Lead[t]}

ASSUME FlowAssumption ==
  /\ Specialists \in [Task -> Seq(Execution)]
  /\ Lead \in [Task -> Execution]
  /\ \A t \in Task : Lead[t] \notin SpecialistSet(t)
  /\ \A t, u \in Task : t # u => ExecutionsOf(t) \cap ExecutionsOf(u) = {}
  /\ Execution = UNION {ExecutionsOf(t) : t \in Task}
  /\ Submissions \subseteq SubmissionKinds
  /\ Reports \subseteq ReportKinds
  /\ Verdicts \subseteq VerdictKinds /\ None \notin VerdictKinds
  /\ Cancellable \subseteq Task
  /\ MaxCalls \in Nat

VARIABLES
  taskStatus,  \* Task.status; "planning" is never committed alone
  verdict,     \* the lead's answer, None before its execution completes
  badReview,   \* the lead's assignment is failed, its execution completed
  checkpoint,  \* the latest checkpoint of the task's graph
  call,        \* the invocation each thread is in
  pc,          \* where each thread is
  job,         \* the execution a thread resumes
  draining,    \* the threads inside _drain_capacity_waiters
  graphLock,   \* holder of _graph_resume_lock
  completing,  \* the worker that holds the supervisor's lock, over a completion
  watched,     \* executions whose Turn has a supervisor worker
  created,     \* executions by created_at
  calls        \* API calls made, for MaxCalls

taskVars == <<taskStatus, verdict, badReview>>
graphVars == <<checkpoint, call>>
locks == <<graphLock, completing>>
threadVars == <<pc, job, draining, locks>>
flowVars == <<taskVars, graphVars, threadVars, watched, created, calls>>
vars == <<controlVars, flowVars>>

Api(t) == <<"api", t>>        \* run or retry on behalf of a client
Worker(e) == <<"worker", e>>  \* CodexRuntimeSupervisor._wait_and_resume
Stopper(t) == <<"cancel", t>> \* cancel on behalf of a client

Thread == {Api(t) : t \in Task} \cup {Stopper(t) : t \in Task}
          \cup {Worker(e) : e \in Execution}

ASSUME ThreadAssumption == None \notin Thread

IsApi(x) == x[1] = "api"

TaskOf(e) == CHOOSE t \in Task : e \in ExecutionsOf(t)
Serves(x) == IF IsApi(x) THEN x[2] ELSE TaskOf(job[x])

Terminal == {"completed", "needs_revision", "failed", "cancelled"}
TaskStatus == {"created", "running", "waiting"} \cup Terminal

Stage == {"none", "specialists", "lead", "done"}
Place == {"idle", "load", "prepare", "invoke", "nodes", "submit", "review",
          "returned", "raised", "finish", "resume", "drain"}

Checkpoint == [stage : Stage, by : Thread \cup {None},
               done : SUBSET Execution, parked : SUBSET Execution]

\* todo: nodes still to run; fresh: nodes whose outcome is not written yet;
\* parked: nodes stopped at an interrupt; given: the node that was given a
\* resume value, so that its interrupt() returns instead of stopping.
Call == [stage : Stage, by : Thread \cup {None}, todo : SUBSET Execution,
         fresh : SUBSET Execution, parked : SUBSET Execution,
         raised : BOOLEAN, given : Execution \cup {None}]

NoCall == [stage |-> "none", by |-> None, todo |-> {}, fresh |-> {},
           parked |-> {}, raised |-> FALSE, given |-> None]

\* Types; whoever left the graph left its lock, and only a resume or a drain
\* concerns one execution.
FlowTypeOK ==
  /\ TypeOK
  /\ taskStatus \in [Task -> TaskStatus]
  /\ verdict \in [Task -> Verdicts \cup {None}]
  /\ badReview \in [Task -> BOOLEAN]
  /\ checkpoint \in [Task -> Checkpoint]
  /\ call \in [Thread -> Call]
  /\ pc \in [Thread -> Place]
  /\ job \in [Thread -> Execution \cup {None}]
  /\ draining \subseteq Thread
  /\ graphLock \in Thread \cup {None}
  /\ completing \in Thread \cup {None}
  /\ watched \subseteq Execution
  /\ created \in Seq(Execution)
  /\ calls \in [Task -> 0..MaxCalls]
  /\ \A x \in Thread : pc[x] \in {"idle", "drain"} =>
       graphLock # x /\ job[x] = None /\ (pc[x] = "idle" => completing # x)

FlowInit ==
  /\ ControlInit
  /\ taskStatus = [t \in Task |-> "created"]
  /\ verdict = [t \in Task |-> None]
  /\ badReview = [t \in Task |-> FALSE]
  /\ checkpoint = [t \in Task |->
                     [stage |-> "none", by |-> None, done |-> {}, parked |-> {}]]
  /\ call = [x \in Thread |-> NoCall]
  /\ pc = [x \in Thread |-> "idle"]
  /\ job = [x \in Thread |-> None]
  /\ draining = {}
  /\ graphLock = None
  /\ completing = None
  /\ watched = {}
  /\ created = <<>>
  /\ calls = [t \in Task |-> 0]

-----------------------------------------------------------------------------
(* Shared steps.                                                           *)

GoTo(x, place) == pc' = [pc EXCEPT ![x] = place]

SetTask(t, s) == taskStatus' = [taskStatus EXCEPT ![t] = s]

\* _watch_waiting_executions: every Turn of the task gets a worker, once no
\* other worker holds the supervisor's lock.
Watch(x, t) ==
  LET turns == {e \in ExecutionsOf(t) : status[e] = "waiting" /\ ~capacityWait[e]} IN
  /\ turns = {} \/ completing \in {x, None}
  /\ watched' = watched \cup turns

Members(t, stage) == CASE stage = "specialists" -> SpecialistSet(t)
                       [] stage = "lead" -> {Lead[t]}
                       [] OTHER -> {}

\* graph.invoke on checkpoint c: every node without a saved result runs again.
Enter(x, t, c, given) ==
  call' = [call EXCEPT ![x] =
             [NoCall EXCEPT !.stage = c.stage, !.by = c.by, !.given = given,
                            !.todo = Members(t, c.stage) \ c.done]]

\* The verdict a completed lead execution carries.
Answer(e) ==
  LET t == TaskOf(e) IN
  IF e = Lead[t]
  THEN \E v \in Verdicts : verdict' = [verdict EXCEPT ![t] = v]
  ELSE UNCHANGED verdict

\* A node of x ends: with a result, at interrupt(), or by raising.
NodeDone(x, e) ==
  call' = [call EXCEPT ![x].todo = @ \ {e}, ![x].fresh = @ \cup {e}]

NodeRaises(x, e) ==
  call' = [call EXCEPT ![x].todo = @ \ {e}, ![x].raised = TRUE]

NodeInterrupts(x, e) ==
  IF call[x].given = e
  THEN NodeRaises(x, e)
  ELSE call' = [call EXCEPT ![x].todo = @ \ {e}, ![x].fresh = @ \cup {e},
                            ![x].parked = @ \cup {e}]

Release(x) == graphLock' = IF graphLock = x THEN None ELSE graphLock

\* The end of a completion.
ReleaseSupervisor(x) == completing' = IF completing = x THEN None ELSE completing

\* A thread leaves an invocation, a resume or _finish_task.
Leave(x) ==
  /\ Release(x)
  /\ call' = [call EXCEPT ![x] = NoCall]
  /\ GoTo(x, IF IsApi(x) THEN "idle" ELSE "drain")
  /\ draining' = IF IsApi(x) THEN draining ELSE draining \cup {x}
  /\ job' = [job EXCEPT ![x] = None]
  /\ UNCHANGED completing

\* Mutant of LeaveRaised: the graph lock is not released by an exception.
LeaveRaisedLocked(x) ==
  /\ call' = [call EXCEPT ![x] = NoCall]
  /\ GoTo(x, IF x \in draining THEN "drain" ELSE "idle")
  /\ job' = [job EXCEPT ![x] = None]
  /\ UNCHANGED <<draining, locks>>

\* A thread is left by an exception: only a drain goes on after one.
LeaveRaised(x) ==
  /\ Release(x)
  /\ IF x \in draining
     THEN GoTo(x, "drain") /\ UNCHANGED completing
     ELSE GoTo(x, "idle") /\ ReleaseSupervisor(x)
  /\ call' = [call EXCEPT ![x] = NoCall]
  /\ job' = [job EXCEPT ![x] = None]
  /\ UNCHANGED draining

-----------------------------------------------------------------------------
(* run, replay and retry: the API thread.                                  *)

\* submit_task and its replays call run.
Submit(t) ==
  LET x == Api(t) IN
  /\ pc[x] = "idle"
  /\ calls[t] < MaxCalls
  /\ calls' = [calls EXCEPT ![t] = @ + 1]
  /\ GoTo(x, "load")
  /\ UNCHANGED <<controlVars, taskVars, graphVars, job, draining, locks,
                 watched, created>>

\* Mutant of RetryTask: delivered work starts over too.
RetryTaskAll(t) ==
  LET x == Api(t)
      failed == {e \in ExecutionsOf(t) : status[e] \in {"failed", "completed"}} IN
  /\ pc[x] = "idle"
  /\ calls[t] < MaxCalls
  /\ taskStatus[t] = "failed" /\ failed # {}
  /\ Retry(failed)
  /\ SetTask(t, "running")
  /\ badReview' = [badReview EXCEPT ![t] = FALSE]
  /\ calls' = [calls EXCEPT ![t] = @ + 1]
  /\ GoTo(x, "load")
  /\ UNCHANGED <<verdict, graphVars, job, draining, locks, watched, created>>

\* retry: the executions of failed assignments start over, then run.
RetryTask(t) ==
  LET x == Api(t)
      failed == {e \in ExecutionsOf(t) :
                   status[e] = "failed" \/ (e = Lead[t] /\ badReview[t])} IN
  /\ pc[x] = "idle"
  /\ calls[t] < MaxCalls
  /\ taskStatus[t] = "failed" /\ failed # {}
  /\ Retry(failed)
  /\ SetTask(t, "running")
  /\ verdict' = [verdict EXCEPT ![t] = IF Lead[t] \in failed THEN None ELSE @]
  /\ badReview' = [badReview EXCEPT ![t] = FALSE]
  /\ calls' = [calls EXCEPT ![t] = @ + 1]
  /\ GoTo(x, "load")
  /\ UNCHANGED <<graphVars, job, draining, locks, watched, created>>

\* run loads the task, without a lock.
LoadTask(t) ==
  LET x == Api(t) IN
  /\ pc[x] = "load"
  /\ \/ /\ taskStatus[t] = "created"
        /\ GoTo(x, "prepare")
        /\ UNCHANGED watched
     \/ /\ taskStatus[t] = "running"
        /\ GoTo(x, "invoke")
        /\ UNCHANGED watched
     \/ /\ taskStatus[t] = "waiting"
        /\ Watch(x, t)
        /\ GoTo(x, "idle")
     \/ /\ taskStatus[t] \in Terminal
        /\ GoTo(x, "idle")
        /\ UNCHANGED watched
  /\ UNCHANGED <<controlVars, taskVars, graphVars, job, draining, locks,
                 created, calls>>

\* prepare_assignments commits what it derived from the task it loaded.
PrepareAssignments(t) ==
  LET x == Api(t) IN
  /\ pc[x] = "prepare"
  /\ Create(SpecialistSet(t))
  /\ SetTask(t, "running")
  /\ created' = created \o Specialists[t]
  /\ GoTo(x, "invoke")
  /\ UNCHANGED <<verdict, badReview, graphVars, job, draining, locks,
                 watched, calls>>

\* run invokes the graph from its start or from the latest checkpoint.
Invoke(t) ==
  LET x == Api(t)
      first == [stage |-> "specialists", by |-> x, done |-> {}, parked |-> {}]
      loaded == IF checkpoint[t].stage = "none" THEN first ELSE checkpoint[t] IN
  /\ pc[x] = "invoke"
  /\ checkpoint' = [checkpoint EXCEPT ![t] = loaded]
  /\ Enter(x, t, loaded, None)
  /\ GoTo(x, IF loaded.stage = "done" THEN "returned" ELSE "nodes")
  /\ UNCHANGED <<controlVars, taskVars, job, draining, locks, watched,
                 created, calls>>

-----------------------------------------------------------------------------
(* _execute_assignment and _review_assignments: the nodes.                 *)

RunsNode(x, e) == pc[x] = "nodes" /\ e \in call[x].todo

NodeFrame == UNCHANGED <<checkpoint, job, draining, locks, watched, calls>>

\* The task is cancelled or the execution completed: the recorded result.
NodeReturns(x, e) ==
  LET t == Serves(x) IN
  /\ LockFree /\ RunsNode(x, e)
  /\ taskStatus[t] = "cancelled" \/ status[e] = "completed"
  /\ IF e = Lead[t]
     THEN GoTo(x, "review") /\ UNCHANGED call
     ELSE NodeDone(x, e) /\ UNCHANGED pc
  /\ NodeFrame
  /\ UNCHANGED <<controlVars, taskVars, created>>

\* prepare_lead_review inserts the review once every specialist delivered.
CreateReview(x) ==
  LET t == Serves(x) IN
  /\ LockFree /\ RunsNode(x, Lead[t])
  /\ taskStatus[t] # "cancelled" /\ status[Lead[t]] = "absent"
  /\ Create({Lead[t]})
  /\ created' = Append(created, Lead[t])
  /\ NodeFrame
  /\ UNCHANGED <<taskVars, pc, call>>

\* Mutant of NodeParks: the node of a failed execution returns.
NodeParksDone(x, e) ==
  /\ LockFree /\ RunsNode(x, e)
  /\ taskStatus[Serves(x)] # "cancelled"
  /\ status[e] = "failed" \/ (status[e] = "waiting" /\ ~capacityWait[e])
  /\ NodeDone(x, e)
  /\ NodeFrame
  /\ UNCHANGED <<controlVars, taskVars, created, pc>>

\* A failed execution asks for a retry, one with a Turn waits for it.
NodeParks(x, e) ==
  /\ LockFree /\ RunsNode(x, e)
  /\ taskStatus[Serves(x)] # "cancelled"
  /\ status[e] = "failed" \/ (status[e] = "waiting" /\ ~capacityWait[e])
  /\ NodeInterrupts(x, e)
  /\ NodeFrame
  /\ UNCHANGED <<controlVars, taskVars, created, pc>>

\* No slot: the execution queues and the node stops.
NodeDefers(x, e) ==
  /\ RunsNode(x, e)
  /\ taskStatus[Serves(x)] # "cancelled"
  /\ Defer(e)
  /\ SetTask(Serves(x), "waiting")
  /\ NodeInterrupts(x, e)
  /\ NodeFrame
  /\ UNCHANGED <<verdict, badReview, created, pc>>

\* Refused before submission.
NodeRejected(x, e) ==
  /\ RunsNode(x, e)
  /\ taskStatus[Serves(x)] # "cancelled"
  /\ "rejected" \in Submissions \/ (SlotFreeFor(e) /\ ~WithinBudget)
  /\ Reject(e)
  /\ SetTask(Serves(x), "failed")
  /\ NodeRaises(x, e)
  /\ NodeFrame
  /\ UNCHANGED <<verdict, badReview, created, pc>>

\* Mutant of NodeAdmitted: the task is not read again under the lock.
NodeAdmittedStale(x, e) ==
  /\ RunsNode(x, e)
  /\ Admit(e)
  /\ GoTo(x, "submit")
  /\ NodeFrame
  /\ UNCHANGED <<taskVars, call, created>>

\* Admitted: "running" is committed and the Runtime is called.
NodeAdmitted(x, e) ==
  /\ RunsNode(x, e)
  /\ taskStatus[Serves(x)] # "cancelled"
  /\ Admit(e)
  /\ GoTo(x, "submit")
  /\ NodeFrame
  /\ UNCHANGED <<taskVars, call, created>>

\* The Runtime accepted a Turn.
SubmissionWaits(x) ==
  /\ pc[x] = "submit" /\ "waiting" \in Submissions
  /\ SubmitWaiting(submitting)
  /\ SetTask(Serves(x), "waiting")
  /\ NodeInterrupts(x, submitting)
  /\ GoTo(x, "nodes")
  /\ NodeFrame
  /\ UNCHANGED <<verdict, badReview, created>>

\* The Runtime did the work at once.
SubmissionCompletes(x) ==
  LET e == submitting IN
  /\ pc[x] = "submit" /\ "completed" \in Submissions
  /\ \E usage \in Usage \cup {None} : SubmitCompleted(e, usage)
  /\ Answer(e)
  /\ IF e = Lead[Serves(x)]
     THEN GoTo(x, "review") /\ UNCHANGED call
     ELSE GoTo(x, "nodes") /\ NodeDone(x, e)
  /\ NodeFrame
  /\ UNCHANGED <<taskStatus, badReview, created>>

\* The Runtime raised.
SubmissionFails(x) ==
  /\ pc[x] = "submit" /\ "failed" \in Submissions
  /\ SubmitFailed(submitting)
  /\ SetTask(Serves(x), "failed")
  /\ NodeRaises(x, submitting)
  /\ GoTo(x, "nodes")
  /\ NodeFrame
  /\ UNCHANGED <<verdict, badReview, created>>

\* The lead's answer is validated: an invalid one fails assignment and task.
Review(x) ==
  LET t == Serves(x)
      invalid == taskStatus[t] # "cancelled" /\ verdict[t] = "invalid" IN
  /\ LockFree
  /\ pc[x] = "review"
  /\ IF invalid
     THEN /\ SetTask(t, "failed")
          /\ badReview' = [badReview EXCEPT ![t] = TRUE]
          /\ NodeRaises(x, Lead[t])
     ELSE /\ NodeDone(x, Lead[t])
          /\ UNCHANGED <<taskStatus, badReview>>
  /\ GoTo(x, "nodes")
  /\ NodeFrame
  /\ UNCHANGED <<controlVars, verdict, created>>

-----------------------------------------------------------------------------
(* LangGraph, as the orchestrator uses it.                                 *)

\* The outcome of a node is written to the checkpoint it was loaded from: an
\* older one is out of sight.  A result does not erase an interrupt.
WriteOutcome(x, e) ==
  LET t == Serves(x)
      latest == call[x].stage = checkpoint[t].stage /\ call[x].by = checkpoint[t].by IN
  /\ pc[x] \in {"nodes", "submit", "review"} /\ e \in call[x].fresh
  /\ call' = [call EXCEPT ![x].fresh = @ \ {e}]
  /\ checkpoint' =
       IF ~latest THEN checkpoint
       ELSE IF e \in call[x].parked
       THEN [checkpoint EXCEPT ![t].parked = @ \cup {e}]
       ELSE [checkpoint EXCEPT ![t].done = @ \cup {e}]
  /\ UNCHANGED <<controlVars, taskVars, threadVars, watched, created, calls>>

NextStage(stage) == IF stage = "specialists" THEN "lead" ELSE "done"

\* The superstep is over: raise, return with interrupts, or step on.
EndSuperstep(x) ==
  LET t == Serves(x)
      next == [stage |-> NextStage(call[x].stage), by |-> x,
               done |-> {}, parked |-> {}] IN
  /\ pc[x] = "nodes" /\ call[x].todo = {} /\ call[x].fresh = {}
  /\ \/ /\ call[x].raised
        /\ GoTo(x, "raised")
        /\ UNCHANGED graphVars
     \/ /\ ~call[x].raised /\ call[x].parked # {}
        /\ GoTo(x, "returned")
        /\ UNCHANGED graphVars
     \/ /\ ~call[x].raised /\ call[x].parked = {}
        /\ checkpoint' = [checkpoint EXCEPT ![t] = next]
        /\ Enter(x, t, next, None)
        /\ GoTo(x, IF next.stage = "done" THEN "returned" ELSE "nodes")
  /\ UNCHANGED <<controlVars, taskVars, job, draining, locks, watched,
                 created, calls>>

-----------------------------------------------------------------------------
(* What a thread does with the result of an invocation.                    *)

Raised(x) ==
  /\ pc[x] = "raised"
  /\ LeaveRaised(x)
  /\ UNCHANGED <<controlVars, taskVars, checkpoint, watched, created, calls>>

\* Mutant of Returned: a resume leaves without watching the new Turns.
ReturnedUnwatched(x) ==
  LET t == Serves(x)
      waits == IF IsApi(x) THEN taskStatus[t] = "waiting"
                           ELSE checkpoint[t].parked # {} IN
  /\ pc[x] = "returned"
  /\ IF waits
     THEN Leave(x)
     ELSE GoTo(x, "finish") /\ UNCHANGED <<call, job, draining, locks>>
  /\ UNCHANGED <<controlVars, taskVars, checkpoint, watched, created, calls>>

\* run watches the Turns of a waiting task, or finishes a reviewed one.  A
\* resume asks the checkpoint, not the task, whether a node is parked.
Returned(x) ==
  LET t == Serves(x)
      waits == IF IsApi(x) THEN taskStatus[t] = "waiting"
                           ELSE checkpoint[t].parked # {} IN
  /\ pc[x] = "returned"
  /\ \/ /\ waits
        /\ Watch(x, t) /\ Leave(x)
     \/ /\ ~waits /\ call[x].stage = "done" /\ taskStatus[t] # "cancelled"
        /\ GoTo(x, "finish")
        /\ UNCHANGED <<call, job, draining, locks, watched>>
     \/ /\ ~waits /\ call[x].stage = "done" /\ taskStatus[t] = "cancelled"
        /\ Leave(x) /\ UNCHANGED watched
     \/ /\ ~waits /\ call[x].stage # "done"
        /\ GoTo(x, "raised")
        /\ UNCHANGED <<call, job, draining, locks, watched>>
  /\ UNCHANGED <<controlVars, taskVars, checkpoint, created, calls>>

\* Mutant of Finish: the verdict is not read.
FinishUnread(x) ==
  /\ pc[x] = "finish"
  /\ SetTask(Serves(x), "completed")
  /\ Leave(x)
  /\ UNCHANGED <<controlVars, verdict, badReview, checkpoint, watched, created,
                 calls>>

\* _finish_task commits the verdict over the status it loaded in Returned.
Finish(x) ==
  LET t == Serves(x) IN
  /\ pc[x] = "finish"
  /\ SetTask(t, IF verdict[t] = "accepted" THEN "completed" ELSE "needs_revision")
  /\ Leave(x)
  /\ UNCHANGED <<controlVars, verdict, badReview, checkpoint, watched, created,
                 calls>>

-----------------------------------------------------------------------------
(* Resuming and draining.                                                  *)

\* _resume_runtime_interrupt.
Resume(x) ==
  LET t == TaskOf(job[x])
      c == checkpoint[t] IN
  /\ pc[x] = "resume" /\ graphLock = None
  /\ \/ /\ taskStatus[t] \in Terminal
        /\ Leave(x) /\ UNCHANGED watched
     \/ /\ taskStatus[t] \notin Terminal /\ job[x] \in c.parked
        /\ graphLock' = x
        /\ Enter(x, t, c, job[x])
        /\ GoTo(x, "nodes")
        /\ UNCHANGED <<job, draining, completing, watched>>
     \/ /\ taskStatus[t] \notin Terminal /\ c.stage = "done"
        /\ graphLock' = x
        /\ Enter(x, t, c, None)
        /\ GoTo(x, "returned")
        /\ UNCHANGED <<job, draining, completing, watched>>
     \/ /\ taskStatus[t] \notin Terminal /\ job[x] \notin c.parked
        /\ c.stage # "done" /\ c.parked # {}
        /\ Watch(x, t) /\ Leave(x)
     \/ /\ taskStatus[t] \notin Terminal /\ c.stage # "done" /\ c.parked = {}
        /\ LeaveRaised(x) /\ UNCHANGED watched
  /\ UNCHANGED <<controlVars, taskVars, checkpoint, created, calls>>

Eligible == {e \in DeferredSet : taskStatus[TaskOf(e)] = "waiting"}

Before(e, f) == \E i, j \in DOMAIN created : i < j /\ created[i] = e /\ created[j] = f

\* One turn of the loop in _drain_capacity_waiters.
Drain(x) ==
  /\ pc[x] = "drain" /\ LockFree
  /\ \/ \E e \in Eligible :
          /\ \A f \in Eligible \ {e} : Before(e, f)
          /\ Pick(e)
          /\ job' = [job EXCEPT ![x] = e]
          /\ GoTo(x, "resume")
          /\ UNCHANGED <<draining, completing>>
     \/ /\ ~SlotFree \/ Eligible = {}
        /\ GoTo(x, "idle")
        /\ draining' = draining \ {x}
        /\ ReleaseSupervisor(x)
        /\ UNCHANGED <<controlVars, job>>
  /\ UNCHANGED <<taskVars, graphVars, graphLock, watched, created, calls>>

-----------------------------------------------------------------------------
(* The end of a Turn, and cancellation.                                    *)

\* Mutant of TurnCompletes: the result is stored, the graph is not resumed.
TurnCompletesOnly(e) ==
  LET x == Worker(e) IN
  /\ "completed" \in Reports
  /\ pc[x] = "idle" /\ e \in watched
  /\ \E usage \in Usage \cup {None} : Complete(e, usage)
  /\ Answer(e)
  /\ watched' = watched \ {e}
  /\ GoTo(x, "drain") /\ draining' = draining \cup {x}
  /\ completing = None /\ completing' = x
  /\ UNCHANGED <<taskStatus, badReview, graphVars, job, graphLock, created, calls>>

\* complete_runtime_execution, called under the supervisor's lock.
TurnCompletes(e) ==
  LET x == Worker(e) IN
  /\ "completed" \in Reports
  /\ pc[x] = "idle" /\ e \in watched
  /\ \E usage \in Usage \cup {None} : Complete(e, usage)
  /\ Answer(e)
  /\ watched' = watched \ {e}
  /\ IF taskStatus[TaskOf(e)] \in Terminal
     THEN GoTo(x, "drain") /\ draining' = draining \cup {x} /\ UNCHANGED job
     ELSE GoTo(x, "resume") /\ job' = [job EXCEPT ![x] = e] /\ UNCHANGED draining
  /\ completing = None /\ completing' = x
  /\ UNCHANGED <<taskStatus, badReview, graphVars, graphLock, created, calls>>

\* fail_runtime_execution.
TurnFails(e) ==
  LET x == Worker(e) IN
  /\ "failed" \in Reports
  /\ pc[x] = "idle" /\ e \in watched
  /\ Fail(e)
  /\ SetTask(TaskOf(e), "failed")
  /\ watched' = watched \ {e}
  /\ GoTo(x, "drain") /\ draining' = draining \cup {x}
  /\ UNCHANGED <<verdict, badReview, graphVars, job, locks, created, calls>>

\* Mutant of CancelTask: the executions are cancelled, not settled.
CancelTaskUnsettled(t) ==
  /\ taskStatus[t] \notin Terminal
  /\ LockFree
  /\ status' = [e \in Execution |->
                  IF e \in ExecutionsOf(t) /\ status[e] \notin {"absent", "completed"}
                  THEN "cancelled" ELSE status[e]]
  /\ UNCHANGED <<capacityWait, ledger, submitting>>
  /\ SetTask(t, "cancelled")
  /\ watched' = watched \ ExecutionsOf(t)

\* Mutant of CancelTask: the task is not cancelled with its executions.
CancelTaskOpen(t) ==
  /\ taskStatus[t] \notin Terminal
  /\ Cancel(ExecutionsOf(t))
  /\ watched' = watched \ ExecutionsOf(t)
  /\ UNCHANGED taskStatus

\* _persist_task_cancellation, on an open task.
CancelTask(t) ==
  /\ taskStatus[t] \notin Terminal
  /\ Cancel(ExecutionsOf(t))
  /\ SetTask(t, "cancelled")
  /\ watched' = watched \ ExecutionsOf(t)

\* cancel_runtime_execution: an interrupted Turn cancels its task.  The
\* cancellation of a task that is already terminal changes nothing.
TurnInterrupted(e) ==
  LET x == Worker(e)
      t == TaskOf(e) IN
  /\ "interrupted" \in Reports
  /\ pc[x] = "idle" /\ e \in watched /\ LockFree
  /\ \/ CancelTask(t)
     \/ /\ taskStatus[t] \in Terminal
        /\ watched' = watched \ {e}
        /\ UNCHANGED <<controlVars, taskStatus>>
  /\ GoTo(x, "drain") /\ draining' = draining \cup {x}
  /\ UNCHANGED <<verdict, badReview, graphVars, job, locks, created, calls>>

\* cancel.
UserCancels(t) ==
  LET x == Stopper(t) IN
  /\ t \in Cancellable /\ pc[x] = "idle"
  /\ CancelTask(t)
  /\ GoTo(x, "drain") /\ draining' = draining \cup {x}
  /\ UNCHANGED <<verdict, badReview, graphVars, job, locks, created, calls>>

-----------------------------------------------------------------------------
ApiStep(t) ==
  LoadTask(t) \/ PrepareAssignments(t) \/ Invoke(t)

NodeStep(x, e) ==
  \/ NodeReturns(x, e) \/ NodeParks(x, e) \/ NodeDefers(x, e)
  \/ NodeRejected(x, e) \/ NodeAdmitted(x, e) \/ WriteOutcome(x, e)

ThreadStep(x) ==
  \/ \E e \in Execution : NodeStep(x, e)
  \/ CreateReview(x)
  \/ SubmissionWaits(x) \/ SubmissionCompletes(x) \/ SubmissionFails(x)
  \/ Review(x) \/ EndSuperstep(x) \/ Raised(x) \/ Returned(x) \/ Finish(x)
  \/ Resume(x) \/ Drain(x)

ReportStep(e) == TurnCompletes(e) \/ TurnFails(e) \/ TurnInterrupted(e)

FlowNext ==
  \/ \E t \in Task : Submit(t) \/ RetryTask(t) \/ UserCancels(t) \/ ApiStep(t)
  \/ \E x \in Thread : ThreadStep(x)
  \/ \E e \in Execution : ReportStep(e)

FlowSpec == FlowInit /\ [][FlowNext]_vars

\* Threads run on, and every Turn ends and is reported; no client has to call.
Fairness ==
  /\ \A t \in Task : WF_vars(ApiStep(t))
  /\ \A x \in Thread : WF_vars(ThreadStep(x))
  /\ \A e \in Execution : WF_vars(ReportStep(e))

FairSpec == FlowSpec /\ Fairness

-----------------------------------------------------------------------------
(* Properties.                                                             *)

\* The lead reviews finished work only: while its execution exists, every
\* specialist of the task is completed, through every retry and resume.
ReviewAfterDelivery ==
  \A t \in Task : status[Lead[t]] # "absent" =>
    \A e \in SpecialistSet(t) : status[e] = "completed"

\* A task is completed only on an accepted review of completed work.
CompletedOnAcceptance ==
  \A t \in Task : taskStatus[t] = "completed" =>
    /\ verdict[t] = "accepted"
    /\ \A e \in ExecutionsOf(t) : status[e] = "completed"

\* A cancelled task holds no slot and starts no Turn, whatever invocation of
\* its graph is still under way.
CancelledIsQuiet ==
  \A t \in Task : taskStatus[t] = "cancelled" =>
    \A e \in ExecutionsOf(t) : ~Active(e)

\* A delivered result is never worked on again; only a lead's invalid answer is.
DeliveredStays ==
  [][\A e \in Execution : status[e] = "completed" /\ status'[e] # "completed" =>
       e = Lead[TaskOf(e)] /\ badReview[TaskOf(e)]]_vars

Quiet == \A x \in Thread : pc[x] = "idle"

\* When nothing is going on, every Turn has somebody waiting for its end.
TurnsAreWatched ==
  Quiet => \A e \in Execution :
             status[e] = "waiting" /\ ~capacityWait[e] => e \in watched

\* When nothing is going on, no slot is free while somebody queues for one.
NoIdleSlot == Quiet => ~SlotFree \/ Eligible = {}

\* When nothing is going on, a waiting task waits for a Turn or for a slot.
WaitingForSomething ==
  Quiet => \A t \in Task : taskStatus[t] = "waiting" =>
             \E e \in ExecutionsOf(t) : status[e] = "waiting"

\* A task that was started ends: with a verdict, a failure or a cancellation.
StartedTaskEnds ==
  \A t \in Task : taskStatus[t] \in {"running", "waiting"} ~> taskStatus[t] \in Terminal

=============================================================================
