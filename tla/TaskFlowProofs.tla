--------------------------- MODULE TaskFlowProofs ---------------------------
(***************************************************************************)
(* TaskFlow for every set of tasks, any number of specialists and every    *)
(* kind of submission, report and verdict.                                 *)
(*                                                                         *)
(* Whatever the threads and the graphs do, each step is one transaction of *)
(* RuntimeControls or leaves it alone, so its theorems carry over.  The    *)
(* invariant behind that, SubmitInv, says that the place "submit" is the   *)
(* critical section of the execution lock.                                 *)
(*                                                                         *)
(* The second half: a cancelled task stays quiet, none of its executions   *)
(* holds a slot whatever threads still run its graph.  Only an admission   *)
(* adds a slot holder, and NodeAdmitted reads the status of the task that  *)
(* its thread serves.  What has to be shown is that this is the task of    *)
(* the execution: the nodes a thread has still to run belong to the task   *)
(* it serves (CallsFit), through every resume, stage and drain.            *)
(***************************************************************************)
EXTENDS TaskFlow, RuntimeControlsProofs

\* One thread at most is inside a submission, and it is the lock's holder.
SubmitInv ==
  /\ pc \in [Thread -> Place]
  /\ submitting \in Execution \cup {None}
  /\ \A x \in Thread : pc[x] = "submit" => submitting # None
  /\ \A x, y \in Thread : pc[x] = "submit" /\ pc[y] = "submit" => x = y

\* What is proved of every step: SubmitInv is kept, the step is a transaction.
Sound == SubmitInv' /\ (ControlNext \/ UNCHANGED controlVars)

-----------------------------------------------------------------------------
(* Steps of one thread.                                                    *)

\* The threads exist.
LEMMA ThreadNames ==
  /\ \A t \in Task : Api(t) \in Thread /\ Stopper(t) \in Thread
  /\ \A e \in Execution : Worker(e) \in Thread
BY DEF Thread

\* A thread that moves anywhere but into a submission keeps SubmitInv.
LEMMA MoveKeeps ==
  ASSUME SubmitInv, NEW x \in Thread, NEW place \in Place \ {"submit"},
         GoTo(x, place),
         UNCHANGED submitting \/ (pc[x] = "submit" /\ submitting' = None)
  PROVE  SubmitInv'
<1>1. pc' = [pc EXCEPT ![x] = place]  BY DEF GoTo
<1>2. pc' \in [Thread -> Place] /\ submitting' \in Execution \cup {None}
  BY <1>1 DEF SubmitInv
<1>3. \A y \in Thread : pc'[y] = "submit" => y # x /\ pc[y] = "submit"
  BY <1>1 DEF SubmitInv
<1>4. \A y \in Thread : pc'[y] = "submit" => submitting' # None
  BY <1>3 DEF SubmitInv
<1>. QED  BY <1>2, <1>3, <1>4 DEF SubmitInv

\* A step that moves no thread keeps SubmitInv.
LEMMA StandKeeps ==
  ASSUME SubmitInv, UNCHANGED <<pc, submitting>>
  PROVE  SubmitInv'
BY DEF SubmitInv

-----------------------------------------------------------------------------
(* run, replay, retry and cancel.                                          *)

\* The clients' calls and the steps of run are sound.
LEMMA ClientSteps ==
  ASSUME SubmitInv, NEW t \in Task,
         Submit(t) \/ RetryTask(t) \/ UserCancels(t) \/ ApiStep(t)
  PROVE  Sound
<1>. DEFINE x == Api(t)
<1>. x \in Thread /\ Stopper(t) \in Thread  BY ThreadNames
<1>1. CASE Submit(t)
  <2>1. GoTo(x, "load") /\ UNCHANGED controlVars  BY <1>1 DEF Submit
  <2>. QED  BY <2>1, MoveKeeps DEF Place, Sound, controlVars
<1>2. CASE RetryTask(t)
  <2>1. PICK S : Retry(S) /\ GoTo(x, "load")  BY <1>2 DEF RetryTask
  <2>2. S \in SUBSET Execution /\ UNCHANGED submitting  BY <2>1 DEF Retry
  <2>3. ControlNext  BY <2>1, <2>2 DEF ControlNext
  <2>. QED  BY <2>1, <2>2, <2>3, MoveKeeps DEF Place, Sound
<1>3. CASE UserCancels(t)
  <2>1. Cancel(ExecutionsOf(t)) /\ GoTo(Stopper(t), "drain")
    BY <1>3 DEF UserCancels, CancelTask
  <2>2. UNCHANGED submitting  BY <2>1 DEF Cancel
  <2>3. ExecutionsOf(t) \in SUBSET Execution  BY FlowAssumption DEF FlowAssumption
  <2>4. ControlNext  BY <2>1, <2>3 DEF ControlNext
  <2>. QED  BY <2>1, <2>2, <2>4, MoveKeeps DEF Place, Sound
<1>4. CASE LoadTask(t)
  <2>1. /\ UNCHANGED controlVars
        /\ \E place \in {"prepare", "invoke", "idle"} : GoTo(x, place)
    BY <1>4 DEF LoadTask
  <2>. QED  BY <2>1, MoveKeeps DEF Place, Sound, controlVars
<1>5. CASE PrepareAssignments(t)
  <2>1. PICK S : Create(S) /\ GoTo(x, "invoke")  BY <1>5 DEF PrepareAssignments
  <2>2. S \in SUBSET Execution /\ UNCHANGED submitting  BY <2>1 DEF Create
  <2>3. ControlNext  BY <2>1, <2>2 DEF ControlNext
  <2>. QED  BY <2>1, <2>2, <2>3, MoveKeeps DEF Place, Sound
<1>6. CASE Invoke(t)
  <2>1. /\ UNCHANGED controlVars
        /\ \E place \in {"returned", "nodes"} : GoTo(x, place)
    BY <1>6 DEF Invoke
  <2>. QED  BY <2>1, MoveKeeps DEF Place, Sound, controlVars
<1>. QED  BY <1>1, <1>2, <1>3, <1>4, <1>5, <1>6 DEF ApiStep

-----------------------------------------------------------------------------
(* The nodes.                                                              *)

\* What a node does before a submission is sound.
LEMMA NodeSteps ==
  ASSUME SubmitInv, NEW x \in Thread, NEW e \in Execution, NodeStep(x, e)
  PROVE  Sound
<1>1. CASE NodeReturns(x, e)
  <2>1. UNCHANGED controlVars /\ (UNCHANGED pc \/ GoTo(x, "review"))
    BY <1>1 DEF NodeReturns
  <2>. QED  BY <2>1, MoveKeeps, StandKeeps DEF Place, Sound, controlVars
<1>2. CASE NodeParks(x, e)
  <2>1. UNCHANGED controlVars /\ UNCHANGED pc  BY <1>2 DEF NodeParks
  <2>. QED  BY <2>1, StandKeeps DEF Sound, controlVars
<1>3. CASE NodeDefers(x, e)
  <2>1. Defer(e) /\ UNCHANGED pc  BY <1>3 DEF NodeDefers
  <2>2. UNCHANGED submitting /\ ControlNext  BY <2>1 DEF Defer, ControlNext
  <2>. QED  BY <2>1, <2>2, StandKeeps DEF Sound
<1>4. CASE NodeRejected(x, e)
  <2>1. Reject(e) /\ UNCHANGED pc  BY <1>4 DEF NodeRejected
  <2>2. UNCHANGED submitting /\ ControlNext  BY <2>1 DEF Reject, ControlNext
  <2>. QED  BY <2>1, <2>2, StandKeeps DEF Sound
<1>5. CASE NodeAdmitted(x, e)
  <2>1. Admit(e) /\ GoTo(x, "submit")  BY <1>5 DEF NodeAdmitted
  <2>2. LockFree /\ submitting' = e  BY <2>1 DEF Admit
  <2>3. pc' = [pc EXCEPT ![x] = "submit"]  BY <2>1 DEF GoTo
  <2>4. \A y \in Thread : pc[y] # "submit"  BY <2>2 DEF LockFree, SubmitInv
  <2>5. pc' \in [Thread -> Place]  BY <2>3 DEF SubmitInv, Place
  <2>6. \A y \in Thread : pc'[y] = "submit" => y = x
    BY <2>3, <2>4 DEF SubmitInv
  <2>7. e # None  BY ConstantsAssumption DEF ConstantsAssumption
  <2>8. ControlNext  BY <2>1 DEF ControlNext
  <2>. QED  BY <2>2, <2>5, <2>6, <2>7, <2>8 DEF SubmitInv, Sound
<1>6. CASE WriteOutcome(x, e)
  <2>1. UNCHANGED controlVars /\ UNCHANGED pc
    BY <1>6 DEF WriteOutcome, threadVars
  <2>. QED  BY <2>1, StandKeeps DEF Sound, controlVars
<1>. QED  BY <1>1, <1>2, <1>3, <1>4, <1>5, <1>6 DEF NodeStep

\* The three outcomes of a submission leave the critical section.
LEMMA SubmissionSteps ==
  ASSUME SubmitInv, NEW x \in Thread,
         SubmissionWaits(x) \/ SubmissionCompletes(x) \/ SubmissionFails(x)
  PROVE  Sound
<1>1. pc[x] = "submit"
  BY DEF SubmissionWaits, SubmissionCompletes, SubmissionFails
<1>2. submitting \in Execution  BY <1>1 DEF SubmitInv
<1>3. CASE SubmissionWaits(x)
  <2>1. SubmitWaiting(submitting) /\ GoTo(x, "nodes")  BY <1>3 DEF SubmissionWaits
  <2>2. submitting' = None  BY <2>1 DEF SubmitWaiting
  <2>3. ControlNext  BY <1>2, <2>1 DEF ControlNext
  <2>. QED  BY <1>1, <2>1, <2>2, <2>3, MoveKeeps DEF Place, Sound
<1>4. CASE SubmissionCompletes(x)
  <2>1. PICK usage \in Usage \cup {None} : SubmitCompleted(submitting, usage)
    BY <1>4 DEF SubmissionCompletes
  <2>2. \E place \in {"review", "nodes"} : GoTo(x, place)
    BY <1>4 DEF SubmissionCompletes
  <2>3. submitting' = None  BY <2>1 DEF SubmitCompleted
  <2>4. ControlNext  BY <1>2, <2>1 DEF ControlNext
  <2>. QED  BY <1>1, <2>2, <2>3, <2>4, MoveKeeps DEF Place, Sound
<1>5. CASE SubmissionFails(x)
  <2>1. SubmitFailed(submitting) /\ GoTo(x, "nodes")  BY <1>5 DEF SubmissionFails
  <2>2. submitting' = None  BY <2>1 DEF SubmitFailed
  <2>3. ControlNext  BY <1>2, <2>1 DEF ControlNext
  <2>. QED  BY <1>1, <2>1, <2>2, <2>3, MoveKeeps DEF Place, Sound
<1>. QED  BY <1>3, <1>4, <1>5

-----------------------------------------------------------------------------
(* The invocation, its end, and the drain.                                 *)

\* What LangGraph and the caller of invoke do is sound.
LEMMA GraphSteps ==
  ASSUME SubmitInv, NEW x \in Thread,
         \/ CreateReview(x) \/ Review(x) \/ EndSuperstep(x) \/ Raised(x)
         \/ Returned(x) \/ Finish(x) \/ Resume(x) \/ Drain(x)
  PROVE  Sound
<1>1. CASE CreateReview(x)
  <2>1. PICK S : Create(S) /\ UNCHANGED pc  BY <1>1 DEF CreateReview
  <2>2. S \in SUBSET Execution /\ UNCHANGED submitting  BY <2>1 DEF Create
  <2>3. ControlNext  BY <2>1, <2>2 DEF ControlNext
  <2>. QED  BY <2>1, <2>2, <2>3, StandKeeps DEF Sound
<1>2. CASE \/ Review(x) \/ EndSuperstep(x) \/ Raised(x) \/ Returned(x)
           \/ Finish(x) \/ Resume(x)
  <2>1. UNCHANGED controlVars
    BY <1>2 DEF Review, EndSuperstep, Raised, Returned, Finish, Resume
  <2>2. \E place \in Place \ {"submit"} : GoTo(x, place)
    BY <1>2 DEF Review, EndSuperstep, Raised, Returned, Finish, Resume, Leave,
                LeaveRaised, Place
  <2>. QED  BY <2>1, <2>2, MoveKeeps DEF Sound, controlVars
<1>3. CASE Drain(x)
  <2>1. \/ /\ \E e \in Eligible : Pick(e)
           /\ GoTo(x, "resume")
        \/ UNCHANGED controlVars /\ GoTo(x, "idle")
    BY <1>3 DEF Drain
  <2>2. UNCHANGED controlVars \/ ControlNext
    BY <2>1 DEF Eligible, DeferredSet, ControlNext
  <2>3. UNCHANGED submitting  BY <2>1 DEF Pick, controlVars
  <2>. QED  BY <2>1, <2>2, <2>3, MoveKeeps DEF Place, Sound
<1>. QED  BY <1>1, <1>2, <1>3

\* The three ends of a Turn are sound.
LEMMA ReportSteps ==
  ASSUME SubmitInv, NEW e \in Execution, ReportStep(e)
  PROVE  Sound
<1>. DEFINE x == Worker(e)
<1>. x \in Thread  BY ThreadNames
<1>1. CASE TurnCompletes(e)
  <2>1. PICK usage \in Usage \cup {None} : Complete(e, usage)
    BY <1>1 DEF TurnCompletes
  <2>2. \E place \in {"drain", "resume"} : GoTo(x, place)
    BY <1>1 DEF TurnCompletes
  <2>3. UNCHANGED submitting  BY <2>1 DEF Complete
  <2>4. ControlNext  BY <2>1 DEF ControlNext
  <2>. QED  BY <2>2, <2>3, <2>4, MoveKeeps DEF Place, Sound
<1>2. CASE TurnFails(e)
  <2>1. Fail(e) /\ GoTo(x, "drain")  BY <1>2 DEF TurnFails
  <2>2. UNCHANGED submitting /\ ControlNext  BY <2>1 DEF Fail, ControlNext
  <2>. QED  BY <2>1, <2>2, MoveKeeps DEF Place, Sound
<1>3. CASE TurnInterrupted(e)
  <2>. DEFINE t == TaskOf(e)
  <2>1. GoTo(x, "drain")  BY <1>3 DEF TurnInterrupted
  <2>2. UNCHANGED controlVars \/ Cancel(ExecutionsOf(t))
    BY <1>3 DEF TurnInterrupted, CancelTask
  <2>3. t \in Task  BY FlowAssumption DEF FlowAssumption, TaskOf
  <2>4. ExecutionsOf(t) \in SUBSET Execution
    BY <2>3, FlowAssumption DEF FlowAssumption
  <2>5. UNCHANGED controlVars \/ ControlNext  BY <2>2, <2>4 DEF ControlNext
  <2>6. UNCHANGED submitting  BY <2>2 DEF Cancel, controlVars
  <2>. QED  BY <2>1, <2>5, <2>6, MoveKeeps DEF Place, Sound
<1>. QED  BY <1>1, <1>2, <1>3 DEF ReportStep

-----------------------------------------------------------------------------
(* The theorems.                                                           *)

\* Every step of the system is sound.
LEMMA FlowStep == SubmitInv /\ [FlowNext]_vars => Sound
<1>1. ASSUME SubmitInv, UNCHANGED vars PROVE Sound
  <2>1. UNCHANGED controlVars /\ UNCHANGED <<pc, submitting>>
    BY <1>1 DEF vars, flowVars, threadVars, controlVars
  <2>. QED  BY <1>1, <2>1, StandKeeps DEF Sound
<1>2. ASSUME SubmitInv, NEW x \in Thread, ThreadStep(x) PROVE Sound
  <2>1. CASE \E e \in Execution : NodeStep(x, e)  BY <1>2, <2>1, NodeSteps
  <2>2. CASE SubmissionWaits(x) \/ SubmissionCompletes(x) \/ SubmissionFails(x)
    BY <1>2, <2>2, SubmissionSteps
  <2>3. CASE \/ CreateReview(x) \/ Review(x) \/ EndSuperstep(x) \/ Raised(x)
             \/ Returned(x) \/ Finish(x) \/ Resume(x) \/ Drain(x)
    BY <1>2, <2>3, GraphSteps
  <2>. QED  BY <1>2, <2>1, <2>2, <2>3 DEF ThreadStep
<1>3. ASSUME SubmitInv, FlowNext PROVE Sound
  BY <1>2, <1>3, ClientSteps, ReportSteps DEF FlowNext
<1>. QED  BY <1>1, <1>3

\* At most one thread is in a submission, whatever runs beside it.
THEOREM OneSubmission == FlowSpec => []SubmitInv
<1>1. FlowInit => SubmitInv  BY DEF FlowInit, ControlInit, SubmitInv, Place
<1>2. SubmitInv /\ [FlowNext]_vars => SubmitInv'  BY FlowStep DEF Sound
<1>. QED  BY <1>1, <1>2, PTL DEF FlowSpec

\* Every behaviour of the tasks is a behaviour of the admission control: no
\* handler moves an execution or a token outside its transactions.
THEOREM FlowImplementsControl == FlowSpec => ControlSpec
<1>1. FlowInit => ControlInit  BY DEF FlowInit
<1>2. SubmitInv /\ [FlowNext]_vars => [ControlNext]_controlVars
  BY FlowStep DEF Sound
<1>. QED  BY <1>1, <1>2, OneSubmission, PTL DEF FlowSpec, ControlSpec

\* However the threads of all the tasks interleave, the slot count holds and
\* the ledger balances.
THEOREM FlowIsBounded == FlowSpec => [](ConcurrencyBound /\ LedgerBalanced /\ BudgetEdge)
<1>1. ControlSpec => CrashSpec
  <2>1. [ControlNext]_controlVars => [CrashNext]_controlVars  BY DEF CrashNext
  <2>. QED  BY <2>1, PTL DEF ControlSpec, CrashSpec
<1>. QED
  BY <1>1, FlowImplementsControl, ConcurrencyBounded, LedgerAlwaysBalanced,
     BudgetHolds, PTL

-----------------------------------------------------------------------------
(* What a cancelled task still does.                                       *)

InGraph == {"nodes", "submit", "review"}

\* Thread x, seen from its call: the nodes it has to run are those of the task
\* it serves, and outside a superstep there are none.
Fits(x) ==
  /\ pc[x] \in InGraph => call[x].todo \subseteq ExecutionsOf(Serves(x))
  /\ pc[x] \notin InGraph => call[x].todo = {}
  /\ IsApi(x) => pc[x] \notin {"resume", "drain"} /\ x \notin draining
  /\ ~IsApi(x) => pc[x] \in {"idle", "drain"} \/ job[x] \in Execution

FlowTypes ==
  /\ taskStatus \in [Task -> TaskStatus]
  /\ checkpoint \in [Task -> Checkpoint]
  /\ call \in [Thread -> Call]
  /\ pc \in [Thread -> Place]
  /\ job \in [Thread -> Execution \cup {None}]

CallsFit == FlowTypes /\ \A x \in Thread : Fits(x)

\* What a step may do to tasks and slots.
Gentle ==
  /\ submitting' \in {submitting, None}
  /\ \A t \in Task : taskStatus'[t] = "cancelled" => taskStatus[t] = "cancelled"

-----------------------------------------------------------------------------
(* Data.                                                                   *)

\* Every execution has one task, which lists it.
LEMMA TaskOfType ==
  ASSUME NEW e \in Execution
  PROVE  TaskOf(e) \in Task /\ e \in ExecutionsOf(TaskOf(e))
BY FlowAssumption DEF FlowAssumption, TaskOf

\* The executions of a task are executions, and so are the nodes of a stage.
LEMMA MembersType ==
  ASSUME NEW t \in Task, NEW stage
  PROVE  /\ ExecutionsOf(t) \subseteq Execution
         /\ Members(t, stage) \subseteq ExecutionsOf(t)
<1>1. ExecutionsOf(t) \subseteq Execution  BY FlowAssumption DEF FlowAssumption
<1>2. Members(t, stage) \subseteq ExecutionsOf(t)  BY DEF Members, ExecutionsOf
<1>. QED  BY <1>1, <1>2

\* What an API thread serves.
LEMMA ApiServes ==
  ASSUME NEW x \in Thread, IsApi(x)
  PROVE  \E t \in Task : x = Api(t) /\ Serves(x) = t
<1>1. PICK t \in Task : x = Api(t)
  BY DEF Thread, IsApi, Stopper, Worker
<1>2. Serves(x) = t  BY <1>1 DEF Serves, IsApi, Api
<1>. QED  BY <1>1, <1>2

\* A thread that is somewhere in a graph serves a task.
LEMMA ServesType ==
  ASSUME CallsFit, NEW x \in Thread, pc[x] \notin {"idle", "drain"}
  PROVE  Serves(x) \in Task
<1>1. CASE IsApi(x)  BY <1>1, ApiServes
<1>2. CASE ~IsApi(x)
  <2>1. job[x] \in Execution  BY <1>2 DEF CallsFit, Fits
  <2>. QED  BY <1>2, <2>1, TaskOfType DEF Serves
<1>. QED  BY <1>1, <1>2

\* No call: nothing to run.
LEMMA NoCallType == NoCall \in Call /\ NoCall.todo = {}
BY DEF NoCall, Call, Stage

-----------------------------------------------------------------------------
(* How a thread moves.                                                     *)

\* Only thread x moves, so only x has to fit again.
LEMMA OneMoves ==
  ASSUME CallsFit, NEW x \in Thread, FlowTypes', Fits(x)',
         \A y \in Thread \ {x} :
            /\ pc'[y] = pc[y] /\ call'[y] = call[y] /\ job'[y] = job[y]
            /\ y \in draining' <=> y \in draining
  PROVE  CallsFit'
<1>1. \A y \in Thread \ {x} : Fits(y)'  BY DEF CallsFit, Fits, Serves
<1>. QED  BY <1>1 DEF CallsFit

\* In the call of x at most todo shrinks.
Narrows(x) ==
  /\ call' \in [Thread -> Call]
  /\ \A y \in Thread \ {x} : call'[y] = call[y]
  /\ call'[x].todo \subseteq call[x].todo

\* A node that ends is a node less to run.
LEMMA NodeEnds ==
  ASSUME call \in [Thread -> Call], NEW x \in Thread, NEW e \in Execution,
         NodeDone(x, e) \/ NodeRaises(x, e) \/ NodeInterrupts(x, e)
  PROVE  Narrows(x)
<1>1. CASE NodeDone(x, e)  BY <1>1 DEF NodeDone, Narrows, Call
<1>2. CASE NodeRaises(x, e)  BY <1>2 DEF NodeRaises, Narrows, Call
<1>3. CASE NodeInterrupts(x, e) /\ call[x].given # e
  BY <1>3 DEF NodeInterrupts, Narrows, Call
<1>. QED  BY <1>1, <1>2, <1>3 DEF NodeInterrupts

\* Inside a superstep a thread keeps its task.
LEMMA StaysInGraph ==
  ASSUME CallsFit, NEW x \in Thread, NEW place \in InGraph,
         pc[x] \in InGraph, pc' = [pc EXCEPT ![x] = place],
         Narrows(x), UNCHANGED <<checkpoint, job, draining>>,
         taskStatus' \in [Task -> TaskStatus]
  PROVE  CallsFit'
<1>1. FlowTypes'  BY DEF CallsFit, FlowTypes, Narrows, InGraph, Place
<1>2. Fits(x)'
  <2>1. pc'[x] \in InGraph  BY DEF CallsFit, FlowTypes
  <2>2. call'[x].todo \subseteq ExecutionsOf(Serves(x))
    BY DEF CallsFit, Fits, Narrows
  <2>3. Serves(x)' = Serves(x)  BY DEF Serves
  <2>4. IF IsApi(x) THEN x \notin draining ELSE job'[x] \in Execution
    BY DEF CallsFit, Fits, InGraph
  <2>. QED  BY <2>1, <2>2, <2>3, <2>4 DEF Fits, InGraph
<1>3. \A y \in Thread \ {x} : pc'[y] = pc[y] /\ call'[y] = call[y] /\ job'[y] = job[y]
  BY DEF CallsFit, FlowTypes, Narrows
<1>. QED  BY <1>1, <1>2, <1>3, OneMoves

\* A thread that has nothing to run goes anywhere but into a superstep.
LEMMA MovesOutside ==
  ASSUME CallsFit, NEW x \in Thread, NEW place \in Place \ InGraph,
         pc' = [pc EXCEPT ![x] = place],
         (call[x].todo = {} /\ UNCHANGED call) \/ call' = [call EXCEPT ![x] = NoCall],
         job' \in [Thread -> Execution \cup {None}],
         \A y \in Thread \ {x} :
            job'[y] = job[y] /\ (y \in draining' <=> y \in draining),
         IsApi(x) => place \notin {"resume", "drain"} /\ x \notin draining',
         ~IsApi(x) => place \in {"idle", "drain"} \/ job'[x] \in Execution,
         checkpoint' \in [Task -> Checkpoint],
         taskStatus' \in [Task -> TaskStatus]
  PROVE  CallsFit'
<1>1. call' \in [Thread -> Call] /\ call'[x].todo = {}
  BY NoCallType DEF CallsFit, FlowTypes
<1>2. FlowTypes'  BY <1>1 DEF CallsFit, FlowTypes
<1>3. pc'[x] = place  BY DEF CallsFit, FlowTypes
<1>4. Fits(x)'  BY <1>1, <1>3 DEF Fits
<1>5. \A y \in Thread \ {x} : pc'[y] = pc[y] /\ call'[y] = call[y] /\ job'[y] = job[y]
  BY DEF CallsFit, FlowTypes
<1>. QED  BY <1>2, <1>4, <1>5, OneMoves

\* A thread enters a superstep of the task it serves.
LEMMA EntersGraph ==
  ASSUME CallsFit, NEW x \in Thread, NEW c \in Checkpoint,
         NEW given \in Execution \cup {None}, NEW place \in {"nodes", "returned"},
         pc[x] \notin {"idle", "drain"}, Enter(x, Serves(x), c, given),
         place = "returned" => c.stage = "done",
         pc' = [pc EXCEPT ![x] = place], UNCHANGED <<job, draining, taskStatus>>,
         checkpoint' \in [Task -> Checkpoint]
  PROVE  CallsFit'
<1>. DEFINE t == Serves(x)
<1>1. t \in Task  BY ServesType
<1>2. Members(t, c.stage) \subseteq ExecutionsOf(t) /\ ExecutionsOf(t) \subseteq Execution
  BY <1>1, MembersType
<1>3. /\ call' \in [Thread -> Call]
      /\ \A y \in Thread \ {x} : call'[y] = call[y]
      /\ call'[x].todo = Members(t, c.stage) \ c.done
  <2>. HIDE DEF t
  <2>1. Members(t, c.stage) \ c.done \in SUBSET Execution  BY <1>2
  <2>2. call' = [call EXCEPT ![x] =
             [NoCall EXCEPT !.stage = c.stage, !.by = c.by, !.given = given,
                            !.todo = Members(t, c.stage) \ c.done]]
    BY DEF Enter, t
  <2>. QED  BY <2>1, <2>2 DEF CallsFit, FlowTypes, Call, Checkpoint, NoCall
<1>4. place = "returned" => call'[x].todo = {}
  BY <1>3 DEF Members
<1>5. FlowTypes'  BY <1>3 DEF CallsFit, FlowTypes, Place
<1>6. Fits(x)'
  <2>1. pc'[x] = place  BY DEF CallsFit, FlowTypes
  <2>2. Serves(x)' = Serves(x)  BY DEF Serves
  <2>3. IF IsApi(x) THEN x \notin draining ELSE job'[x] \in Execution
    BY DEF CallsFit, Fits
  <2>. QED  BY <1>2, <1>3, <1>4, <2>1, <2>2, <2>3 DEF Fits, InGraph
<1>7. \A y \in Thread \ {x} : pc'[y] = pc[y] /\ call'[y] = call[y] /\ job'[y] = job[y]
  BY <1>3 DEF CallsFit, FlowTypes
<1>. QED  BY <1>5, <1>6, <1>7, OneMoves

-----------------------------------------------------------------------------
(* The actions.                                                            *)

\* Setting a task to anything but cancelled.
LEMMA TaskSet ==
  ASSUME CallsFit, NEW t \in Task, NEW s \in TaskStatus \ {"cancelled"}, SetTask(t, s)
  PROVE  /\ taskStatus' \in [Task -> TaskStatus]
         /\ \A u \in Task : taskStatus'[u] = "cancelled" => taskStatus[u] = "cancelled"
BY DEF CallsFit, FlowTypes, SetTask

\* A node before its submission keeps the calls fit; only an admission is not
\* gentle.
LEMMA NodeQuiet ==
  ASSUME CallsFit, NEW x \in Thread, NEW e \in Execution, NodeStep(x, e)
  PROVE  CallsFit' /\ (Gentle \/ NodeAdmitted(x, e))
<1>. USE DEF RunsNode, NodeFrame
<1>0. Narrows(x) \/ ~UNCHANGED call  BY DEF CallsFit, FlowTypes, Narrows
<1>1. CASE NodeReturns(x, e)
  <2>1. \E place \in InGraph : pc' = [pc EXCEPT ![x] = place]
    BY <1>1 DEF NodeReturns, GoTo, InGraph, CallsFit, FlowTypes
  <2>2. Narrows(x)  BY <1>0, <1>1, NodeEnds DEF NodeReturns, CallsFit, FlowTypes
  <2>3. pc[x] \in InGraph /\ UNCHANGED <<checkpoint, job, draining, taskStatus, submitting>>
    BY <1>1 DEF NodeReturns, InGraph, taskVars, controlVars
  <2>4. taskStatus' \in [Task -> TaskStatus]  BY <2>3 DEF CallsFit, FlowTypes
  <2>. QED  BY <2>1, <2>2, <2>3, <2>4, StaysInGraph DEF Gentle
<1>2. CASE NodeParks(x, e)
  <2>1. pc' = [pc EXCEPT ![x] = "nodes"] /\ pc[x] = "nodes"
    BY <1>2 DEF NodeParks, CallsFit, FlowTypes
  <2>2. Narrows(x)  BY <1>2, NodeEnds DEF NodeParks, CallsFit, FlowTypes
  <2>3. UNCHANGED <<checkpoint, job, draining, taskStatus, submitting>>
    BY <1>2 DEF NodeParks, taskVars, controlVars
  <2>4. taskStatus' \in [Task -> TaskStatus]  BY <2>3 DEF CallsFit, FlowTypes
  <2>. QED  BY <2>1, <2>2, <2>3, <2>4, StaysInGraph DEF Gentle, InGraph
<1>3. CASE NodeDefers(x, e) \/ NodeRejected(x, e)
  <2>1. pc' = [pc EXCEPT ![x] = "nodes"] /\ pc[x] = "nodes"
    BY <1>3 DEF NodeDefers, NodeRejected, CallsFit, FlowTypes
  <2>2. Narrows(x)
    BY <1>3, NodeEnds DEF NodeDefers, NodeRejected, CallsFit, FlowTypes
  <2>3. UNCHANGED <<checkpoint, job, draining, submitting>>
    BY <1>3 DEF NodeDefers, NodeRejected, Defer, Reject
  <2>4. Serves(x) \in Task  BY <2>1, ServesType
  <2>5. /\ taskStatus' \in [Task -> TaskStatus]
        /\ \A u \in Task : taskStatus'[u] = "cancelled" => taskStatus[u] = "cancelled"
    BY <1>3, <2>4, TaskSet DEF NodeDefers, NodeRejected, TaskStatus, Terminal
  <2>. QED  BY <2>1, <2>2, <2>3, <2>5, StaysInGraph DEF Gentle, InGraph
<1>4. CASE NodeAdmitted(x, e)
  <2>1. pc' = [pc EXCEPT ![x] = "submit"] /\ pc[x] = "nodes"
    BY <1>4 DEF NodeAdmitted, GoTo
  <2>2. UNCHANGED <<checkpoint, job, draining, taskStatus>> /\ UNCHANGED call
    BY <1>4 DEF NodeAdmitted, taskVars
  <2>3. taskStatus' \in [Task -> TaskStatus]  BY <2>2 DEF CallsFit, FlowTypes
  <2>. QED  BY <1>0, <1>4, <2>1, <2>2, <2>3, StaysInGraph DEF InGraph
<1>5. CASE WriteOutcome(x, e)
  <2>. DEFINE t == Serves(x)
  <2>1. pc[x] \in InGraph /\ UNCHANGED <<taskStatus, pc, job, draining, submitting>>
    BY <1>5 DEF WriteOutcome, InGraph, taskVars, threadVars, controlVars
  <2>2. call' \in [Thread -> Call] /\ \A y \in Thread : call'[y].todo = call[y].todo
    BY <1>5 DEF WriteOutcome, CallsFit, FlowTypes, Call
  <2>3. checkpoint' \in [Task -> Checkpoint]
    <3>1. t \in Task  BY <2>1, ServesType DEF InGraph
    <3>2. \/ checkpoint' = checkpoint
          \/ checkpoint' = [checkpoint EXCEPT ![t].parked = @ \cup {e}]
          \/ checkpoint' = [checkpoint EXCEPT ![t].done = @ \cup {e}]
      BY <1>5 DEF WriteOutcome
    <3>. QED  BY <3>1, <3>2 DEF CallsFit, FlowTypes, Checkpoint
  <2>4. FlowTypes'  BY <2>1, <2>2, <2>3 DEF CallsFit, FlowTypes
  <2>5. \A y \in Thread : Fits(y)'  BY <2>1, <2>2 DEF CallsFit, Fits, Serves
  <2>. QED  BY <2>1, <2>4, <2>5 DEF CallsFit, Gentle
<1>. QED  BY <1>1, <1>2, <1>3, <1>4, <1>5 DEF NodeStep

\* The outcomes of a submission and the review stay in the superstep.
LEMMA SubmissionQuiet ==
  ASSUME CallsFit, SubmitInv, NEW x \in Thread,
         SubmissionWaits(x) \/ SubmissionCompletes(x) \/ SubmissionFails(x)
           \/ Review(x) \/ CreateReview(x)
  PROVE  CallsFit' /\ Gentle
<1>. USE DEF NodeFrame
<1>1. pc[x] \in InGraph
  BY DEF SubmissionWaits, SubmissionCompletes, SubmissionFails, Review,
         CreateReview, RunsNode, InGraph
<1>2. Serves(x) \in Task  BY <1>1, ServesType DEF InGraph
<1>3. Lead[Serves(x)] \in Execution  BY <1>2, FlowAssumption DEF FlowAssumption
<1>4. pc[x] = "submit" => submitting \in Execution  BY DEF SubmitInv
<1>5. \E place \in InGraph : pc' = [pc EXCEPT ![x] = place]
  BY <1>1 DEF SubmissionWaits, SubmissionCompletes, SubmissionFails, Review,
              CreateReview, GoTo, InGraph, CallsFit, FlowTypes
<1>6. UNCHANGED <<checkpoint, job, draining>>
  BY DEF SubmissionWaits, SubmissionCompletes, SubmissionFails, Review, CreateReview
<1>7. Narrows(x)
  <2>1. UNCHANGED call => Narrows(x)  BY DEF CallsFit, FlowTypes, Narrows
  <2>. QED
    BY <2>1, <1>3, <1>4, NodeEnds
       DEF SubmissionWaits, SubmissionCompletes, SubmissionFails, Review,
           CreateReview, CallsFit, FlowTypes
<1>8. submitting' \in {submitting, None}
  BY DEF SubmissionWaits, SubmissionCompletes, SubmissionFails, Review,
         CreateReview, Create, SubmitWaiting, SubmitCompleted, SubmitFailed, controlVars
<1>9. UNCHANGED taskStatus \/ \E s \in TaskStatus \ {"cancelled"} : SetTask(Serves(x), s)
  BY DEF SubmissionWaits, SubmissionCompletes, SubmissionFails, Review,
         CreateReview, taskVars, TaskStatus, Terminal
<1>10. /\ taskStatus' \in [Task -> TaskStatus]
       /\ \A u \in Task : taskStatus'[u] = "cancelled" => taskStatus[u] = "cancelled"
  BY <1>2, <1>9, TaskSet DEF CallsFit, FlowTypes
<1>. QED
  BY <1>1, <1>5, <1>6, <1>7, <1>8, <1>10, StaysInGraph DEF Gentle

\* Leaving a graph, by a return or by an exception.
LEMMA LeavesGraph ==
  ASSUME CallsFit, NEW x \in Thread, Leave(x) \/ LeaveRaised(x),
         checkpoint' \in [Task -> Checkpoint],
         taskStatus' \in [Task -> TaskStatus]
  PROVE  CallsFit'
<1>1. /\ call' = [call EXCEPT ![x] = NoCall]
      /\ job' = [job EXCEPT ![x] = None]
  BY DEF Leave, LeaveRaised
<1>2. /\ job' \in [Thread -> Execution \cup {None}]
      /\ \A y \in Thread \ {x} : job'[y] = job[y]
  BY <1>1 DEF CallsFit, FlowTypes
<1>3. \E place \in {"idle", "drain"} :
        /\ pc' = [pc EXCEPT ![x] = place]
        /\ IsApi(x) => place = "idle" \/ x \in draining
  BY DEF Leave, LeaveRaised, GoTo
<1>4. /\ \A y \in Thread \ {x} : y \in draining' <=> y \in draining
      /\ IsApi(x) => (x \in draining' <=> x \in draining)
  BY DEF Leave, LeaveRaised
<1>5. IsApi(x) => x \notin draining  BY DEF CallsFit, Fits
<1>. QED
  BY <1>1, <1>2, <1>3, <1>4, <1>5, MovesOutside DEF Place, InGraph

\* The end of a superstep keeps the calls fit.
LEMMA SuperstepQuiet ==
  ASSUME CallsFit, NEW x \in Thread, EndSuperstep(x)
  PROVE  CallsFit' /\ Gentle
<1>. DEFINE t == Serves(x)
            next == [stage |-> NextStage(call[x].stage), by |-> x,
                     done |-> {}, parked |-> {}]
<1>1. pc[x] = "nodes" /\ call[x].todo = {}  BY DEF EndSuperstep
<1>2. t \in Task  BY <1>1, ServesType
<1>3. UNCHANGED <<job, draining, taskStatus, submitting>>
  BY DEF EndSuperstep, taskVars, controlVars
<1>4. Gentle  BY <1>3 DEF Gentle
<1>5. IF IsApi(x) THEN x \notin draining ELSE job[x] \in Execution
  BY <1>1 DEF CallsFit, Fits
<1>6. ASSUME UNCHANGED graphVars, NEW place \in {"raised", "returned"}, GoTo(x, place)
      PROVE  CallsFit'
  <2>1. pc' = [pc EXCEPT ![x] = place] /\ UNCHANGED <<call, checkpoint>>
    BY <1>6 DEF GoTo, graphVars
  <2>. QED
    BY <1>1, <1>3, <1>5, <2>1, MovesOutside DEF Place, InGraph, CallsFit, FlowTypes
<1>7. ASSUME checkpoint' = [checkpoint EXCEPT ![t] = next],
             Enter(x, t, next, None),
             GoTo(x, IF next.stage = "done" THEN "returned" ELSE "nodes")
      PROVE  CallsFit'
  <2>1. next \in Checkpoint  BY DEF NextStage, Checkpoint, Stage
  <2>2. checkpoint' \in [Task -> Checkpoint]
    BY <1>7, <2>1 DEF CallsFit, FlowTypes
  <2>3. \E place \in {"nodes", "returned"} :
           /\ pc' = [pc EXCEPT ![x] = place]
           /\ place = "returned" => next.stage = "done"
    BY <1>7 DEF GoTo
  <2>. HIDE DEF next
  <2>. QED  BY <1>1, <1>3, <1>7, <2>1, <2>2, <2>3, EntersGraph
<1>. QED  BY <1>4, <1>6, <1>7 DEF EndSuperstep

\* What follows an invocation keeps the calls fit.
LEMMA ReturnQuiet ==
  ASSUME CallsFit, NEW x \in Thread, Raised(x) \/ Returned(x) \/ Finish(x)
  PROVE  CallsFit' /\ Gentle
<1>1. pc[x] \in {"raised", "returned", "finish"}
  BY DEF Raised, Returned, Finish
<1>2. Serves(x) \in Task  BY <1>1, ServesType
<1>3. submitting' = submitting  BY DEF Raised, Returned, Finish, controlVars
<1>4. UNCHANGED taskStatus \/ \E s \in TaskStatus \ {"cancelled"} : SetTask(Serves(x), s)
  BY DEF Raised, Returned, Finish, taskVars, TaskStatus, Terminal
<1>5. /\ taskStatus' \in [Task -> TaskStatus]
      /\ \A u \in Task : taskStatus'[u] = "cancelled" => taskStatus[u] = "cancelled"
  BY <1>2, <1>4, TaskSet DEF CallsFit, FlowTypes
<1>6. checkpoint' \in [Task -> Checkpoint]
  BY DEF Raised, Returned, Finish, CallsFit, FlowTypes
<1>7. CASE Leave(x) \/ LeaveRaised(x)
  BY <1>3, <1>5, <1>6, <1>7, LeavesGraph DEF Gentle
<1>8. CASE /\ \E place \in {"finish", "raised"} : GoTo(x, place)
           /\ UNCHANGED <<call, job, draining>>
  <2>1. call[x].todo = {}  BY <1>1 DEF CallsFit, Fits, InGraph
  <2>2. IF IsApi(x) THEN x \notin draining ELSE job[x] \in Execution
    BY <1>1 DEF CallsFit, Fits
  <2>. QED
    BY <1>3, <1>5, <1>6, <1>8, <2>1, <2>2, MovesOutside
       DEF GoTo, Gentle, Place, InGraph, CallsFit, FlowTypes
<1>. QED  BY <1>7, <1>8 DEF Raised, Returned, Finish, locks

\* A resume keeps the calls fit.
LEMMA ResumeQuiet ==
  ASSUME CallsFit, NEW x \in Thread, Resume(x)
  PROVE  CallsFit' /\ Gentle
<1>. DEFINE t == TaskOf(job[x])
<1>1. pc[x] = "resume" /\ ~IsApi(x) /\ job[x] \in Execution
  BY DEF Resume, CallsFit, Fits
<1>2. Serves(x) = t /\ t \in Task  BY <1>1, TaskOfType DEF Serves
<1>3. UNCHANGED <<taskStatus, checkpoint, submitting>>
  BY DEF Resume, taskVars, controlVars
<1>4. checkpoint[t] \in Checkpoint  BY <1>2 DEF CallsFit, FlowTypes
<1>5. \/ Leave(x) \/ LeaveRaised(x)
      \/ \E given \in Execution \cup {None}, place \in {"nodes", "returned"} :
            /\ Enter(x, Serves(x), checkpoint[t], given)
            /\ GoTo(x, place)
            /\ place = "returned" => checkpoint[t].stage = "done"
            /\ UNCHANGED <<job, draining>>
  BY <1>1, <1>2 DEF Resume
<1>6. CASE Leave(x) \/ LeaveRaised(x)
  BY <1>3, <1>6, LeavesGraph DEF Gentle, CallsFit, FlowTypes
<1>7. ASSUME NEW given \in Execution \cup {None}, NEW place \in {"nodes", "returned"},
             Enter(x, Serves(x), checkpoint[t], given), GoTo(x, place),
             place = "returned" => checkpoint[t].stage = "done",
             UNCHANGED <<job, draining>>
      PROVE  CallsFit' /\ Gentle
  BY <1>1, <1>3, <1>4, <1>7, EntersGraph DEF Gentle, GoTo, CallsFit, FlowTypes
<1>. QED  BY <1>5, <1>6, <1>7

\* A drain picks for a thread that has nothing to run.
LEMMA DrainQuiet ==
  ASSUME CallsFit, NEW x \in Thread, Drain(x)
  PROVE  CallsFit' /\ Gentle
<1>1. pc[x] = "drain" /\ ~IsApi(x) /\ call[x].todo = {}
  BY DEF Drain, CallsFit, Fits, InGraph
<1>2. UNCHANGED <<taskStatus, checkpoint, call>>
  BY DEF Drain, taskVars, graphVars
<1>3. submitting' = submitting  BY DEF Drain, Pick, controlVars
<1>4. \/ \E e \in Execution : job' = [job EXCEPT ![x] = e] /\ GoTo(x, "resume")
                              /\ UNCHANGED draining
      \/ GoTo(x, "idle") /\ draining' = draining \ {x} /\ UNCHANGED job
  BY DEF Drain, Eligible, DeferredSet
<1>5. CASE \E e \in Execution : job' = [job EXCEPT ![x] = e] /\ GoTo(x, "resume")
                                /\ UNCHANGED draining
  <2>1. PICK e \in Execution : job' = [job EXCEPT ![x] = e]  BY <1>5
  <2>2. /\ job' \in [Thread -> Execution \cup {None}]
        /\ job'[x] \in Execution
        /\ \A y \in Thread \ {x} : job'[y] = job[y]
    BY <2>1 DEF CallsFit, FlowTypes
  <2>3. pc' = [pc EXCEPT ![x] = "resume"] /\ UNCHANGED draining  BY <1>5 DEF GoTo
  <2>4. /\ checkpoint' \in [Task -> Checkpoint]
        /\ taskStatus' \in [Task -> TaskStatus]
    BY <1>2 DEF CallsFit, FlowTypes
  <2>. QED
    BY <1>1, <1>2, <1>3, <2>2, <2>3, <2>4, MovesOutside DEF Gentle, Place, InGraph
<1>6. CASE GoTo(x, "idle") /\ draining' = draining \ {x} /\ UNCHANGED job
  BY <1>1, <1>2, <1>3, <1>6, MovesOutside
     DEF Gentle, GoTo, Place, InGraph, CallsFit, FlowTypes
<1>. QED  BY <1>4, <1>5, <1>6

\* An idle thread has nothing to run.
LEMMA IdleFits ==
  ASSUME CallsFit, NEW x \in Thread, pc[x] \notin InGraph
  PROVE  call[x].todo = {} /\ (IsApi(x) => x \notin draining)
BY DEF CallsFit, Fits

\* Cancelling a task keeps the types.
LEMMA CancelTypes ==
  ASSUME CallsFit, NEW t \in Task, CancelTask(t)
  PROVE  taskStatus' \in [Task -> TaskStatus]
BY DEF CancelTask, SetTask, CallsFit, FlowTypes, TaskStatus, Terminal

\* The clients' calls and the steps of run; a cancellation is not gentle.
LEMMA ClientQuiet ==
  ASSUME CallsFit, NEW t \in Task,
         Submit(t) \/ RetryTask(t) \/ UserCancels(t) \/ ApiStep(t)
  PROVE  CallsFit' /\ (Gentle \/ CancelTask(t))
<1>. DEFINE x == Api(t)
            z == Stopper(t)
<1>1. x \in Thread /\ z \in Thread  BY ThreadNames
<1>2. IsApi(x) /\ ~IsApi(z) /\ Serves(x) = t
  BY DEF IsApi, Api, Stopper, Serves
<1>3. CASE Invoke(t)
  <2>. DEFINE first == [stage |-> "specialists", by |-> x, done |-> {}, parked |-> {}]
              loaded == IF checkpoint[t].stage = "none" THEN first ELSE checkpoint[t]
  <2>1. loaded \in Checkpoint
    BY <1>1 DEF Checkpoint, Stage, CallsFit, FlowTypes
  <2>2. checkpoint' = [checkpoint EXCEPT ![t] = loaded] /\ Enter(x, t, loaded, None)
    BY <1>3 DEF Invoke
  <2>3. checkpoint' \in [Task -> Checkpoint]
    BY <2>1, <2>2 DEF CallsFit, FlowTypes
  <2>4. pc[x] = "invoke" /\ UNCHANGED <<job, draining, taskStatus, submitting>>
    BY <1>3 DEF Invoke, taskVars, controlVars
  <2>5. \E place \in {"nodes", "returned"} :
           /\ pc' = [pc EXCEPT ![x] = place]
           /\ place = "returned" => loaded.stage = "done"
    BY <1>3 DEF Invoke, GoTo
  <2>. HIDE DEF loaded, x
  <2>6. CallsFit'  BY <1>1, <1>2, <2>1, <2>2, <2>3, <2>4, <2>5, EntersGraph
  <2>. QED  BY <2>4, <2>6 DEF Gentle
<1>4. CASE Submit(t) \/ RetryTask(t) \/ LoadTask(t) \/ PrepareAssignments(t)
  <2>1. pc[x] \notin InGraph /\ UNCHANGED <<checkpoint, call, job, draining, submitting>>
    BY <1>4 DEF Submit, RetryTask, LoadTask, PrepareAssignments, Retry, Create,
                graphVars, controlVars, InGraph
  <2>2. \E place \in {"load", "prepare", "invoke", "idle"} :
           pc' = [pc EXCEPT ![x] = place]
    BY <1>4 DEF Submit, RetryTask, LoadTask, PrepareAssignments, GoTo
  <2>3. UNCHANGED taskStatus \/ \E s \in TaskStatus \ {"cancelled"} : SetTask(t, s)
    BY <1>4 DEF Submit, RetryTask, LoadTask, PrepareAssignments, taskVars,
                TaskStatus, Terminal
  <2>4. /\ taskStatus' \in [Task -> TaskStatus]
        /\ \A u \in Task : taskStatus'[u] = "cancelled" => taskStatus[u] = "cancelled"
    BY <2>3, TaskSet DEF CallsFit, FlowTypes
  <2>5. job' \in [Thread -> Execution \cup {None}] /\ checkpoint' \in [Task -> Checkpoint]
    BY <2>1 DEF CallsFit, FlowTypes
  <2>6. call[x].todo = {} /\ x \notin draining  BY <1>1, <1>2, <2>1, IdleFits
  <2>. HIDE DEF x
  <2>7. CallsFit'
    BY <1>1, <1>2, <2>1, <2>2, <2>4, <2>5, <2>6, MovesOutside DEF Place, InGraph
  <2>. QED  BY <2>1, <2>4, <2>7 DEF Gentle
<1>5. CASE UserCancels(t)
  <2>1. pc[z] \notin InGraph /\ UNCHANGED <<checkpoint, call, job>> /\ CancelTask(t)
    BY <1>5 DEF UserCancels, graphVars, InGraph
  <2>2. pc' = [pc EXCEPT ![z] = "drain"] /\ draining' = draining \cup {z}
    BY <1>5 DEF UserCancels, GoTo
  <2>3. job' \in [Thread -> Execution \cup {None}] /\ checkpoint' \in [Task -> Checkpoint]
    BY <2>1 DEF CallsFit, FlowTypes
  <2>4. call[z].todo = {} /\ taskStatus' \in [Task -> TaskStatus]
    BY <1>1, <2>1, IdleFits, CancelTypes
  <2>. HIDE DEF z
  <2>. QED
    BY <1>1, <1>2, <2>1, <2>2, <2>3, <2>4, MovesOutside DEF Place, InGraph
<1>. QED  BY <1>3, <1>4, <1>5 DEF ApiStep

\* The ends of a Turn; an interruption may cancel the task.
LEMMA ReportQuiet ==
  ASSUME CallsFit, NEW e \in Execution, ReportStep(e)
  PROVE  CallsFit' /\ (Gentle \/ CancelTask(TaskOf(e)))
<1>. DEFINE x == Worker(e)
            t == TaskOf(e)
<1>1. x \in Thread /\ t \in Task  BY ThreadNames, TaskOfType
<1>2. ~IsApi(x)  BY DEF IsApi, Worker
<1>3. pc[x] \notin InGraph /\ UNCHANGED <<checkpoint, call>>
  BY DEF ReportStep, TurnCompletes, TurnFails, TurnInterrupted, graphVars, InGraph
<1>4. \/ /\ pc' = [pc EXCEPT ![x] = "drain"]
         /\ draining' = draining \cup {x} /\ UNCHANGED job
      \/ /\ pc' = [pc EXCEPT ![x] = "resume"]
         /\ job' = [job EXCEPT ![x] = e] /\ UNCHANGED draining
  BY DEF ReportStep, TurnCompletes, TurnFails, TurnInterrupted, GoTo
<1>5. \/ CancelTask(t)
      \/ /\ UNCHANGED taskStatus \/ SetTask(t, "failed")
         /\ submitting' = submitting
  BY DEF ReportStep, TurnCompletes, TurnFails, TurnInterrupted, Complete, Fail,
         controlVars
<1>6. /\ taskStatus' \in [Task -> TaskStatus]
      /\ Gentle \/ CancelTask(t)
  <2>1. CASE CancelTask(t)  BY <1>1, <2>1, CancelTypes
  <2>2. CASE (UNCHANGED taskStatus \/ SetTask(t, "failed")) /\ submitting' = submitting
    BY <1>1, <2>2, TaskSet DEF Gentle, TaskStatus, Terminal, CallsFit, FlowTypes
  <2>. QED  BY <1>5, <2>1, <2>2
<1>7. call[x].todo = {} /\ checkpoint' \in [Task -> Checkpoint]
  BY <1>1, <1>3, IdleFits DEF CallsFit, FlowTypes
<1>8. /\ job' \in [Thread -> Execution \cup {None}]
      /\ \A y \in Thread \ {x} : job'[y] = job[y]
      /\ pc'[x] = "drain" \/ job'[x] \in Execution
  BY <1>1, <1>4 DEF CallsFit, FlowTypes
<1>. HIDE DEF x
<1>9. CASE pc' = [pc EXCEPT ![x] = "drain"] /\ draining' = draining \cup {x}
  BY <1>1, <1>2, <1>3, <1>6, <1>7, <1>8, <1>9, MovesOutside DEF Place, InGraph
<1>10. CASE pc' = [pc EXCEPT ![x] = "resume"] /\ UNCHANGED draining
  <2>1. pc'[x] = "resume"  BY <1>1, <1>10 DEF CallsFit, FlowTypes
  <2>. QED
    BY <1>1, <1>2, <1>3, <1>6, <1>7, <1>8, <1>10, <2>1, MovesOutside
       DEF Place, InGraph
<1>. QED  BY <1>4, <1>6, <1>9, <1>10

-----------------------------------------------------------------------------
(* The theorem.                                                            *)

\* Every step keeps the calls fit; it is gentle, cancels or admits.
LEMMA QuietStep ==
  ASSUME CallsFit, SubmitInv, [FlowNext]_vars
  PROVE  /\ CallsFit'
         /\ \/ Gentle
            \/ \E t \in Task : CancelTask(t)
            \/ \E x \in Thread, e \in Execution : NodeAdmitted(x, e)
<1>1. CASE UNCHANGED vars
  BY <1>1 DEF vars, flowVars, controlVars, taskVars, graphVars, threadVars,
              CallsFit, FlowTypes, Fits, Serves, Gentle
<1>2. ASSUME NEW t \in Task,
             Submit(t) \/ RetryTask(t) \/ UserCancels(t) \/ ApiStep(t)
      PROVE  CallsFit' /\ (Gentle \/ CancelTask(t))
  BY <1>2, ClientQuiet
<1>3. ASSUME NEW x \in Thread, ThreadStep(x)
      PROVE  CallsFit' /\ (Gentle \/ \E e \in Execution : NodeAdmitted(x, e))
  <2>1. CASE \E e \in Execution : NodeStep(x, e)  BY <2>1, NodeQuiet
  <2>2. CASE SubmissionWaits(x) \/ SubmissionCompletes(x) \/ SubmissionFails(x)
               \/ Review(x) \/ CreateReview(x)
    BY <2>2, SubmissionQuiet
  <2>3. CASE EndSuperstep(x)  BY <2>3, SuperstepQuiet
  <2>4. CASE Raised(x) \/ Returned(x) \/ Finish(x)  BY <2>4, ReturnQuiet
  <2>5. CASE Resume(x) \/ Drain(x)  BY <2>5, ResumeQuiet, DrainQuiet
  <2>. QED  BY <1>3, <2>1, <2>2, <2>3, <2>4, <2>5 DEF ThreadStep
<1>4. ASSUME NEW e \in Execution, ReportStep(e)
      PROVE  CallsFit' /\ (Gentle \/ CancelTask(TaskOf(e)))
  BY <1>4, ReportQuiet
<1>. QED  BY <1>1, <1>2, <1>3, <1>4, TaskOfType DEF FlowNext

\* CancelledIsQuiet is kept: nobody joins the slot holders but through an
\* admission, and that is one for a task which is not cancelled.
LEMMA QuietKept ==
  ASSUME CancelledIsQuiet, CallsFit, SubmitInv, HoldInv, [FlowNext]_vars
  PROVE  CancelledIsQuiet'
<1>1. [ControlNext]_controlVars  BY FlowStep DEF Sound
<1>2. [CrashNext]_controlVars  BY <1>1 DEF CrashNext
<1>3. \/ ActiveSet' \subseteq ActiveSet
      \/ \E e \in Execution : Admit(e) /\ ActiveSet' = ActiveSet \cup {e}
  BY <1>2, SlotStep
<1>4. ASSUME NEW t \in Task PROVE ExecutionsOf(t) \subseteq Execution
  BY <1>4, MembersType
<1>5. CASE Gentle
  <2>1. ActiveSet' \subseteq ActiveSet
    BY <1>3, <1>5, ConstantsAssumption
       DEF Gentle, Admit, LockFree, ConstantsAssumption
  <2>2. \A e \in Execution : Active(e)' => Active(e)  BY <2>1 DEF ActiveSet
  <2>. QED  BY <1>4, <1>5, <2>2 DEF CancelledIsQuiet, Gentle
<1>6. ASSUME NEW t \in Task, CancelTask(t) PROVE CancelledIsQuiet'
  <2>1. ExecutionsOf(t) \in SUBSET Execution  BY <1>4
  <2>2. ActiveSet' = ActiveSet \ ExecutionsOf(t)
    BY <1>6, <2>1, CancelLeaves DEF CancelTask, HoldInv
  <2>3. \A u \in Task \ {t} : taskStatus'[u] = "cancelled" => taskStatus[u] = "cancelled"
    BY <1>6 DEF CancelTask, SetTask, CallsFit, FlowTypes
  <2>4. \A e \in Execution : Active(e)' => Active(e) /\ e \notin ExecutionsOf(t)
    BY <2>2 DEF ActiveSet
  <2>. QED  BY <1>4, <2>3, <2>4 DEF CancelledIsQuiet
<1>7. ASSUME NEW x \in Thread, NEW e \in Execution, NodeAdmitted(x, e)
      PROVE  CancelledIsQuiet'
  <2>. DEFINE t == Serves(x)
  <2>1. pc[x] = "nodes" /\ e \in call[x].todo /\ taskStatus[t] # "cancelled"
    BY <1>7 DEF NodeAdmitted, RunsNode
  <2>2. t \in Task  BY <2>1, ServesType
  <2>3. e \in ExecutionsOf(t)  BY <2>1 DEF CallsFit, Fits, InGraph
  <2>4. ActiveSet' = ActiveSet \cup {e} /\ UNCHANGED taskStatus
    BY <1>7, AdmitJoins DEF NodeAdmitted, taskVars, HoldInv
  <2>5. \A f \in Execution : Active(f)' => Active(f) \/ f = e
    BY <2>4 DEF ActiveSet
  <2>6. \A u \in Task : e \in ExecutionsOf(u) => u = t
    BY <2>2, <2>3, FlowAssumption DEF FlowAssumption
  <2>. HIDE DEF t
  <2>. QED  BY <1>4, <2>1, <2>4, <2>5, <2>6 DEF CancelledIsQuiet
<1>. QED  BY <1>5, <1>6, <1>7, QuietStep

\* Nothing has been called yet.
LEMMA QuietInit == FlowInit => CallsFit
<1>1. FlowInit => FlowTypes
  BY NoCallType, ThreadAssumption
     DEF FlowInit, FlowTypes, TaskStatus, Checkpoint, Stage, Place
<1>2. FlowInit => \A x \in Thread : Fits(x)
  BY NoCallType DEF FlowInit, Fits, InGraph
<1>. QED  BY <1>1, <1>2 DEF CallsFit

\* A cancelled task holds no slot, whatever still runs its graph: the status
\* that _execute_assignment reads under the execution lock is that of the task
\* whose assignment it admits.
THEOREM CancelledStayQuiet == FlowSpec => []CancelledIsQuiet
<1>1. FlowInit => CallsFit  BY QuietInit
<1>2. FlowInit => CancelledIsQuiet  BY DEF FlowInit, CancelledIsQuiet
<1>3. CallsFit /\ SubmitInv /\ [FlowNext]_vars => CallsFit'  BY QuietStep
<1>4. CancelledIsQuiet /\ CallsFit /\ SubmitInv /\ HoldInv /\ [FlowNext]_vars
        => CancelledIsQuiet'
  BY QuietKept
<1>5. ControlSpec => []HoldInv
  <2>1. ControlInv => HoldInv  BY DEF ControlInv, LedgerInv
  <2>. QED  BY <2>1, ControlInvariant, PTL
<1>. QED
  BY <1>1, <1>2, <1>3, <1>4, <1>5, OneSubmission, FlowImplementsControl, PTL
     DEF FlowSpec
=============================================================================
