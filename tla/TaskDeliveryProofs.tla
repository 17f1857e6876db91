-------------------------- MODULE TaskDeliveryProofs --------------------------
(***************************************************************************)
(* What the graph delivers, for every set of tasks and any number of       *)
(* specialists: a lead reviews finished work only, a task is completed on  *)
(* an accepted review only, and delivered work is not done again.          *)
(*                                                                         *)
(* A node returns when its execution completed or its task is cancelled,   *)
(* so a stage that is behind (Past) is delivered or cancelled.  That has   *)
(* to be followed from the node through the call of its thread, the        *)
(* outcome written to a checkpoint, and the next load of that checkpoint,  *)
(* while other threads run the same graph.  The exceptions are the two     *)
(* steps that commit over a cancellation: PrepareAssignments, before the   *)
(* graph starts, and Finish, once everything is delivered.                 *)
(*                                                                         *)
(* The second half is about who waits for what (SteadyInv, QueueInv): when *)
(* no thread is inside the backend, every Turn has a worker, every waiting *)
(* task waits for a Turn or a slot, and no slot is free over a queue.  It  *)
(* assumes that submissions and Turns do not fail (Calm) and that tasks do *)
(* not compete for slots (Roomy), or that there is one (Alone).            *)
(***************************************************************************)
EXTENDS TaskFlowProofs

\* Why the node of e may have returned.
Settled(t, e) == status[e] = "completed" \/ taskStatus[t] = "cancelled"

Past(t) == \A e \in SpecialistSet(t) : Settled(t, e)

Delivered(t) == \A e \in SpecialistSet(t) : status[e] = "completed"

\* The rows of a task.
Rows(t) ==
  /\ status[Lead[t]] # "absent" => Delivered(t)
  /\ verdict[t] # None => status[Lead[t]] = "completed"

\* The latest checkpoint of a task, and the thread that may start its graph.
Graph(t) ==
  LET c == checkpoint[t] IN
  /\ c.stage \in {"lead", "done"} => Past(t)
  /\ c.stage = "specialists" =>
       \A e \in SpecialistSet(t) \cap c.done : Settled(t, e)
  /\ c.stage \in {"none", "done"} => c.parked = {}
  /\ taskStatus[t] = "created" \/ pc[Api(t)] = "prepare" => c.stage = "none"
  /\ pc[Api(t)] = "invoke" => taskStatus[t] # "created"

\* A superstep: outcomes that are not interrupts are those of settled work.
Superstep(x) ==
  LET t == Serves(x)
      i == call[x] IN
  /\ i.stage \in {"specialists", "lead"}
  /\ i.todo \subseteq Members(t, i.stage)
  /\ i.stage = "lead" => Past(t)
  /\ i.stage = "specialists" =>
       \A e \in SpecialistSet(t) :
          \/ ~i.raised /\ e \notin i.todo \cup i.parked
          \/ e \in i.fresh \ i.parked
          => Settled(t, e)

\* What a thread knows of the task it serves.
Knows(x) ==
  LET t == Serves(x) IN
  /\ pc[x] \in InGraph => Superstep(x)
  /\ pc[x] \in InGraph \cup {"returned", "finish"} => checkpoint[t].stage # "none"
  /\ pc[x] = "submit" => taskStatus[t] # "cancelled"
  /\ pc[x] = "returned" /\ call[x].stage = "done" => Past(t)
  /\ pc[x] = "finish" => Delivered(t)

RowsInv == \A t \in Task : Rows(t)

GraphInv == (\A t \in Task : Graph(t)) /\ (\A x \in Thread : Knows(x))

DeliveryInv == RowsInv /\ GraphInv

-----------------------------------------------------------------------------
(* Types.                                                                  *)

\* What FlowTypeOK says beyond FlowTypes and the types of the rows: data, ...
DataTypes ==
  /\ verdict \in [Task -> Verdicts \cup {None}]
  /\ badReview \in [Task -> BOOLEAN]
  /\ watched \subseteq Execution
  /\ created \in Seq(Execution)
  /\ calls \in [Task -> 0..MaxCalls]

\* ... and locks.
LockTypes ==
  /\ draining \subseteq Thread
  /\ graphLock \in Thread \cup {None}
  /\ completing \in Thread \cup {None}

\* What thread x holds: nothing when it is idle or runs for a client, and a drain
\* is no resume.
Holds(x) ==
  /\ pc[x] \in {"idle", "drain"} \/ IsApi(x) => graphLock # x /\ job[x] = None
  /\ pc[x] = "idle" \/ IsApi(x) => completing # x

HolderInv == DataTypes /\ LockTypes /\ \A x \in Thread : Holds(x)

LEMMA TypesJoin ==
  ASSUME TypeOK, FlowTypes, HolderInv
  PROVE  FlowTypeOK
BY DEF FlowTypeOK, FlowTypes, HolderInv, DataTypes, LockTypes, Holds

\* A lead's answer is a verdict.
LEMMA AnswerTypes ==
  ASSUME DataTypes, NEW e \in Execution, Answer(e)
  PROVE  verdict' \in [Task -> Verdicts \cup {None}]
BY TaskOfType DEF Answer, DataTypes

\* The data keep their types.
LEMMA DataStep ==
  ASSUME CallsFit, SubmitInv, DataTypes, [FlowNext]_vars
  PROVE  DataTypes'
<1>1. CASE UNCHANGED vars
  BY <1>1 DEF vars, flowVars, taskVars, DataTypes
<1>2. ASSUME NEW t \in Task, Submit(t) \/ RetryTask(t)
      PROVE  DataTypes'
  <2>1. calls' \in [Task -> 0..MaxCalls]
    <3>1. calls[t] < MaxCalls /\ calls' = [calls EXCEPT ![t] = @ + 1]
      BY <1>2 DEF Submit, RetryTask
    <3>2. MaxCalls \in Nat  BY FlowAssumption DEF FlowAssumption
    <3>3. calls[t] + 1 \in 0..MaxCalls  BY <3>1, <3>2 DEF DataTypes
    <3>. QED  BY <3>1, <3>3 DEF DataTypes
  <2>2. /\ verdict' \in [Task -> Verdicts \cup {None}]
        /\ badReview' \in [Task -> BOOLEAN]
    BY <1>2 DEF Submit, RetryTask, DataTypes, taskVars
  <2>. QED  BY <1>2, <2>1, <2>2 DEF Submit, RetryTask, DataTypes
<1>3. ASSUME NEW t \in Task, UserCancels(t) \/ Invoke(t)
      PROVE  DataTypes'
  BY <1>3 DEF UserCancels, CancelTask, Invoke, DataTypes, taskVars
<1>4. ASSUME NEW t \in Task, LoadTask(t)
      PROVE  DataTypes'
  BY <1>4, MembersType DEF LoadTask, Watch, DataTypes, taskVars
<1>5. ASSUME NEW t \in Task, PrepareAssignments(t)
      PROVE  DataTypes'
  <2>1. Specialists[t] \in Seq(Execution)  BY FlowAssumption DEF FlowAssumption
  <2>2. created' \in Seq(Execution)  BY <1>5, <2>1 DEF PrepareAssignments, DataTypes
  <2>. QED  BY <1>5, <2>2 DEF PrepareAssignments, DataTypes
<1>6. ASSUME NEW x \in Thread, NEW e \in Execution, NodeStep(x, e)
      PROVE  DataTypes'
  BY <1>6 DEF NodeStep, NodeReturns, NodeParks, NodeDefers, NodeRejected, NodeAdmitted,
              WriteOutcome, NodeFrame, DataTypes, taskVars
<1>7. ASSUME NEW x \in Thread, CreateReview(x)
      PROVE  DataTypes'
  <2>1. pc[x] = "nodes" /\ created' = Append(created, Lead[Serves(x)])
    BY <1>7 DEF CreateReview, RunsNode
  <2>2. Serves(x) \in Task  BY <2>1, ServesType
  <2>3. Lead[Serves(x)] \in Execution  BY <2>2, FlowAssumption DEF FlowAssumption
  <2>. QED  BY <1>7, <2>1, <2>3 DEF CreateReview, NodeFrame, DataTypes, taskVars
<1>8. ASSUME NEW x \in Thread,
             SubmissionWaits(x) \/ SubmissionCompletes(x) \/ SubmissionFails(x)
      PROVE  DataTypes'
  <2>1. submitting \in Execution
    BY <1>8 DEF SubmissionWaits, SubmissionCompletes, SubmissionFails, SubmitInv
  <2>2. verdict' \in [Task -> Verdicts \cup {None}]
    BY <1>8, <2>1, AnswerTypes
       DEF SubmissionWaits, SubmissionCompletes, SubmissionFails, DataTypes
  <2>. QED
    BY <1>8, <2>2 DEF SubmissionWaits, SubmissionCompletes, SubmissionFails, NodeFrame,
                      DataTypes
<1>9. ASSUME NEW x \in Thread, Review(x)
      PROVE  DataTypes'
  BY <1>9 DEF Review, NodeFrame, DataTypes
<1>10. ASSUME NEW x \in Thread,
              EndSuperstep(x) \/ Raised(x) \/ Finish(x) \/ Drain(x)
      PROVE  DataTypes'
  BY <1>10 DEF EndSuperstep, Raised, Finish, Drain, DataTypes, taskVars
<1>11. ASSUME NEW x \in Thread, Returned(x) \/ Resume(x)
      PROVE  DataTypes'
  <2>1. UNCHANGED <<taskVars, created, calls>>  BY <1>11 DEF Returned, Resume
  <2>2. UNCHANGED watched \/ \E t \in Task : Watch(x, t)
    <3>1. CASE Returned(x)
      <4>1. Serves(x) \in Task  BY <3>1, ServesType DEF Returned
      <4>. QED  BY <3>1, <4>1 DEF Returned
    <3>2. CASE Resume(x)
      <4>1. job[x] \in Execution  BY <3>2 DEF Resume, CallsFit, Fits
      <4>2. TaskOf(job[x]) \in Task  BY <4>1, TaskOfType
      <4>. QED  BY <3>2, <4>2 DEF Resume
    <3>. QED  BY <1>11, <3>1, <3>2
  <2>3. watched' \subseteq Execution
    BY <2>2, MembersType DEF Watch, DataTypes
  <2>. QED  BY <2>1, <2>3 DEF DataTypes, taskVars
<1>12. ASSUME NEW e \in Execution, ReportStep(e)
      PROVE  DataTypes'
  <2>1. verdict' \in [Task -> Verdicts \cup {None}]
    BY <1>12, AnswerTypes
       DEF ReportStep, TurnCompletes, TurnFails, TurnInterrupted, DataTypes
  <2>. QED
    BY <1>12, <2>1 DEF ReportStep, TurnCompletes, TurnFails, TurnInterrupted, CancelTask,
                       DataTypes
<1>. QED
  BY <1>1, <1>2, <1>3, <1>4, <1>5, <1>6, <1>7, <1>8, <1>9, <1>10, <1>11, <1>12
     DEF FlowNext, ApiStep, ThreadStep

\* Only thread x moves, and a lock changes hands only with it.
LEMMA OneHolds ==
  ASSUME LockTypes, \A y \in Thread : Holds(y), NEW x \in Thread,
         \A y \in Thread \ {x} : pc'[y] = pc[y] /\ job'[y] = job[y],
         draining' \subseteq draining \cup {x},
         graphLock' \in {graphLock, None, x}, completing' \in {completing, None, x},
         Holds(x)'
  PROVE  LockTypes' /\ \A y \in Thread : Holds(y)'
<1>1. ASSUME NEW y \in Thread \ {x} PROVE Holds(y)'
  BY <1>1, ThreadAssumption DEF Holds
<1>. QED  BY <1>1 DEF LockTypes

\* A thread that leaves an invocation holds nothing.
LEMMA LeaveHolds ==
  ASSUME CallsFit, NEW x \in Thread, Holds(x), Leave(x) \/ LeaveRaised(x)
  PROVE  /\ Holds(x)'
         /\ \A y \in Thread \ {x} : pc'[y] = pc[y] /\ job'[y] = job[y]
         /\ draining' \subseteq draining \cup {x}
         /\ graphLock' \in {graphLock, None, x} /\ completing' \in {completing, None, x}
<1>1. pc \in [Thread -> Place] /\ job \in [Thread -> Execution \cup {None}]
  BY DEF CallsFit, FlowTypes
<1>2. x # None  BY ThreadAssumption
<1>3. CASE Leave(x)
  BY <1>1, <1>2, <1>3 DEF Leave, Release, GoTo, Holds
<1>4. CASE LeaveRaised(x)
  BY <1>1, <1>2, <1>4 DEF LeaveRaised, Release, ReleaseSupervisor, GoTo, Holds
<1>. QED  BY <1>3, <1>4

\* The locks are held by threads that are under way.
LEMMA HolderStep ==
  ASSUME CallsFit, LockTypes, \A y \in Thread : Holds(y), [FlowNext]_vars
  PROVE  LockTypes' /\ \A y \in Thread : Holds(y)'
<1>. USE DEF GoTo
<1>1. CASE UNCHANGED vars
  BY <1>1 DEF vars, flowVars, threadVars, locks, LockTypes, Holds
<1>2. pc \in [Thread -> Place] /\ job \in [Thread -> Execution \cup {None}]
  BY DEF CallsFit, FlowTypes
<1>3. ASSUME NEW t \in Task, Submit(t) \/ RetryTask(t) \/ ApiStep(t)
      PROVE  LockTypes' /\ \A y \in Thread : Holds(y)'
  <2>1. Api(t) \in Thread /\ IsApi(Api(t))  BY ThreadNames DEF Api, IsApi
  <2>2. UNCHANGED <<job, draining, locks>> /\ \E place : GoTo(Api(t), place)
    BY <1>3 DEF Submit, RetryTask, ApiStep, LoadTask, PrepareAssignments, Invoke
  <2>. QED  BY <1>2, <2>1, <2>2, OneHolds DEF locks, Holds
<1>4. ASSUME NEW t \in Task, UserCancels(t)
      PROVE  LockTypes' /\ \A y \in Thread : Holds(y)'
  <2>. DEFINE z == Stopper(t)
  <2>1. z \in Thread /\ ~IsApi(z)  BY ThreadNames DEF Stopper, IsApi
  <2>2. /\ UNCHANGED <<job, locks>> /\ draining' = draining \cup {z}
        /\ pc[z] = "idle" /\ pc' = [pc EXCEPT ![z] = "drain"]
    BY <1>4 DEF UserCancels
  <2>. HIDE DEF z
  <2>. QED  BY <1>2, <2>1, <2>2, OneHolds DEF locks, Holds
<1>5. ASSUME NEW x \in Thread,
             \/ \E e \in Execution : NodeStep(x, e)
             \/ SubmissionWaits(x) \/ SubmissionCompletes(x) \/ SubmissionFails(x)
             \/ Review(x) \/ CreateReview(x)
      PROVE  LockTypes' /\ \A y \in Thread : Holds(y)'
  <2>1. UNCHANGED <<job, draining, locks>>
    BY <1>5 DEF NodeStep, NodeReturns, NodeParks, NodeDefers, NodeRejected, NodeAdmitted,
                WriteOutcome, SubmissionWaits, SubmissionCompletes, SubmissionFails,
                Review, CreateReview, NodeFrame, threadVars
  <2>2. UNCHANGED pc \/ \E place \in InGraph : pc' = [pc EXCEPT ![x] = place]
    BY <1>5 DEF NodeStep, NodeReturns, NodeParks, NodeDefers, NodeRejected, NodeAdmitted,
                WriteOutcome, SubmissionWaits, SubmissionCompletes, SubmissionFails,
                Review, CreateReview, InGraph, threadVars
  <2>. QED  BY <1>2, <2>1, <2>2, OneHolds DEF locks, Holds, InGraph
<1>6. ASSUME NEW x \in Thread, EndSuperstep(x) \/ Raised(x) \/ Returned(x) \/ Finish(x)
      PROVE  LockTypes' /\ \A y \in Thread : Holds(y)'
  <2>1. \/ Leave(x) \/ LeaveRaised(x)
        \/ /\ UNCHANGED <<job, draining, locks>>
           /\ \E place \in {"raised", "returned", "nodes", "finish"} :
                 pc' = [pc EXCEPT ![x] = place]
    BY <1>6 DEF EndSuperstep, Raised, Returned, Finish
  <2>2. CASE Leave(x) \/ LeaveRaised(x)  BY <2>2, LeaveHolds, OneHolds
  <2>3. CASE /\ UNCHANGED <<job, draining, locks>>
             /\ \E place \in {"raised", "returned", "nodes", "finish"} :
                   pc' = [pc EXCEPT ![x] = place]
    BY <1>2, <2>3, OneHolds DEF locks, Holds
  <2>. QED  BY <2>1, <2>2, <2>3
<1>7. ASSUME NEW x \in Thread, Resume(x)
      PROVE  LockTypes' /\ \A y \in Thread : Holds(y)'
  <2>1. pc[x] = "resume" /\ ~IsApi(x)  BY <1>7 DEF Resume, CallsFit, Fits
  <2>2. \/ Leave(x) \/ LeaveRaised(x)
        \/ /\ graphLock' = x /\ UNCHANGED <<job, draining, completing>>
           /\ \E place \in {"returned", "nodes"} : pc' = [pc EXCEPT ![x] = place]
    BY <1>7 DEF Resume
  <2>3. CASE Leave(x) \/ LeaveRaised(x)  BY <2>3, LeaveHolds, OneHolds
  <2>4. CASE /\ graphLock' = x /\ UNCHANGED <<job, draining, completing>>
             /\ \E place \in {"returned", "nodes"} : pc' = [pc EXCEPT ![x] = place]
    BY <1>2, <2>1, <2>4, OneHolds DEF Holds
  <2>. QED  BY <2>2, <2>3, <2>4
<1>8. ASSUME NEW x \in Thread, Drain(x)
      PROVE  LockTypes' /\ \A y \in Thread : Holds(y)'
  <2>1. pc[x] = "drain" /\ ~IsApi(x) /\ UNCHANGED graphLock /\ x # None
    BY <1>8, ThreadAssumption DEF Drain, CallsFit, Fits
  <2>2. \/ \E e : job' = [job EXCEPT ![x] = e] /\ pc' = [pc EXCEPT ![x] = "resume"]
                  /\ UNCHANGED <<draining, completing>>
        \/ /\ pc' = [pc EXCEPT ![x] = "idle"] /\ draining' = draining \ {x}
           /\ ReleaseSupervisor(x) /\ UNCHANGED job
    BY <1>8 DEF Drain
  <2>. QED  BY <1>2, <2>1, <2>2, OneHolds DEF ReleaseSupervisor, Holds
<1>9. ASSUME NEW e \in Execution, ReportStep(e)
      PROVE  LockTypes' /\ \A y \in Thread : Holds(y)'
  <2>. DEFINE x == Worker(e)
  <2>1. x \in Thread /\ ~IsApi(x)  BY ThreadNames DEF Worker, IsApi
  <2>2. /\ pc[x] = "idle" /\ UNCHANGED graphLock /\ completing' \in {completing, x}
        /\ \/ pc' = [pc EXCEPT ![x] = "drain"] /\ draining' = draining \cup {x}
              /\ UNCHANGED job
           \/ pc' = [pc EXCEPT ![x] = "resume"] /\ job' = [job EXCEPT ![x] = e]
              /\ UNCHANGED draining
    BY <1>9 DEF ReportStep, TurnCompletes, TurnFails, TurnInterrupted, locks
  <2>. HIDE DEF x
  <2>. QED  BY <1>2, <2>1, <2>2, OneHolds DEF Holds
<1>. QED
  BY <1>1, <1>3, <1>4, <1>5, <1>6, <1>7, <1>8, <1>9 DEF FlowNext, ThreadStep

-----------------------------------------------------------------------------
(* What a step may do to rows.                                             *)

\* What was proved of every state before.
Base == CallsFit /\ SubmitInv /\ HoldInv /\ CancelledIsQuiet /\ HolderInv

\* Completed work stays so, and settled work of a started graph stays settled.
Firm ==
  \A t \in Task : \A e \in SpecialistSet(t) :
     /\ status[e] = "completed" => status'[e] = "completed"
     /\ checkpoint[t].stage # "none" /\ Settled(t, e) => Settled(t, e)'

\* No task is created a second time, and none is cancelled over a submission.
Orderly ==
  \A t \in Task :
     /\ taskStatus'[t] = "created" => taskStatus[t] = "created"
     /\ taskStatus'[t] = "cancelled" /\ taskStatus[t] # "cancelled" => LockFree

\* The executions of a task, by role.
LEMMA Roles ==
  ASSUME NEW t \in Task
  PROVE  /\ Lead[t] \in Execution /\ SpecialistSet(t) \subseteq Execution
         /\ Lead[t] \notin SpecialistSet(t)
         /\ SpecialistSet(t) \subseteq ExecutionsOf(t) /\ Lead[t] \in ExecutionsOf(t)
         /\ \A u \in Task : u # t => /\ Lead[u] # Lead[t]
                                     /\ Lead[u] \notin SpecialistSet(t)
         /\ \A e \in ExecutionsOf(t) : TaskOf(e) = t
<1>1. Lead[t] \in ExecutionsOf(t) /\ SpecialistSet(t) \subseteq ExecutionsOf(t)
  BY DEF ExecutionsOf
<1>2. ExecutionsOf(t) \subseteq Execution  BY MembersType
<1>3. \A u \in Task : u # t => ExecutionsOf(t) \cap ExecutionsOf(u) = {}
  BY FlowAssumption DEF FlowAssumption
<1>4. \A u \in Task : Lead[u] \in ExecutionsOf(u)  BY DEF ExecutionsOf
<1>5. \A e \in ExecutionsOf(t) : TaskOf(e) = t
  BY <1>2, <1>3, TaskOfType
<1>. QED  BY <1>1, <1>2, <1>3, <1>4, <1>5, FlowAssumption DEF FlowAssumption

\* Rows outlast a step that keeps completed work, creates no review, gives
\* verdicts with their executions only and leaves cancelled tasks alone.
LEMMA RowsHold ==
  ASSUME RowsInv,
         \A e \in Execution : status[e] = "completed" => status'[e] = "completed",
         \A t \in Task : status[Lead[t]] = "absent" => status'[Lead[t]] = "absent",
         \A t \in Task : verdict'[t] = verdict[t] \/ status'[Lead[t]] = "completed",
         \A t \in Task : taskStatus[t] = "cancelled" =>
            \/ taskStatus'[t] = "cancelled" \/ Delivered(t)
            \/ checkpoint[t].stage = "none"
  PROVE  Firm /\ RowsInv'
<1>1. ASSUME NEW t \in Task PROVE Rows(t)'
  <2>1. Delivered(t) => Delivered(t)'  BY Roles DEF Delivered
  <2>2. Lead[t] \in Execution  BY Roles
  <2>. QED  BY <2>1, <2>2 DEF RowsInv, Rows
<1>2. ASSUME NEW t \in Task, NEW e \in SpecialistSet(t)
      PROVE  /\ status[e] = "completed" => status'[e] = "completed"
             /\ checkpoint[t].stage # "none" /\ Settled(t, e) => Settled(t, e)'
  BY <1>2, Roles DEF Settled, Delivered
<1>. QED  BY <1>1, <1>2 DEF RowsInv, Firm

\* The transactions that create nothing and retry nothing keep completed work,
\* and insert no row.
Plain ==
  \/ UNCHANGED controlVars
  \/ SubmissionLost
  \/ \E S \in SUBSET Execution : Cancel(S)
  \/ \E e \in Execution :
        \/ Admit(e) \/ Defer(e) \/ Reject(e) \/ Pick(e)
        \/ SubmitWaiting(e) \/ SubmitFailed(e) \/ Fail(e)
        \/ \E usage \in Usage \cup {None} :
              SubmitCompleted(e, usage) \/ Complete(e, usage)

LEMMA PlainKeeps ==
  ASSUME HoldInv, Plain
  PROVE  \A e \in Execution :
            /\ status[e] = "completed" => status'[e] = "completed"
            /\ status[e] = "absent" => status'[e] = "absent"
<1>. SUFFICES ASSUME NEW f \in Execution
              PROVE  /\ status[f] = "completed" => status'[f] = "completed"
                     /\ status[f] = "absent" => status'[f] = "absent"
  OBVIOUS
<1>1. status \in [Execution -> Status]  BY DEF HoldInv, TypeOK
<1>2. CASE UNCHANGED controlVars \/ SubmissionLost
  BY <1>2 DEF controlVars, SubmissionLost
<1>3. ASSUME NEW S \in SUBSET Execution, Cancel(S)
      PROVE  status'[f] = status[f] \/ status[f] \notin {"absent", "completed"}
  BY <1>3 DEF Cancel
<1>4. ASSUME NEW e \in Execution,
             \/ Admit(e) \/ Defer(e) \/ Reject(e) \/ Pick(e) \/ Fail(e)
             \/ \E usage \in Usage \cup {None} : Complete(e, usage)
      PROVE  status'[f] = status[f] \/ status[f] \notin {"absent", "completed"}
  BY <1>1, <1>4 DEF Admit, Defer, Reject, Pick, Fail, Complete, SetStatus, Runnable,
                    DeferredSet
<1>5. ASSUME NEW e \in Execution,
             \/ SubmitWaiting(e) \/ SubmitFailed(e)
             \/ \E usage \in Usage \cup {None} : SubmitCompleted(e, usage)
      PROVE  status'[f] = status[f] \/ status[f] \notin {"absent", "completed"}
  <2>1. status[e] = "running"
    BY <1>5, ConstantsAssumption
       DEF SubmitWaiting, SubmitFailed, SubmitCompleted, HoldInv, SubmittingRuns,
           ConstantsAssumption
  <2>. QED
    BY <1>1, <1>5, <2>1 DEF SubmitWaiting, SubmitFailed, SubmitCompleted, SetStatus
<1>. QED  BY <1>2, <1>3, <1>4, <1>5 DEF Plain

\* Setting the status of a task sets no other.
LEMMA OneTaskSet ==
  ASSUME Base, NEW t \in Task, NEW s \in TaskStatus, SetTask(t, s)
  PROVE  taskStatus'[t] = s /\ \A u \in Task \ {t} : taskStatus'[u] = taskStatus[u]
BY DEF Base, CallsFit, FlowTypes, SetTask

\* A plain step that respects a cancellation keeps the rows.
LEMMA PlainRows ==
  ASSUME RowsInv, Base, Plain, UNCHANGED verdict,
         \/ UNCHANGED taskStatus
         \/ \E t \in Task, s \in TaskStatus \ {"created"} :
               /\ SetTask(t, s)
               /\ taskStatus[t] = "cancelled" => s = "cancelled"
               /\ s = "cancelled" => LockFree
  PROVE  Firm /\ RowsInv' /\ Orderly
<1>1. \A e \in Execution :
         /\ status[e] = "completed" => status'[e] = "completed"
         /\ status[e] = "absent" => status'[e] = "absent"
  BY PlainKeeps DEF Base
<1>2. \A t \in Task : Lead[t] \in Execution  BY Roles
<1>3. /\ \A t \in Task : taskStatus[t] = "cancelled" => taskStatus'[t] = "cancelled"
      /\ Orderly
  <2>1. CASE UNCHANGED taskStatus  BY <2>1 DEF Orderly
  <2>2. ASSUME NEW t \in Task, NEW s \in TaskStatus \ {"created"}, SetTask(t, s),
               taskStatus[t] = "cancelled" => s = "cancelled",
               s = "cancelled" => LockFree
        PROVE  /\ \A u \in Task : taskStatus[u] = "cancelled" => taskStatus'[u] = "cancelled"
               /\ Orderly
    <3>1. taskStatus'[t] = s /\ \A u \in Task \ {t} : taskStatus'[u] = taskStatus[u]
      BY <2>2, OneTaskSet
    <3>. QED  BY <2>2, <3>1 DEF Orderly
  <2>. QED  BY <2>1, <2>2
<1>. QED  BY <1>1, <1>2, <1>3, RowsHold

\* The steps of a client.
LEMMA ClientRows ==
  ASSUME DeliveryInv, Base, NEW t \in Task,
         Submit(t) \/ RetryTask(t) \/ UserCancels(t) \/ ApiStep(t)
  PROVE  Firm /\ RowsInv' /\ Orderly
<1>. USE DEF DeliveryInv
<1>1. CASE Submit(t) \/ LoadTask(t) \/ Invoke(t)
  <2>1. UNCHANGED controlVars /\ UNCHANGED <<taskStatus, verdict>>
    BY <1>1 DEF Submit, LoadTask, Invoke, taskVars
  <2>. QED  BY <2>1, PlainRows DEF Plain
<1>2. CASE UserCancels(t)
  <2>1. Cancel(ExecutionsOf(t)) /\ SetTask(t, "cancelled") /\ UNCHANGED verdict
    BY <1>2 DEF UserCancels, CancelTask
  <2>2. Plain  BY <2>1, MembersType DEF Plain
  <2>3. LockFree  BY <2>1 DEF Cancel
  <2>. QED  BY <2>1, <2>2, <2>3, PlainRows DEF TaskStatus, Terminal
<1>3. CASE PrepareAssignments(t)
  <2>1. Create(SpecialistSet(t)) /\ SetTask(t, "running") /\ UNCHANGED verdict
    BY <1>3 DEF PrepareAssignments
  <2>2. \A e \in Execution : status[e] = "completed" => status'[e] = "completed"
    BY <2>1 DEF Create
  <2>3. \A u \in Task : status[Lead[u]] = "absent" => status'[Lead[u]] = "absent"
    BY <2>1, Roles DEF Create
  <2>4. checkpoint[t].stage = "none"  BY <1>3 DEF PrepareAssignments, GraphInv, Graph
  <2>5. \A u \in Task \ {t} : taskStatus'[u] = taskStatus[u]
    BY <2>1, OneTaskSet DEF TaskStatus
  <2>6. taskStatus'[t] = "running"  BY <2>1, OneTaskSet DEF TaskStatus
  <2>7. Firm /\ RowsInv'  BY <2>1, <2>2, <2>3, <2>4, <2>5, RowsHold
  <2>. QED  BY <2>5, <2>6, <2>7 DEF Orderly
<1>4. CASE RetryTask(t)
  <2>. DEFINE failed == {e \in ExecutionsOf(t) :
                           status[e] = "failed" \/ (e = Lead[t] /\ badReview[t])}
  <2>1. /\ Retry(failed) /\ SetTask(t, "running") /\ taskStatus[t] = "failed"
        /\ verdict' = [verdict EXCEPT ![t] = IF Lead[t] \in failed THEN None ELSE @]
    BY <1>4 DEF RetryTask
  <2>2. status' = [e \in Execution |-> IF e \in failed THEN "submitted" ELSE status[e]]
    BY <2>1 DEF Retry
  <2>3. \A e \in Execution : status[e] = "completed" =>
           status'[e] = "completed" \/ (e = Lead[t] /\ Lead[t] \in failed)
    BY <2>2
  <2>4. \A u \in Task : status[Lead[u]] = "absent" => status'[Lead[u]] = "absent"
    BY <2>1, <2>2, Roles DEF Retry
  <2>5. \A u \in Task \ {t} : taskStatus'[u] = taskStatus[u]
    BY <2>1, OneTaskSet DEF TaskStatus
  <2>6. taskStatus'[t] = "running"  BY <2>1, OneTaskSet DEF TaskStatus
  <2>7. \A u \in Task : \A e \in SpecialistSet(u) :
           status[e] = "completed" => status'[e] = "completed"
    BY <2>3, Roles
  <2>8. Firm  BY <2>1, <2>5, <2>7 DEF Firm, Settled
  <2>9. ASSUME NEW u \in Task PROVE Rows(u)'
    <3>1. Delivered(u) => Delivered(u)'  BY <2>7 DEF Delivered
    <3>2. verdict'[u] # None => /\ verdict[u] # None
                                /\ u = t => Lead[t] \notin failed
      BY <2>1 DEF Base, HolderInv, DataTypes
    <3>3. status[Lead[u]] = "completed" =>
             status'[Lead[u]] = "completed" \/ (u = t /\ Lead[t] \in failed)
      BY <2>3, Roles
    <3>. QED  BY <2>4, <3>1, <3>2, <3>3 DEF RowsInv, Rows
  <2>. QED  BY <2>5, <2>6, <2>8, <2>9 DEF Orderly, RowsInv
<1>. QED  BY <1>1, <1>2, <1>3, <1>4 DEF ApiStep

\* The nodes: only the review of delivered work is inserted, and a verdict comes
\* with its execution.
LEMMA NodeRows ==
  ASSUME DeliveryInv, Base, NEW x \in Thread,
         \/ \E e \in Execution : NodeStep(x, e)
         \/ SubmissionWaits(x) \/ SubmissionCompletes(x) \/ SubmissionFails(x)
         \/ Review(x) \/ CreateReview(x)
  PROVE  Firm /\ RowsInv' /\ Orderly
<1>. USE DEF DeliveryInv
<1>1. pc[x] \in InGraph
  BY DEF NodeStep, NodeReturns, NodeParks, NodeDefers, NodeRejected, NodeAdmitted,
         WriteOutcome, SubmissionWaits, SubmissionCompletes, SubmissionFails, Review,
         CreateReview, RunsNode, InGraph
<1>. DEFINE t == Serves(x)
<1>2. t \in Task  BY <1>1, ServesType DEF InGraph, Base
<1>3. Knows(x)  BY DEF GraphInv
<1>4. ASSUME NEW e \in Execution,
             NodeReturns(x, e) \/ NodeParks(x, e) \/ NodeAdmitted(x, e) \/ WriteOutcome(x, e)
      PROVE  Firm /\ RowsInv' /\ Orderly
  <2>1. (UNCHANGED controlVars \/ Admit(e)) /\ UNCHANGED <<taskStatus, verdict>>
    BY <1>4 DEF NodeReturns, NodeParks, NodeAdmitted, WriteOutcome, taskVars
  <2>. QED  BY <2>1, PlainRows DEF Plain
<1>5. ASSUME NEW e \in Execution, NodeDefers(x, e) \/ NodeRejected(x, e)
      PROVE  Firm /\ RowsInv' /\ Orderly
  <2>1. Defer(e) \/ Reject(e)  BY <1>5 DEF NodeDefers, NodeRejected
  <2>2. /\ SetTask(t, "waiting") \/ SetTask(t, "failed")
        /\ taskStatus[t] # "cancelled" /\ UNCHANGED verdict
    BY <1>5 DEF NodeDefers, NodeRejected
  <2>. HIDE DEF t
  <2>3. Plain  BY <2>1 DEF Plain
  <2>. QED  BY <1>2, <2>2, <2>3, PlainRows DEF TaskStatus, Terminal
<1>6. CASE SubmissionWaits(x) \/ SubmissionFails(x)
  <2>1. pc[x] = "submit" /\ (SubmitWaiting(submitting) \/ SubmitFailed(submitting))
    BY <1>6 DEF SubmissionWaits, SubmissionFails
  <2>2. (SetTask(t, "waiting") \/ SetTask(t, "failed")) /\ UNCHANGED verdict
    BY <1>6 DEF SubmissionWaits, SubmissionFails
  <2>3. submitting \in Execution  BY <2>1 DEF SubmitInv, Base
  <2>4. Plain  BY <2>1, <2>3 DEF Plain
  <2>5. taskStatus[t] # "cancelled"  BY <1>3, <2>1 DEF Knows
  <2>. HIDE DEF t
  <2>. QED  BY <1>2, <2>2, <2>4, <2>5, PlainRows DEF TaskStatus, Terminal
<1>7. CASE SubmissionCompletes(x)
  <2>. DEFINE e == submitting
  <2>1. /\ pc[x] = "submit" /\ Answer(e) /\ UNCHANGED taskStatus
        /\ \E usage \in Usage \cup {None} : SubmitCompleted(e, usage)
    BY <1>7 DEF SubmissionCompletes
  <2>2. e \in Execution  BY <2>1 DEF SubmitInv, Base
  <2>3. Plain  BY <2>1, <2>2 DEF Plain
  <2>4. \A f \in Execution :
           /\ status[f] = "completed" => status'[f] = "completed"
           /\ status[f] = "absent" => status'[f] = "absent"
    BY <2>3, PlainKeeps DEF Base
  <2>5. status'[e] = "completed"
    BY <2>1, <2>2 DEF SubmitCompleted, SetStatus, Base, HoldInv, TypeOK
  <2>6. \A u \in Task : verdict'[u] = verdict[u] \/ status'[Lead[u]] = "completed"
    BY <2>1, <2>2, <2>5, TaskOfType DEF Answer, Base, HolderInv, DataTypes
  <2>7. \A u \in Task : Lead[u] \in Execution  BY Roles
  <2>. QED  BY <2>1, <2>4, <2>6, <2>7, RowsHold DEF Orderly
<1>8. CASE Review(x)
  <2>1. /\ UNCHANGED controlVars /\ UNCHANGED verdict
        /\ \/ UNCHANGED taskStatus
           \/ SetTask(t, "failed") /\ taskStatus[t] # "cancelled"
    BY <1>8 DEF Review
  <2>. HIDE DEF t
  <2>. QED  BY <1>2, <2>1, PlainRows DEF Plain, TaskStatus, Terminal
<1>9. CASE CreateReview(x)
  <2>1. /\ pc[x] = "nodes" /\ Lead[t] \in call[x].todo
        /\ taskStatus[t] # "cancelled" /\ Create({Lead[t]})
        /\ UNCHANGED taskStatus /\ UNCHANGED verdict
    BY <1>9 DEF CreateReview, RunsNode, taskVars
  <2>2. status' = [e \in Execution |-> IF e = Lead[t] THEN "submitted" ELSE status[e]]
        /\ status[Lead[t]] = "absent"
    BY <2>1 DEF Create
  <2>. HIDE DEF t
  <2>3. \A e \in Execution : status[e] = "completed" => status'[e] = "completed"
    BY <2>2
  <2>4. Delivered(t)
    <3>1. Superstep(x)  BY <1>1, <1>3 DEF Knows
    <3>2. call[x].stage = "lead"
      BY <1>2, <2>1, <3>1, Roles DEF Superstep, Members, t
    <3>. QED  BY <2>1, <3>1, <3>2 DEF Superstep, Past, Settled, Delivered, t
  <2>5. \A u \in Task : Delivered(u) => Delivered(u)'
    BY <2>3, Roles DEF Delivered
  <2>6. ASSUME NEW u \in Task PROVE Rows(u)'
    <3>1. CASE u = t  BY <1>2, <2>1, <2>2, <2>4, <2>5, <3>1 DEF RowsInv, Rows, taskVars
    <3>2. CASE u # t
      <4>1. status'[Lead[u]] = status[Lead[u]]  BY <1>2, <2>2, <3>2, Roles
      <4>. QED  BY <2>1, <2>5, <4>1 DEF RowsInv, Rows
    <3>. QED  BY <3>1, <3>2
  <2>7. Firm  BY <2>1, <2>3, Roles DEF Firm, Settled
  <2>. QED  BY <2>1, <2>6, <2>7 DEF Orderly, RowsInv
<1>. QED  BY <1>4, <1>5, <1>6, <1>7, <1>8, <1>9 DEF NodeStep

\* What follows an invocation, a resume and a drain: _finish_task commits over a
\* cancellation, when everything is delivered.
LEMMA GraphRows ==
  ASSUME DeliveryInv, Base, NEW x \in Thread,
         EndSuperstep(x) \/ Raised(x) \/ Returned(x) \/ Finish(x) \/ Resume(x) \/ Drain(x)
  PROVE  Firm /\ RowsInv' /\ Orderly
<1>. USE DEF DeliveryInv
<1>1. CASE EndSuperstep(x) \/ Raised(x) \/ Returned(x) \/ Resume(x) \/ Drain(x)
  <2>1. /\ UNCHANGED taskStatus /\ UNCHANGED verdict
        /\ UNCHANGED controlVars \/ \E e \in Execution : Pick(e)
    BY <1>1 DEF EndSuperstep, Raised, Returned, Resume, Drain, Eligible, DeferredSet,
                taskVars
  <2>. QED  BY <2>1, PlainRows DEF Plain
<1>2. CASE Finish(x)
  <2>. DEFINE t == Serves(x)
  <2>1. /\ pc[x] = "finish" /\ UNCHANGED controlVars /\ UNCHANGED verdict
        /\ \E s \in {"completed", "needs_revision"} : SetTask(t, s)
    BY <1>2 DEF Finish
  <2>2. t \in Task  BY <2>1, ServesType DEF Base
  <2>3. Delivered(t)  BY <2>1 DEF GraphInv, Knows
  <2>. HIDE DEF t
  <2>4. /\ taskStatus'[t] \in {"completed", "needs_revision"}
        /\ \A u \in Task \ {t} : taskStatus'[u] = taskStatus[u]
    BY <2>1, <2>2, OneTaskSet DEF TaskStatus, Terminal
  <2>5. \A u \in Task : Lead[u] \in Execution  BY Roles
  <2>6. Firm /\ RowsInv'
    BY <2>1, <2>3, <2>4, <2>5, RowsHold DEF controlVars
  <2>. QED  BY <2>4, <2>6 DEF Orderly
<1>. QED  BY <1>1, <1>2

\* The ends of a Turn: a task with a Turn is not cancelled.
LEMMA ReportRows ==
  ASSUME DeliveryInv, Base, NEW e \in Execution, ReportStep(e)
  PROVE  Firm /\ RowsInv' /\ Orderly
<1>. USE DEF DeliveryInv
<1>. DEFINE t == TaskOf(e)
<1>1. t \in Task /\ e \in ExecutionsOf(t)  BY TaskOfType
<1>2. CASE TurnCompletes(e)
  <2>1. /\ Answer(e) /\ UNCHANGED taskStatus
        /\ \E usage \in Usage \cup {None} : Complete(e, usage)
    BY <1>2 DEF TurnCompletes
  <2>2. \A f \in Execution :
           /\ status[f] = "completed" => status'[f] = "completed"
           /\ status[f] = "absent" => status'[f] = "absent"
    BY <2>1, PlainKeeps DEF Base, Plain
  <2>3. status'[e] = "completed"
    BY <2>1 DEF Complete, SetStatus, Base, HoldInv, TypeOK
  <2>4. \A u \in Task : verdict'[u] = verdict[u] \/ status'[Lead[u]] = "completed"
    BY <2>1, <2>3, TaskOfType DEF Answer, Base, HolderInv, DataTypes
  <2>5. \A u \in Task : Lead[u] \in Execution  BY Roles
  <2>. QED  BY <2>1, <2>2, <2>4, <2>5, RowsHold DEF Orderly
<1>3. CASE TurnFails(e)
  <2>1. Fail(e) /\ SetTask(t, "failed") /\ UNCHANGED verdict
    BY <1>3 DEF TurnFails
  <2>2. Active(e)  BY <2>1 DEF Fail, Active
  <2>3. taskStatus[t] # "cancelled"  BY <1>1, <2>2 DEF Base, CancelledIsQuiet
  <2>. HIDE DEF t
  <2>. QED  BY <1>1, <2>1, <2>3, PlainRows DEF Plain, TaskStatus, Terminal
<1>4. CASE TurnInterrupted(e)
  <2>1. UNCHANGED verdict /\ (CancelTask(t) \/ UNCHANGED <<controlVars, taskStatus>>)
    BY <1>4 DEF TurnInterrupted
  <2>2. CASE CancelTask(t)
    <3>1. Cancel(ExecutionsOf(t)) /\ SetTask(t, "cancelled")  BY <2>2 DEF CancelTask
    <3>2. Plain /\ LockFree  BY <1>1, <3>1, MembersType DEF Plain, Cancel
    <3>. HIDE DEF t
    <3>. QED  BY <1>1, <2>1, <3>1, <3>2, PlainRows DEF TaskStatus, Terminal
  <2>3. CASE UNCHANGED <<controlVars, taskStatus>>
    BY <2>1, <2>3, PlainRows DEF Plain
  <2>. QED  BY <2>1, <2>2, <2>3
<1>. QED  BY <1>2, <1>3, <1>4 DEF ReportStep

\* Every step keeps the rows.
LEMMA RowsStep ==
  ASSUME DeliveryInv, Base, [FlowNext]_vars
  PROVE  Firm /\ RowsInv' /\ Orderly
<1>1. CASE UNCHANGED vars
  <2>1. UNCHANGED controlVars /\ UNCHANGED <<taskStatus, verdict>>
    BY <1>1 DEF vars, flowVars, taskVars
  <2>. QED  BY <2>1, PlainRows DEF Plain, DeliveryInv
<1>2. CASE FlowNext
  <2>1. ASSUME NEW x \in Thread, ThreadStep(x) PROVE Firm /\ RowsInv' /\ Orderly
    BY <2>1, NodeRows, GraphRows DEF ThreadStep
  <2>. QED  BY <1>2, <2>1, ClientRows, ReportRows DEF FlowNext
<1>. QED  BY <1>1, <1>2

-----------------------------------------------------------------------------
(* What a step may do to the graphs.                                       *)

\* A thread that stands still knows what it knew.
LEMMA KnowsStill ==
  ASSUME DeliveryInv, Base, Firm, Orderly, NEW y \in Thread,
         pc'[y] = pc[y], call'[y] = call[y], job'[y] = job[y],
         \A t \in Task : checkpoint[t].stage # "none" => checkpoint'[t].stage # "none"
  PROVE  Knows(y)'
<1>1. Knows(y)  BY DEF DeliveryInv, GraphInv
<1>2. SUFFICES ASSUME pc[y] \in InGraph \cup {"returned", "finish"} PROVE Knows(y)'
  BY DEF Knows, InGraph
<1>3. PICK t \in Task : t = Serves(y)
  BY <1>2, ServesType DEF InGraph, Base
<1>4. Serves(y)' = t  BY <1>3 DEF Serves
<1>5. checkpoint[t].stage # "none" /\ checkpoint'[t].stage # "none"
  BY <1>1, <1>2, <1>3 DEF Knows
<1>6. \A e \in SpecialistSet(t) :
         /\ Settled(t, e) => Settled(t, e)'
         /\ status[e] = "completed" => status'[e] = "completed"
  BY <1>5 DEF Firm
<1>7. Past(t) => Past(t)'  BY <1>6 DEF Past
<1>8. Delivered(t) => Delivered(t)'  BY <1>6 DEF Delivered
<1>9. pc[y] = "submit" /\ taskStatus[t] # "cancelled" => taskStatus'[t] # "cancelled"
  BY DEF Orderly, LockFree, Base, SubmitInv
<1>10. Superstep(y) => Superstep(y)'
  BY <1>3, <1>4, <1>6, <1>7 DEF Superstep, Members
<1>. QED
  BY <1>1, <1>3, <1>4, <1>5, <1>7, <1>8, <1>9, <1>10 DEF Knows

\* The graph of a task outlasts a step that leaves its checkpoint alone.
LEMMA GraphStill ==
  ASSUME DeliveryInv, Base, Firm, Orderly, NEW t \in Task,
         checkpoint'[t] = checkpoint[t],
         pc'[Api(t)] = pc[Api(t)] \/ pc'[Api(t)] \notin {"prepare", "invoke"}
  PROVE  Graph(t)'
<1>1. Graph(t)  BY DEF DeliveryInv, GraphInv
<1>2. checkpoint[t].stage # "none" =>
         \A e \in SpecialistSet(t) : Settled(t, e) => Settled(t, e)'
  BY DEF Firm
<1>3. checkpoint[t].stage # "none" => (Past(t) => Past(t)')
  BY <1>2 DEF Past
<1>4. taskStatus'[t] = "created" => taskStatus[t] = "created"  BY DEF Orderly
<1>. QED  BY <1>1, <1>2, <1>3, <1>4 DEF Graph

\* Only thread x moves, and no graph is taken back to its start.
LEMMA OneKnows ==
  ASSUME DeliveryInv, Base, Firm, Orderly, NEW x \in Thread,
         \A y \in Thread \ {x} : pc'[y] = pc[y] /\ call'[y] = call[y] /\ job'[y] = job[y],
         \A t \in Task :
            \/ Graph(t)'
            \/ /\ checkpoint'[t] = checkpoint[t]
               /\ x = Api(t) => pc'[x] \notin {"prepare", "invoke"},
         \A t \in Task : checkpoint[t].stage # "none" => checkpoint'[t].stage # "none",
         Knows(x)'
  PROVE  GraphInv'
<1>1. ASSUME NEW y \in Thread \ {x} PROVE Knows(y)'  BY <1>1, KnowsStill
<1>2. ASSUME NEW t \in Task PROVE Graph(t)'
  <2>1. Api(t) \in Thread  BY ThreadNames
  <2>2. CASE /\ checkpoint'[t] = checkpoint[t]
             /\ x = Api(t) => pc'[x] \notin {"prepare", "invoke"}
    BY <2>1, <2>2, GraphStill
  <2>. QED  BY <2>2
<1>. QED  BY <1>1, <1>2 DEF GraphInv

\* A thread that enters a superstep knows what the checkpoint says.
LEMMA EnterKnows ==
  ASSUME Base, NEW x \in Thread, NEW t \in Task, Serves(x)' = t,
         NEW c \in Checkpoint, NEW given \in Execution \cup {None},
         Enter(x, t, c, given), pc'[x] \in {"nodes", "returned"},
         c.stage # "none", checkpoint'[t].stage # "none",
         pc'[x] = "nodes" => c.stage # "done",
         c.stage \in {"lead", "done"} => Past(t)',
         c.stage = "specialists" =>
            \A e \in SpecialistSet(t) \cap c.done : Settled(t, e)'
  PROVE  Knows(x)'
<1>1. /\ call'[x].stage = c.stage /\ call'[x].todo = Members(t, c.stage) \ c.done
      /\ call'[x].parked = {} /\ call'[x].fresh = {}
  BY DEF Enter, Base, CallsFit, FlowTypes, NoCall
<1>2. c.stage \in {"specialists", "lead", "done"}  BY DEF Checkpoint, Stage
<1>3. pc'[x] = "nodes" => Superstep(x)'
  BY <1>1, <1>2 DEF Superstep, Members
<1>. QED  BY <1>1, <1>3 DEF Knows, InGraph

\* A thread that stays in its superstep, after what a node or a write does to its
\* call: an outcome that is no interrupt is one of settled work.
LEMMA NodeKnows ==
  ASSUME DeliveryInv, Base, Firm, NEW x \in Thread, NEW t \in Task, Serves(x) = t,
         pc[x] \in InGraph, pc'[x] \in InGraph, UNCHANGED job,
         checkpoint'[t].stage = checkpoint[t].stage,
         pc'[x] = "submit" => taskStatus'[t] # "cancelled",
         \/ UNCHANGED call
         \/ \E e : NodeRaises(x, e) \/ NodeInterrupts(x, e)
         \/ \E e : NodeDone(x, e) /\ (e \in SpecialistSet(t) => Settled(t, e)')
         \/ \E e : call' = [call EXCEPT ![x].fresh = @ \ {e}]
  PROVE  Knows(x)'
<1>1. Knows(x)  BY DEF DeliveryInv, GraphInv
<1>2. Superstep(x) /\ checkpoint[t].stage # "none"  BY <1>1 DEF Knows
<1>3. Serves(x)' = t  BY DEF Serves
<1>4. \A e \in SpecialistSet(t) : Settled(t, e) => Settled(t, e)'
  BY <1>2 DEF Firm
<1>5. Past(t) => Past(t)'  BY <1>4 DEF Past
<1>6. call \in [Thread -> Call]  BY DEF Base, CallsFit, FlowTypes
<1>7. Superstep(x)'
  <2>1. CASE UNCHANGED call
    BY <1>2, <1>3, <1>4, <1>5, <2>1 DEF Superstep
  <2>2. ASSUME NEW e, NodeRaises(x, e) \/ NodeInterrupts(x, e)
        PROVE  Superstep(x)'
    <3>1. /\ call'[x].stage = call[x].stage /\ call'[x].todo = call[x].todo \ {e}
          /\ \/ call'[x].raised /\ call'[x].parked = call[x].parked
                /\ call'[x].fresh = call[x].fresh
             \/ call'[x].raised = call[x].raised
                /\ call'[x].parked = call[x].parked \cup {e}
                /\ call'[x].fresh = call[x].fresh \cup {e}
      <4>1. CASE NodeRaises(x, e)  BY <1>6, <4>1 DEF NodeRaises, Call
      <4>2. CASE NodeInterrupts(x, e) /\ call[x].given # e
        <5>1. call'[x] = [call[x] EXCEPT !.todo = @ \ {e}, !.fresh = @ \cup {e},
                                        !.parked = @ \cup {e}]
          BY <1>6, <4>2 DEF NodeInterrupts
        <5>2. call[x] \in Call  BY <1>6
        <5>. QED  BY <5>1, <5>2 DEF Call
      <4>. QED  BY <2>2, <4>1, <4>2 DEF NodeInterrupts
    <3>. QED  BY <1>2, <1>3, <1>4, <1>5, <3>1 DEF Superstep
  <2>3. ASSUME NEW e, NodeDone(x, e), e \in SpecialistSet(t) => Settled(t, e)'
        PROVE  Superstep(x)'
    <3>1. /\ call'[x].stage = call[x].stage /\ call'[x].todo = call[x].todo \ {e}
          /\ call'[x].raised = call[x].raised /\ call'[x].parked = call[x].parked
          /\ call'[x].fresh = call[x].fresh \cup {e}
      BY <1>6, <2>3 DEF NodeDone, Call
    <3>. QED  BY <1>2, <1>3, <1>4, <1>5, <2>3, <3>1 DEF Superstep
  <2>4. ASSUME NEW e, call' = [call EXCEPT ![x].fresh = @ \ {e}]
        PROVE  Superstep(x)'
    <3>1. /\ call'[x].stage = call[x].stage /\ call'[x].todo = call[x].todo
          /\ call'[x].raised = call[x].raised /\ call'[x].parked = call[x].parked
          /\ call'[x].fresh \subseteq call[x].fresh
      BY <1>6, <2>4 DEF Call
    <3>. QED  BY <1>2, <1>3, <1>4, <1>5, <3>1 DEF Superstep
  <2>. QED  BY <2>1, <2>2, <2>3, <2>4
<1>. QED  BY <1>2, <1>3, <1>7 DEF Knows, InGraph

\* The steps of a client.
LEMMA ClientGraph ==
  ASSUME DeliveryInv, Base, Firm, Orderly, NEW t \in Task,
         Submit(t) \/ RetryTask(t) \/ UserCancels(t) \/ ApiStep(t)
  PROVE  GraphInv'
<1>. DEFINE x == Api(t)
<1>1. x \in Thread /\ Stopper(t) \in Thread  BY ThreadNames
<1>2. Serves(x) = t /\ Serves(x)' = t /\ IsApi(x)  BY DEF Api, Serves, IsApi
<1>3. pc \in [Thread -> Place] /\ call \in [Thread -> Call]
      /\ checkpoint \in [Task -> Checkpoint] /\ taskStatus \in [Task -> TaskStatus]
  BY DEF Base, CallsFit, FlowTypes
<1>4. Graph(t)  BY DEF DeliveryInv, GraphInv
<1>5. \A u \in Task : x = Api(u) => u = t  BY DEF Api
<1>6. CASE Submit(t) \/ RetryTask(t)
  <2>1. pc' = [pc EXCEPT ![x] = "load"] /\ UNCHANGED <<graphVars, job>>
    BY <1>6 DEF Submit, RetryTask, GoTo
  <2>. HIDE DEF x
  <2>2. Knows(x)'  BY <1>1, <1>3, <2>1 DEF Knows, InGraph
  <2>. QED  BY <1>1, <1>3, <2>1, <2>2, OneKnows DEF graphVars
<1>7. CASE UserCancels(t)
  <2>. DEFINE z == Stopper(t)
  <2>1. pc' = [pc EXCEPT ![z] = "drain"] /\ UNCHANGED <<graphVars, job>>
    BY <1>7 DEF UserCancels, GoTo
  <2>. HIDE DEF z
  <2>2. z \in Thread  BY <1>1 DEF z
  <2>3. Knows(z)'  BY <1>3, <2>1, <2>2 DEF Knows, InGraph
  <2>. QED  BY <1>3, <2>1, <2>2, <2>3, OneKnows DEF graphVars
<1>8. CASE LoadTask(t) \/ PrepareAssignments(t)
  <2>1. /\ UNCHANGED <<graphVars, job>>
        /\ \/ pc' = [pc EXCEPT ![x] = "prepare"] /\ taskStatus[t] = "created"
              /\ UNCHANGED taskStatus
           \/ pc' = [pc EXCEPT ![x] = "invoke"] /\ taskStatus[t] = "running"
              /\ UNCHANGED taskStatus
           \/ pc' = [pc EXCEPT ![x] = "idle"] /\ UNCHANGED taskStatus
           \/ pc' = [pc EXCEPT ![x] = "invoke"] /\ pc[x] = "prepare"
              /\ SetTask(t, "running")
    BY <1>8 DEF LoadTask, PrepareAssignments, GoTo, taskVars
  <2>2. checkpoint' = checkpoint /\ pc'[x] \in {"prepare", "invoke", "idle"}
    BY <1>1, <1>3, <2>1 DEF graphVars
  <2>3. /\ pc'[x] = "invoke" => taskStatus'[t] = "running"
        /\ taskStatus'[t] = "created" \/ pc'[x] = "prepare" => checkpoint[t].stage = "none"
    BY <1>1, <1>3, <1>4, <2>1 DEF Graph, SetTask
  <2>4. Graph(t)'
    <3>1. checkpoint[t].stage # "none" =>
             \A e \in SpecialistSet(t) : Settled(t, e) => Settled(t, e)'
      BY DEF Firm
    <3>2. checkpoint[t].stage # "none" => (Past(t) => Past(t)')  BY <3>1 DEF Past
    <3>. QED  BY <1>4, <2>2, <2>3, <3>1, <3>2 DEF Graph
  <2>. HIDE DEF x
  <2>5. Knows(x)'  BY <2>2 DEF Knows, InGraph
  <2>6. \A y \in Thread \ {x} : pc'[y] = pc[y] /\ call'[y] = call[y] /\ job'[y] = job[y]
    BY <1>3, <2>1 DEF graphVars
  <2>. QED  BY <1>1, <1>5, <2>2, <2>4, <2>5, <2>6, OneKnows
<1>9. CASE Invoke(t)
  <2>. DEFINE first == [stage |-> "specialists", by |-> x, done |-> {}, parked |-> {}]
              loaded == IF checkpoint[t].stage = "none" THEN first ELSE checkpoint[t]
  <2>1. loaded \in Checkpoint /\ loaded.stage # "none"
    BY <1>1, <1>3 DEF Checkpoint, Stage
  <2>2. /\ checkpoint' = [checkpoint EXCEPT ![t] = loaded]
        /\ Enter(x, t, loaded, None) /\ UNCHANGED <<job, taskStatus>>
        /\ pc' = [pc EXCEPT ![x] = IF loaded.stage = "done" THEN "returned" ELSE "nodes"]
        /\ pc[x] = "invoke"
    BY <1>9 DEF Invoke, GoTo, taskVars
  <2>3. checkpoint'[t] = loaded /\ \A u \in Task \ {t} : checkpoint'[u] = checkpoint[u]
    BY <1>3, <2>2
  <2>4. pc'[x] = (IF loaded.stage = "done" THEN "returned" ELSE "nodes")
        /\ \A y \in Thread \ {x} : pc'[y] = pc[y] /\ call'[y] = call[y] /\ job'[y] = job[y]
    BY <1>1, <1>3, <2>2 DEF Enter
  <2>5. checkpoint[t].stage # "none" =>
           \A e \in SpecialistSet(t) : Settled(t, e) => Settled(t, e)'
    BY DEF Firm
  <2>6. checkpoint[t].stage # "none" => (Past(t) => Past(t)')  BY <2>5 DEF Past
  <2>7. /\ loaded.stage \in {"lead", "done"} => Past(t)'
        /\ loaded.stage = "specialists" =>
              \A e \in SpecialistSet(t) \cap loaded.done : Settled(t, e)'
        /\ loaded.stage = "done" => loaded.parked = {}
    BY <1>4, <2>5, <2>6 DEF Graph
  <2>8. taskStatus'[t] # "created"  BY <1>4, <2>2 DEF Graph
  <2>9. Graph(t)'
    BY <2>1, <2>3, <2>4, <2>7, <2>8 DEF Graph
  <2>. HIDE DEF x, loaded
  <2>10. Knows(x)'
    BY <1>1, <1>2, <2>1, <2>2, <2>3, <2>4, <2>7, EnterKnows
  <2>. QED  BY <1>1, <1>5, <2>1, <2>3, <2>4, <2>9, <2>10, OneKnows
<1>. QED  BY <1>6, <1>7, <1>8, <1>9 DEF ApiStep

\* The nodes: an outcome that is written says what Superstep says of it.
LEMMA NodeGraph ==
  ASSUME DeliveryInv, Base, Firm, Orderly, NEW x \in Thread,
         \/ \E e \in Execution : NodeStep(x, e)
         \/ SubmissionWaits(x) \/ SubmissionCompletes(x) \/ SubmissionFails(x)
         \/ Review(x) \/ CreateReview(x)
  PROVE  GraphInv'
<1>1. pc[x] \in InGraph
  BY DEF NodeStep, NodeReturns, NodeParks, NodeDefers, NodeRejected, NodeAdmitted,
         WriteOutcome, SubmissionWaits, SubmissionCompletes, SubmissionFails, Review,
         CreateReview, RunsNode, InGraph
<1>2. PICK t \in Task : t = Serves(x)
  BY <1>1, ServesType DEF InGraph, Base
<1>3. pc \in [Thread -> Place] /\ call \in [Thread -> Call]
      /\ checkpoint \in [Task -> Checkpoint]
  BY DEF Base, CallsFit, FlowTypes
<1>4. Knows(x) /\ Graph(t)  BY DEF DeliveryInv, GraphInv
<1>5. checkpoint[t].stage # "none"  BY <1>1, <1>2, <1>4 DEF Knows
<1>6. \A e \in SpecialistSet(t) : Settled(t, e) => Settled(t, e)'
  BY <1>5 DEF Firm
<1>7. /\ UNCHANGED job
      /\ UNCHANGED pc \/ \E place \in InGraph : pc' = [pc EXCEPT ![x] = place]
  BY DEF NodeStep, NodeReturns, NodeParks, NodeDefers, NodeRejected, NodeAdmitted,
         WriteOutcome, SubmissionWaits, SubmissionCompletes, SubmissionFails, Review,
         CreateReview, NodeFrame, GoTo, InGraph, threadVars
<1>8. pc'[x] \in InGraph /\ \A y \in Thread \ {x} : pc'[y] = pc[y]
  BY <1>1, <1>3, <1>7
<1>9. \/ UNCHANGED call
      \/ \E e : NodeRaises(x, e) \/ NodeInterrupts(x, e)
      \/ \E e : NodeDone(x, e) /\ (e \in SpecialistSet(t) => Settled(t, e)')
      \/ \E e : call' = [call EXCEPT ![x].fresh = @ \ {e}]
  <2>1. ASSUME NEW e \in Execution, NodeReturns(x, e)
        PROVE  \/ UNCHANGED call
               \/ NodeDone(x, e) /\ (e \in SpecialistSet(t) => Settled(t, e)')
    BY <1>2, <1>6, <2>1 DEF NodeReturns, Settled
  <2>2. ASSUME NEW e \in Execution,
               \/ NodeParks(x, e) \/ NodeDefers(x, e) \/ NodeRejected(x, e)
               \/ NodeAdmitted(x, e) \/ WriteOutcome(x, e)
        PROVE  \/ UNCHANGED call
               \/ NodeRaises(x, e) \/ NodeInterrupts(x, e)
               \/ call' = [call EXCEPT ![x].fresh = @ \ {e}]
    BY <2>2 DEF NodeParks, NodeDefers, NodeRejected, NodeAdmitted, WriteOutcome
  <2>3. CASE SubmissionWaits(x) \/ SubmissionFails(x) \/ CreateReview(x)
    BY <2>3 DEF SubmissionWaits, SubmissionFails, CreateReview
  <2>4. CASE SubmissionCompletes(x)
    <3>1. /\ UNCHANGED call \/ NodeDone(x, submitting)
          /\ pc[x] = "submit" /\ \E usage : SubmitCompleted(submitting, usage)
      BY <2>4 DEF SubmissionCompletes
    <3>2. submitting \in Execution  BY <3>1 DEF Base, SubmitInv
    <3>3. status'[submitting] = "completed"
      BY <3>1, <3>2 DEF SubmitCompleted, SetStatus, Base, HoldInv, TypeOK
    <3>4. PICK e \in Execution : e = submitting  BY <3>2
    <3>5. Settled(t, e)'  BY <3>3, <3>4 DEF Settled
    <3>. QED  BY <3>1, <3>4, <3>5
  <2>5. CASE Review(x)
    BY <1>2, <2>5, Roles DEF Review
  <2>. QED  BY <2>1, <2>2, <2>3, <2>4, <2>5 DEF NodeStep
<1>10. \A y \in Thread \ {x} : call'[y] = call[y]
  BY <1>3, <1>9 DEF NodeRaises, NodeInterrupts, NodeDone
<1>11. pc'[x] = "submit" => taskStatus'[t] # "cancelled"
  <2>1. CASE UNCHANGED pc
    <3>. SUFFICES ASSUME pc[x] = "submit" PROVE taskStatus'[t] # "cancelled"
      BY <2>1
    <3>1. taskStatus[t] # "cancelled"  BY <1>2, <1>4 DEF Knows
    <3>2. submitting # None  BY DEF Base, SubmitInv
    <3>. QED  BY <3>1, <3>2 DEF Orderly, LockFree
  <2>2. ASSUME NEW e \in Execution, NodeAdmitted(x, e)
        PROVE  taskStatus'[t] # "cancelled"
    BY <1>2, <2>2 DEF NodeAdmitted, taskVars
  <2>3. ~UNCHANGED pc /\ ~(\E e \in Execution : NodeAdmitted(x, e)) => pc'[x] # "submit"
    BY <1>3 DEF NodeStep, NodeReturns, NodeParks, NodeDefers, NodeRejected,
                WriteOutcome, SubmissionWaits, SubmissionCompletes, SubmissionFails, Review,
                CreateReview, GoTo, threadVars
  <2>. QED  BY <2>1, <2>2, <2>3
<1>12. /\ Graph(t)' \/ checkpoint' = checkpoint
       /\ checkpoint'[t].stage = checkpoint[t].stage
       /\ \A u \in Task \ {t} : checkpoint'[u] = checkpoint[u]
  <2>1. CASE checkpoint' = checkpoint  BY <2>1
  <2>2. ASSUME NEW e \in Execution, WriteOutcome(x, e), checkpoint' # checkpoint
        PROVE  /\ Graph(t)'
               /\ checkpoint'[t].stage = checkpoint[t].stage
               /\ \A u \in Task \ {t} : checkpoint'[u] = checkpoint[u]
    <3>1. /\ e \in call[x].fresh /\ call[x].stage = checkpoint[t].stage
          /\ UNCHANGED <<pc, taskStatus, status>>
          /\ IF e \in call[x].parked
             THEN checkpoint' = [checkpoint EXCEPT ![t].parked = @ \cup {e}]
             ELSE checkpoint' = [checkpoint EXCEPT ![t].done = @ \cup {e}]
      BY <1>2, <2>2 DEF WriteOutcome, taskVars, threadVars, controlVars
    <3>2. /\ checkpoint'[t].stage = checkpoint[t].stage
          /\ \A u \in Task \ {t} : checkpoint'[u] = checkpoint[u]
          /\ checkpoint'[t].done = checkpoint[t].done
             \/ (checkpoint'[t].done = checkpoint[t].done \cup {e} /\ e \notin call[x].parked)
      BY <1>3, <3>1 DEF Checkpoint
    <3>3. Superstep(x)  BY <1>1, <1>4 DEF Knows
    <3>4. checkpoint[t].stage \in {"specialists", "lead"}
      BY <3>1, <3>3 DEF Superstep
    <3>5. call[x].stage = "specialists" /\ e \notin call[x].parked
             => (e \in SpecialistSet(t) => Settled(t, e))
      BY <1>2, <3>1, <3>3 DEF Superstep
    <3>6. Past(t) => Past(t)'  BY <1>6 DEF Past
    <3>. QED
      BY <1>4, <1>6, <3>1, <3>2, <3>4, <3>5, <3>6 DEF Graph
  <2>3. checkpoint' = checkpoint \/ \E e \in Execution : WriteOutcome(x, e)
    BY DEF NodeStep, NodeReturns, NodeParks, NodeDefers, NodeRejected, NodeAdmitted,
           SubmissionWaits, SubmissionCompletes, SubmissionFails, Review, CreateReview,
           NodeFrame
  <2>. QED  BY <2>1, <2>2, <2>3
<1>13. Knows(x)'
  BY <1>1, <1>2, <1>7, <1>8, <1>9, <1>11, <1>12, NodeKnows
<1>. QED
  BY <1>5, <1>7, <1>8, <1>10, <1>12, <1>13, OneKnows DEF InGraph

\* The end of a superstep: the next stage is entered when this one is behind.
LEMMA SuperstepGraph ==
  ASSUME DeliveryInv, Base, Firm, Orderly, NEW x \in Thread, EndSuperstep(x)
  PROVE  GraphInv'
<1>1. pc[x] = "nodes" /\ call[x].todo = {} /\ call[x].fresh = {}
  BY DEF EndSuperstep
<1>2. PICK t \in Task : t = Serves(x)  BY <1>1, ServesType DEF Base
<1>3. pc \in [Thread -> Place] /\ call \in [Thread -> Call]
      /\ checkpoint \in [Task -> Checkpoint]
  BY DEF Base, CallsFit, FlowTypes
<1>4. Knows(x) /\ Graph(t)  BY DEF DeliveryInv, GraphInv
<1>5. Superstep(x) /\ checkpoint[t].stage # "none"
  BY <1>1, <1>2, <1>4 DEF Knows, InGraph
<1>6. UNCHANGED <<job, taskStatus>> /\ Serves(x)' = t
  BY <1>2 DEF EndSuperstep, taskVars, Serves
<1>. DEFINE next == [stage |-> NextStage(call[x].stage), by |-> x,
                     done |-> {}, parked |-> {}]
<1>7. \/ /\ UNCHANGED graphVars
         /\ \E place \in {"raised", "returned"} : pc' = [pc EXCEPT ![x] = place]
      \/ /\ ~call[x].raised /\ call[x].parked = {}
         /\ checkpoint' = [checkpoint EXCEPT ![t] = next]
         /\ Enter(x, t, next, None)
         /\ pc' = [pc EXCEPT ![x] = IF next.stage = "done" THEN "returned" ELSE "nodes"]
  BY <1>2 DEF EndSuperstep, GoTo
<1>8. CASE /\ UNCHANGED graphVars
           /\ \E place \in {"raised", "returned"} : pc' = [pc EXCEPT ![x] = place]
  <2>1. pc'[x] \in {"raised", "returned"} /\ \A y \in Thread \ {x} : pc'[y] = pc[y]
    BY <1>3, <1>8
  <2>2. Knows(x)'
    BY <1>5, <1>6, <1>8, <2>1 DEF Knows, InGraph, Superstep, graphVars
  <2>. QED  BY <1>6, <1>8, <2>1, <2>2, OneKnows DEF graphVars
<1>9. CASE /\ ~call[x].raised /\ call[x].parked = {}
           /\ checkpoint' = [checkpoint EXCEPT ![t] = next]
           /\ Enter(x, t, next, None)
           /\ pc' = [pc EXCEPT ![x] = IF next.stage = "done" THEN "returned" ELSE "nodes"]
  <2>1. Past(t)
    BY <1>1, <1>2, <1>5, <1>9 DEF Superstep, Past
  <2>2. Past(t)'  BY <1>5, <2>1 DEF Past, Firm
  <2>3. PICK c \in Checkpoint : c = next
    <3>1. NextStage(call[x].stage) \in Stage  BY DEF Stage, NextStage
    <3>2. next \in Checkpoint  BY <3>1 DEF Checkpoint
    <3>. QED  BY <3>2
  <2>4. c.stage \in {"lead", "done"} /\ c.parked = {}
    BY <2>3 DEF NextStage
  <2>5. checkpoint'[t] = c /\ \A u \in Task \ {t} : checkpoint'[u] = checkpoint[u]
    BY <1>3, <1>9, <2>3
  <2>6. /\ pc'[x] = (IF c.stage = "done" THEN "returned" ELSE "nodes")
        /\ \A y \in Thread \ {x} : pc'[y] = pc[y] /\ call'[y] = call[y]
    BY <1>3, <1>9, <2>3 DEF Enter
  <2>7. Graph(t)'
    <3>1. Api(t) \in Thread  BY ThreadNames
    <3>2. pc'[Api(t)] = pc[Api(t)] \/ pc'[Api(t)] \notin {"prepare", "invoke"}
      BY <2>6, <3>1
    <3>. QED  BY <1>4, <1>5, <1>6, <2>2, <2>4, <2>5, <3>2 DEF Graph
  <2>8. Knows(x)'
    BY <1>6, <1>9, <2>2, <2>3, <2>4, <2>5, <2>6, EnterKnows
  <2>. QED  BY <1>6, <2>4, <2>5, <2>6, <2>7, <2>8, OneKnows
<1>. QED  BY <1>7, <1>8, <1>9

\* What follows an invocation: _finish_task is reached with everything delivered.
LEMMA ReturnGraph ==
  ASSUME DeliveryInv, Base, Firm, Orderly, NEW x \in Thread,
         Raised(x) \/ Returned(x) \/ Finish(x)
  PROVE  GraphInv'
<1>1. pc[x] \in {"raised", "returned", "finish"} /\ UNCHANGED checkpoint
  BY DEF Raised, Returned, Finish
<1>2. PICK t \in Task : t = Serves(x)  BY <1>1, ServesType DEF Base
<1>3. pc \in [Thread -> Place] /\ call \in [Thread -> Call]
      /\ job \in [Thread -> Execution \cup {None}]
  BY DEF Base, CallsFit, FlowTypes
<1>4. Knows(x)  BY DEF DeliveryInv, GraphInv
<1>5. CASE Leave(x) \/ LeaveRaised(x)
  <2>1. pc'[x] \in {"idle", "drain"}
        /\ \A y \in Thread \ {x} : pc'[y] = pc[y] /\ call'[y] = call[y] /\ job'[y] = job[y]
    BY <1>3, <1>5 DEF Leave, LeaveRaised, GoTo
  <2>2. Knows(x)'  BY <2>1 DEF Knows, InGraph
  <2>. QED  BY <1>1, <2>1, <2>2, OneKnows
<1>6. CASE /\ UNCHANGED <<call, job>>
           /\ \/ pc' = [pc EXCEPT ![x] = "raised"]
              \/ /\ pc' = [pc EXCEPT ![x] = "finish"]
                 /\ pc[x] = "returned" /\ call[x].stage = "done"
                 /\ taskStatus[t] # "cancelled" /\ UNCHANGED controlVars
  <2>1. \A y \in Thread \ {x} : pc'[y] = pc[y] /\ call'[y] = call[y] /\ job'[y] = job[y]
    BY <1>3, <1>6
  <2>2. Serves(x)' = t  BY <1>2, <1>6 DEF Serves
  <2>3. pc'[x] \in {"raised", "finish"}
        /\ (pc'[x] = "finish" => /\ Past(t) /\ checkpoint[t].stage # "none"
                                 /\ taskStatus[t] # "cancelled" /\ UNCHANGED controlVars)
    BY <1>2, <1>3, <1>4, <1>6 DEF Knows
  <2>4. pc'[x] = "finish" => Delivered(t)'
    BY <2>3 DEF Past, Settled, Delivered, controlVars
  <2>5. Knows(x)'
    BY <1>1, <2>2, <2>3, <2>4 DEF Knows, InGraph
  <2>. QED  BY <1>1, <2>1, <2>3, <2>5, OneKnows
<1>7. \/ Leave(x) \/ LeaveRaised(x)
      \/ /\ UNCHANGED <<call, job>>
         /\ \/ pc' = [pc EXCEPT ![x] = "raised"]
            \/ /\ pc' = [pc EXCEPT ![x] = "finish"]
               /\ pc[x] = "returned" /\ call[x].stage = "done"
               /\ taskStatus[t] # "cancelled" /\ UNCHANGED controlVars
  BY <1>2 DEF Raised, Returned, Finish, GoTo
<1>. QED  BY <1>5, <1>6, <1>7

\* A resume enters what the checkpoint holds.
LEMMA ResumeGraph ==
  ASSUME DeliveryInv, Base, Firm, Orderly, NEW x \in Thread, Resume(x)
  PROVE  GraphInv'
<1>1. pc[x] = "resume" /\ ~IsApi(x) /\ job[x] \in Execution
  BY DEF Resume, Base, CallsFit, Fits
<1>2. PICK t \in Task : t = TaskOf(job[x])  BY <1>1, TaskOfType
<1>3. pc \in [Thread -> Place] /\ call \in [Thread -> Call]
      /\ job \in [Thread -> Execution \cup {None}] /\ checkpoint[t] \in Checkpoint
  BY DEF Base, CallsFit, FlowTypes
<1>4. Graph(t)  BY DEF DeliveryInv, GraphInv
<1>5. UNCHANGED checkpoint  BY DEF Resume
<1>6. \/ Leave(x) \/ LeaveRaised(x)
      \/ \E given \in Execution \cup {None} :
            /\ Enter(x, t, checkpoint[t], given) /\ UNCHANGED job
            /\ \/ pc' = [pc EXCEPT ![x] = "nodes"] /\ checkpoint[t].parked # {}
               \/ pc' = [pc EXCEPT ![x] = "returned"] /\ checkpoint[t].stage = "done"
  BY <1>1, <1>2 DEF Resume, GoTo
<1>7. CASE Leave(x) \/ LeaveRaised(x)
  <2>1. pc'[x] \in {"idle", "drain"}
        /\ \A y \in Thread \ {x} : pc'[y] = pc[y] /\ call'[y] = call[y] /\ job'[y] = job[y]
    BY <1>3, <1>7 DEF Leave, LeaveRaised, GoTo
  <2>2. Knows(x)'  BY <2>1 DEF Knows, InGraph
  <2>. QED  BY <1>5, <2>1, <2>2, OneKnows
<1>8. ASSUME NEW given \in Execution \cup {None},
             Enter(x, t, checkpoint[t], given), UNCHANGED job,
             \/ pc' = [pc EXCEPT ![x] = "nodes"] /\ checkpoint[t].parked # {}
             \/ pc' = [pc EXCEPT ![x] = "returned"] /\ checkpoint[t].stage = "done"
      PROVE  GraphInv'
  <2>1. PICK c \in Checkpoint : c = checkpoint[t]  BY <1>3
  <2>2. /\ pc'[x] \in {"nodes", "returned"} /\ c.stage # "none"
        /\ pc'[x] = "nodes" => c.stage # "done"
        /\ \A y \in Thread \ {x} : pc'[y] = pc[y] /\ call'[y] = call[y] /\ job'[y] = job[y]
    BY <1>3, <1>4, <1>8, <2>1 DEF Graph, Enter
  <2>3. \A e \in SpecialistSet(t) : Settled(t, e) => Settled(t, e)'
    BY <2>1, <2>2 DEF Firm
  <2>4. Past(t) => Past(t)'  BY <2>3 DEF Past
  <2>5. Serves(x)' = t  BY <1>1, <1>2, <1>8 DEF Serves
  <2>6. Knows(x)'
    BY <1>4, <1>5, <1>8, <2>1, <2>2, <2>3, <2>4, <2>5, EnterKnows DEF Graph
  <2>. QED  BY <1>5, <2>2, <2>6, OneKnows
<1>. QED  BY <1>6, <1>7, <1>8

\* A drain, and the end of a Turn, leave the graphs alone.
LEMMA ReportGraph ==
  ASSUME DeliveryInv, Base, Firm, Orderly, NEW x \in Thread,
         Drain(x) \/ \E e \in Execution : x = Worker(e) /\ ReportStep(e)
  PROVE  GraphInv'
<1>1. pc \in [Thread -> Place] /\ job \in [Thread -> Execution \cup {None}]
  BY DEF Base, CallsFit, FlowTypes
<1>2. /\ UNCHANGED graphVars
      /\ \E place \in {"resume", "idle", "drain"} : pc' = [pc EXCEPT ![x] = place]
      /\ UNCHANGED job \/ \E e : job' = [job EXCEPT ![x] = e]
  BY DEF Drain, ReportStep, TurnCompletes, TurnFails, TurnInterrupted, GoTo
<1>3. pc'[x] \in {"resume", "idle", "drain"}
      /\ \A y \in Thread \ {x} : pc'[y] = pc[y] /\ call'[y] = call[y] /\ job'[y] = job[y]
  BY <1>1, <1>2 DEF graphVars
<1>4. Knows(x)'  BY <1>3 DEF Knows, InGraph
<1>. QED  BY <1>2, <1>3, <1>4, OneKnows DEF graphVars

\* DeliveryInv is inductive.
LEMMA DeliveryStep ==
  ASSUME DeliveryInv, Base, [FlowNext]_vars
  PROVE  DeliveryInv'
<1>1. Firm /\ RowsInv' /\ Orderly  BY RowsStep
<1>2. CASE UNCHANGED vars
  <2>1. UNCHANGED <<pc, call, job, checkpoint>>
    BY <1>2 DEF vars, flowVars, threadVars, graphVars
  <2>2. ASSUME NEW y \in Thread PROVE Knows(y)'  BY <1>1, <2>1, KnowsStill
  <2>3. ASSUME NEW t \in Task PROVE Graph(t)'  BY <1>1, <2>1, GraphStill
  <2>. QED  BY <1>1, <2>2, <2>3 DEF GraphInv, DeliveryInv
<1>3. CASE FlowNext
  <2>1. ASSUME NEW x \in Thread, ThreadStep(x) PROVE GraphInv'
    BY <1>1, <2>1, NodeGraph, SuperstepGraph, ReturnGraph, ResumeGraph, ReportGraph
       DEF ThreadStep
  <2>2. ASSUME NEW e \in Execution, ReportStep(e) PROVE GraphInv'
    BY <1>1, <2>2, ThreadNames, ReportGraph
  <2>3. GraphInv'  BY <1>1, <1>3, <2>1, <2>2, ClientGraph DEF FlowNext
  <2>. QED  BY <1>1, <2>3 DEF DeliveryInv
<1>. QED  BY <1>2, <1>3

-----------------------------------------------------------------------------
(* Delivered and completed work.                                           *)

\* What a step is to the rows: one transaction, one answer, one task status.
StepKind ==
  /\ \/ Plain
     \/ \E S \in SUBSET Execution : Create(S)
     \/ \E t \in Task : RetryTask(t)
  /\ \/ UNCHANGED verdict
     \/ \E t \in Task : RetryTask(t)
     \/ \E e \in Execution : Answer(e) /\ status[e] # "completed"
  /\ \/ UNCHANGED taskStatus
     \/ \E t \in Task, s \in TaskStatus :
           /\ SetTask(t, s)
           /\ s = "completed" => \E x \in Thread : Finish(x) /\ t = Serves(x)

\* The steps of the nodes, and of a thread outside them.
LEMMA ThreadKind ==
  ASSUME Base, NEW x \in Thread, ThreadStep(x)
  PROVE  StepKind
<1>. USE DEF TaskStatus, Terminal
<1>1. ASSUME NEW e \in Execution, NodeStep(x, e) PROVE StepKind
  <2>1. CASE NodeReturns(x, e) \/ NodeParks(x, e) \/ NodeAdmitted(x, e) \/ WriteOutcome(x, e)
    <3>1. (UNCHANGED controlVars \/ Admit(e)) /\ UNCHANGED verdict /\ UNCHANGED taskStatus
      BY <2>1 DEF NodeReturns, NodeParks, NodeAdmitted, WriteOutcome, taskVars
    <3>. QED  BY <3>1 DEF StepKind, Plain
  <2>2. CASE NodeDefers(x, e) \/ NodeRejected(x, e)
    <3>1. RunsNode(x, e) /\ (Defer(e) \/ Reject(e)) /\ UNCHANGED verdict
      BY <2>2 DEF NodeDefers, NodeRejected
    <3>2. SetTask(Serves(x), "waiting") \/ SetTask(Serves(x), "failed")
      BY <2>2 DEF NodeDefers, NodeRejected
    <3>3. Serves(x) \in Task  BY <3>1, ServesType DEF RunsNode, Base
    <3>. QED  BY <3>1, <3>2, <3>3 DEF StepKind, Plain
  <2>. QED  BY <1>1, <2>1, <2>2 DEF NodeStep
<1>2. CASE SubmissionWaits(x) \/ SubmissionCompletes(x) \/ SubmissionFails(x)
  <2>1. pc[x] = "submit" /\ \/ SubmitWaiting(submitting) \/ SubmitFailed(submitting)
                            \/ \E usage \in Usage \cup {None} :
                                  SubmitCompleted(submitting, usage)
    BY <1>2 DEF SubmissionWaits, SubmissionCompletes, SubmissionFails
  <2>2. PICK e \in Execution : e = submitting  BY <2>1 DEF SubmitInv, Base
  <2>3. status[e] = "running"
    BY <2>2, ConstantsAssumption DEF Base, HoldInv, SubmittingRuns, ConstantsAssumption
  <2>4. Plain  BY <2>1, <2>2 DEF Plain
  <2>5. UNCHANGED verdict \/ Answer(e)
    BY <1>2, <2>2 DEF SubmissionWaits, SubmissionCompletes, SubmissionFails
  <2>6. Serves(x) \in Task  BY <2>1, ServesType DEF Base
  <2>7. UNCHANGED taskStatus \/ SetTask(Serves(x), "waiting") \/ SetTask(Serves(x), "failed")
    BY <1>2 DEF SubmissionWaits, SubmissionCompletes, SubmissionFails
  <2>. QED  BY <2>3, <2>4, <2>5, <2>6, <2>7 DEF StepKind
<1>3. CASE Review(x)
  <2>1. pc[x] = "review" /\ UNCHANGED controlVars /\ UNCHANGED verdict
        /\ (UNCHANGED taskStatus \/ SetTask(Serves(x), "failed"))
    BY <1>3 DEF Review
  <2>2. Serves(x) \in Task  BY <2>1, ServesType DEF Base
  <2>. QED  BY <2>1, <2>2 DEF StepKind, Plain
<1>4. CASE CreateReview(x)
  <2>1. UNCHANGED <<verdict, taskStatus>> /\ \E e : Create({e})
    BY <1>4 DEF CreateReview, taskVars
  <2>2. \E S \in SUBSET Execution : Create(S)  BY <2>1 DEF Create
  <2>. QED  BY <2>1, <2>2 DEF StepKind
<1>5. CASE EndSuperstep(x) \/ Raised(x) \/ Returned(x) \/ Resume(x) \/ Drain(x)
  <2>1. /\ UNCHANGED verdict /\ UNCHANGED taskStatus
        /\ UNCHANGED controlVars \/ \E e \in Execution : Pick(e)
    BY <1>5 DEF EndSuperstep, Raised, Returned, Resume, Drain, Eligible, DeferredSet,
                taskVars
  <2>. QED  BY <2>1 DEF StepKind, Plain
<1>6. CASE Finish(x)
  <2>1. pc[x] = "finish" /\ UNCHANGED controlVars /\ UNCHANGED verdict
        /\ \E s \in {"completed", "needs_revision"} : SetTask(Serves(x), s)
    BY <1>6 DEF Finish
  <2>2. Serves(x) \in Task  BY <2>1, ServesType DEF Base
  <2>. QED  BY <1>6, <2>1, <2>2 DEF StepKind, Plain
<1>. QED  BY <1>1, <1>2, <1>3, <1>4, <1>5, <1>6 DEF ThreadStep

LEMMA KindOfStep ==
  ASSUME Base, [FlowNext]_vars
  PROVE  StepKind
<1>. USE DEF TaskStatus, Terminal
<1>1. CASE UNCHANGED vars
  BY <1>1 DEF vars, flowVars, taskVars, StepKind, Plain
<1>2. ASSUME NEW t \in Task, Submit(t) \/ UserCancels(t) \/ ApiStep(t) PROVE StepKind
  <2>1. CASE Submit(t) \/ LoadTask(t) \/ Invoke(t)
    BY <2>1 DEF Submit, LoadTask, Invoke, taskVars, StepKind, Plain
  <2>2. CASE UserCancels(t)
    <3>1. Cancel(ExecutionsOf(t)) /\ SetTask(t, "cancelled") /\ UNCHANGED verdict
      BY <2>2 DEF UserCancels, CancelTask
    <3>. QED  BY <3>1, MembersType DEF StepKind, Plain
  <2>3. CASE PrepareAssignments(t)
    <3>1. Create(SpecialistSet(t)) /\ SetTask(t, "running") /\ UNCHANGED verdict
      BY <2>3 DEF PrepareAssignments
    <3>. QED  BY <3>1, Roles DEF StepKind
  <2>. QED  BY <1>2, <2>1, <2>2, <2>3 DEF ApiStep
<1>3. ASSUME NEW t \in Task, RetryTask(t) PROVE StepKind
  <2>1. SetTask(t, "running")  BY <1>3 DEF RetryTask
  <2>. QED  BY <1>3, <2>1 DEF StepKind
<1>4. ASSUME NEW e \in Execution, ReportStep(e) PROVE StepKind
  <2>1. TaskOf(e) \in Task  BY TaskOfType
  <2>2. CASE TurnCompletes(e)
    <3>1. /\ Answer(e) /\ UNCHANGED taskStatus
          /\ \E usage \in Usage \cup {None} : Complete(e, usage)
      BY <2>2 DEF TurnCompletes
    <3>. QED  BY <3>1 DEF StepKind, Plain, Complete
  <2>3. CASE TurnFails(e)
    <3>1. Fail(e) /\ SetTask(TaskOf(e), "failed") /\ UNCHANGED verdict
      BY <2>3 DEF TurnFails
    <3>. QED  BY <2>1, <3>1 DEF StepKind, Plain
  <2>4. CASE TurnInterrupted(e)
    <3>1. UNCHANGED verdict
          /\ \/ Cancel(ExecutionsOf(TaskOf(e))) /\ SetTask(TaskOf(e), "cancelled")
             \/ UNCHANGED <<controlVars, taskStatus>>
      BY <2>4 DEF TurnInterrupted, CancelTask
    <3>. QED  BY <2>1, <3>1, MembersType DEF StepKind, Plain
  <2>. QED  BY <1>4, <2>2, <2>3, <2>4 DEF ReportStep
<1>. QED  BY <1>1, <1>2, <1>3, <1>4, ThreadKind DEF FlowNext

\* Completed work changes only when a retry sends back a review that was refused.
LEMMA CompletedKept ==
  ASSUME Base, [FlowNext]_vars, NEW e \in Execution,
         status[e] = "completed", status'[e] # "completed"
  PROVE  \E t \in Task : /\ RetryTask(t)
                         /\ e = Lead[t] /\ badReview[t]
<1>1. ~Plain  BY PlainKeeps DEF Base
<1>2. ~(\E S \in SUBSET Execution : Create(S))  BY DEF Create
<1>3. PICK t \in Task : RetryTask(t)  BY <1>1, <1>2, KindOfStep DEF StepKind
<1>4. status' = [f \in Execution |->
                   IF f \in {g \in ExecutionsOf(t) :
                               status[g] = "failed" \/ (g = Lead[t] /\ badReview[t])}
                   THEN "submitted" ELSE status[f]]
  BY <1>3 DEF RetryTask, Retry
<1>. QED  BY <1>3, <1>4

\* A completed task keeps its verdict and its work; one is completed by
\* _finish_task only.
LEMMA CompletionKept ==
  ASSUME Base, DeliveryInv, CompletedOnAcceptance, [FlowNext]_vars
  PROVE  CompletedOnAcceptance'
<1>. SUFFICES ASSUME NEW t \in Task, taskStatus'[t] = "completed"
              PROVE  /\ verdict'[t] = "accepted"
                     /\ \A e \in ExecutionsOf(t) : status'[e] = "completed"
  BY DEF CompletedOnAcceptance
<1>1. StepKind  BY KindOfStep
<1>2. taskStatus \in [Task -> TaskStatus]  BY DEF Base, CallsFit, FlowTypes
<1>3. ExecutionsOf(t) \subseteq Execution /\ Lead[t] \in ExecutionsOf(t)
  BY MembersType, Roles
<1>4. CASE taskStatus[t] = "completed"
  <2>1. verdict[t] = "accepted" /\ \A e \in ExecutionsOf(t) : status[e] = "completed"
    BY <1>4 DEF CompletedOnAcceptance
  <2>2. ~RetryTask(t)  BY <1>4 DEF RetryTask
  <2>3. \A u \in Task : RetryTask(u) => Lead[u] # Lead[t] /\ Lead[u] \notin ExecutionsOf(t)
    BY <2>2, Roles DEF ExecutionsOf
  <2>4. \A e \in ExecutionsOf(t) : status'[e] = "completed"
    BY <1>3, <2>1, <2>3, CompletedKept
  <2>5. verdict'[t] = verdict[t]
    <3>1. ASSUME NEW u \in Task, RetryTask(u) PROVE verdict'[t] = verdict[t]
      BY <2>2, <3>1 DEF RetryTask, Base, HolderInv, DataTypes
    <3>2. ASSUME NEW e \in Execution, Answer(e), status[e] # "completed"
          PROVE  verdict'[t] = verdict[t]
      BY <1>3, <2>1, <3>2, TaskOfType DEF Answer, Base, HolderInv, DataTypes
    <3>. QED  BY <1>1, <3>1, <3>2 DEF StepKind
  <2>. QED  BY <2>1, <2>4, <2>5
<1>5. CASE taskStatus[t] # "completed"
  <2>1. PICK x \in Thread : Finish(x) /\ t = Serves(x)
    BY <1>1, <1>5, OneTaskSet DEF StepKind
  <2>2. UNCHANGED <<status, verdict>> /\ verdict[t] = "accepted"
    BY <1>2, <2>1 DEF Finish, SetTask, controlVars
  <2>3. "accepted" # None
    BY FlowAssumption DEF FlowAssumption, VerdictKinds
  <2>4. status[Lead[t]] = "completed" /\ Delivered(t)
    BY <2>2, <2>3 DEF DeliveryInv, RowsInv, Rows
  <2>. QED  BY <2>2, <2>4 DEF ExecutionsOf, Delivered
<1>. QED  BY <1>4, <1>5

-----------------------------------------------------------------------------
(* The theorems.                                                           *)

FlowInv == Base /\ DeliveryInv /\ CompletedOnAcceptance

LEMMA FlowInvStep == FlowInv /\ [FlowNext]_vars => FlowInv'
<1>. SUFFICES ASSUME FlowInv, [FlowNext]_vars PROVE FlowInv'
  OBVIOUS
<1>. USE DEF FlowInv
<1>1. SubmitInv' /\ [ControlNext]_controlVars  BY FlowStep DEF Base, Sound
<1>2. HoldInv'  BY <1>1, HoldStep DEF Base, CrashNext
<1>3. CallsFit' /\ CancelledIsQuiet'  BY QuietStep, QuietKept DEF Base
<1>4. HolderInv'  BY DataStep, HolderStep DEF Base, HolderInv
<1>. QED  BY <1>1, <1>2, <1>3, <1>4, DeliveryStep, CompletionKept DEF Base

LEMMA FlowInvInit == FlowInit => FlowInv
<1>. SUFFICES ASSUME FlowInit PROVE FlowInv
  OBVIOUS
<1>1. SubmitInv  BY DEF FlowInit, ControlInit, SubmitInv, Place
<1>2. HoldInv  BY HoldInit DEF FlowInit
<1>3. CallsFit  BY QuietInit
<1>4. CancelledIsQuiet /\ CompletedOnAcceptance
  BY DEF FlowInit, CancelledIsQuiet, CompletedOnAcceptance
<1>5. HolderInv
  <2>1. DataTypes
    BY FlowAssumption DEF FlowInit, DataTypes, FlowAssumption
  <2>2. LockTypes /\ \A x \in Thread : Holds(x)
    BY ThreadAssumption DEF FlowInit, LockTypes, Holds
  <2>. QED  BY <2>1, <2>2 DEF HolderInv
<1>6. RowsInv  BY Roles DEF FlowInit, ControlInit, RowsInv, Rows
<1>7. GraphInv
  BY ThreadNames DEF FlowInit, GraphInv, Graph, Knows, InGraph
<1>. QED  BY <1>1, <1>2, <1>3, <1>4, <1>5, <1>6, <1>7 DEF FlowInv, Base, DeliveryInv

LEMMA FlowInvariant == FlowSpec => []FlowInv
BY FlowInvInit, FlowInvStep, PTL DEF FlowSpec

\* The types of TaskFlow; a thread that left the graph left its locks.
THEOREM FlowTypeCorrect == FlowSpec => []FlowTypeOK
<1>1. FlowInv => FlowTypeOK
  BY TypesJoin DEF FlowInv, Base, HoldInv, CallsFit
<1>. QED  BY <1>1, FlowInvariant, PTL

\* A lead reviews finished work only, whatever is retried, resumed or cancelled
\* meanwhile.
LEMMA RowsReview ==
  ASSUME RowsInv
  PROVE  ReviewAfterDelivery
BY DEF RowsInv, Rows, Delivered, ReviewAfterDelivery

THEOREM ReviewsFinishedWork == FlowSpec => []ReviewAfterDelivery
<1>1. FlowInv => ReviewAfterDelivery  BY RowsReview DEF FlowInv, DeliveryInv
<1>. QED  BY <1>1, FlowInvariant, PTL

\* _finish_task, which reads the verdict without looking at any execution,
\* completes a task only when every execution delivered.
THEOREM CompletedIsAccepted == FlowSpec => []CompletedOnAcceptance
<1>1. FlowInv => CompletedOnAcceptance  BY DEF FlowInv
<1>. QED  BY <1>1, FlowInvariant, PTL

\* Delivered work is never done again, but a refused review.
THEOREM DeliveredIsKept == FlowSpec => DeliveredStays
<1>1. FlowInv /\ [FlowNext]_vars =>
        [\A e \in Execution : status[e] = "completed" /\ status'[e] # "completed" =>
           e = Lead[TaskOf(e)] /\ badReview[TaskOf(e)]]_vars
  BY CompletedKept, Roles DEF FlowInv
<1>. QED  BY <1>1, FlowInvariant, PTL DEF FlowSpec, DeliveredStays

-----------------------------------------------------------------------------
(* Who waits for what.                                                     *)

\* A Turn of the Runtime is under way for e.
Turn(e) == status[e] = "waiting" /\ ~capacityWait[e]

\* A superstep that raised is lost to its task.
Lost(x) == pc[x] = "raised" \/ (pc[x] \in InGraph /\ call[x].raised)

\* The places of an invocation that has not raised.
Within == InGraph \cup {"returned", "finish"}

\* The client's thread is in the graph of its task, or on its way there.
Calling(t) ==
  \/ pc[Api(t)] \in {"prepare", "invoke", "raised"} \cup Within
  \/ pc[Api(t)] = "load" /\ taskStatus[t] = "running"

\* The threads that will still do something for t: one at most, as it shows.
Serving(t) == {x \in Thread :
  /\ ~Lost(x)
  /\ IF IsApi(x) THEN x = Api(t) /\ Calling(t)
     ELSE pc[x] \in {"resume"} \cup Within /\ TaskOf(job[x]) = t}

\* The rows of a task: nothing fails, and whoever waits is waited for: a Turn by
\* the supervisor, at an interrupt the latest checkpoint knows, or by the thread
\* that is about to hand it to the supervisor.
Waits(t) ==
  \A e \in ExecutionsOf(t) :
    /\ status[e] # "failed"
    /\ status[e] = "waiting" => taskStatus[t] = "waiting"
    /\ e \in watched => Turn(e) /\ e \in checkpoint[t].parked
    /\ Turn(e) => e \in watched \/ \E x \in Serving(t) : e \in call[x].parked

\* How far the graph is, as the review and the status of the task tell.
Reaches(t) ==
  LET c == checkpoint[t] IN
  /\ status[Lead[t]] # "absent" => c.stage \in {"lead", "done"}
  /\ c.stage = "none" => c.done = {}
  /\ c.stage = "done" \/ Lead[t] \in c.done => Settled(t, Lead[t])
  /\ taskStatus[t] = "waiting" =>
       Serving(t) # {} \/ \E e \in ExecutionsOf(t) : status[e] = "waiting"
  /\ taskStatus[t] = "failed" =>
       Serving(t) = {} /\ c.stage = "lead" /\ Lead[t] \notin c.done
  /\ Calling(t) => /\ watched \cap ExecutionsOf(t) = {}
                   /\ Serving(t) \subseteq {Api(t)}

\* Where a thread is, what it holds, and the status of its task.
Stands(x) ==
  LET t == Serves(x) IN
  /\ x \in draining => pc[x] = "drain"
  /\ pc[x] \in {"load", "prepare", "invoke"} => IsApi(x)
  /\ pc[x] \notin {"raised"} \cup Within => call[x].parked = {}
  /\ ~IsApi(x) /\ pc[x] \in {"resume", "raised"} \cup Within => completing = x
  /\ Lost(x) /\ pc[x] \in InGraph =>
       pc[x] = "nodes" /\ call[x].todo = {} /\ call[x].fresh = {}
  /\ pc[x] = "prepare" => taskStatus[t] \in {"created", "cancelled"}
  /\ pc[x] = "invoke" => taskStatus[t] \in {"running", "cancelled"}
  /\ pc[x] \in Within /\ ~Lost(x) =>
       taskStatus[t] \in {"waiting", "cancelled"} \/ (IsApi(x) /\ taskStatus[t] = "running")
  /\ pc[x] = "resume" =>
       /\ taskStatus[t] \in {"waiting", "cancelled"}
       /\ Settled(t, job[x])
       /\ taskStatus[t] # "cancelled" => job[x] \in checkpoint[t].parked
  /\ pc[x] = "submit" => submitting \in call[x].todo
  /\ pc[x] = "review" => Lead[t] \in call[x].todo /\ Settled(t, Lead[t])
  /\ pc[x] = "finish" => status[Lead[t]] = "completed"

\* The superstep of a thread, and the latest checkpoint.
Runs(x) ==
  LET t == Serves(x)
      i == call[x]
      c == checkpoint[t] IN
  pc[x] \in InGraph \cup {"returned"} /\ ~Lost(x) =>
    /\ i.stage = c.stage /\ i.by = c.by
    /\ i.parked \cup i.fresh \subseteq Members(t, i.stage)
    /\ i.parked \cap i.todo = {} /\ i.fresh \cap i.todo = {} /\ i.todo \cap c.done = {}
    /\ \A e \in Members(t, i.stage) \ (i.todo \cup i.parked) : Settled(t, e)
    /\ \A e \in i.parked :
         /\ taskStatus[t] # "cancelled" => status[e] = "waiting"
         /\ e \in i.fresh \cup c.parked
    /\ i.given # None => i.given \in ExecutionsOf(t) /\ Settled(t, i.given)
    /\ IsApi(x) /\ taskStatus[t] = "waiting" => i.parked # {}
    /\ pc[x] = "returned" =>
         i.fresh = {} /\ i.todo = {} /\ (i.stage = "done" \/ i.parked # {})

SteadyInv ==
  /\ \A t \in Task : Waits(t) /\ Reaches(t)
  /\ \A x \in Thread : Stands(x) /\ Runs(x)

\* A drain finds nothing to pick.
NothingToPick ==
  LockFree => \A x \in Thread : pc[x] = "drain" => ~SlotFree \/ Eligible = {}

\* What is not the case when a Turn fails or is refused.
Calm ==
  /\ Submissions \subseteq {"waiting", "completed"}
  /\ Reports \subseteq {"completed", "interrupted"}
  /\ BudgetLimit = Unlimited

-----------------------------------------------------------------------------
(* One thread, one task.                                                   *)

\* The names of threads.
LEMMA ApiNames ==
  /\ \A t \in Task : Api(t) \in Thread /\ IsApi(Api(t)) /\ Serves(Api(t)) = t
  /\ \A x \in Thread : IsApi(x) => Serves(x) \in Task /\ x = Api(Serves(x))
  /\ \A e \in Execution : Worker(e) \in Thread /\ ~IsApi(Worker(e))
  /\ \A t \in Task : Stopper(t) \in Thread /\ ~IsApi(Stopper(t))
<1>1. \A t \in Task : Api(t) \in Thread /\ IsApi(Api(t)) /\ Serves(Api(t)) = t
  BY ThreadNames DEF Api, IsApi, Serves
<1>2. \A x \in Thread : IsApi(x) => Serves(x) \in Task /\ x = Api(Serves(x))
  BY ApiServes
<1>3. \A e \in Execution : Worker(e) \in Thread /\ ~IsApi(Worker(e))
  BY ThreadNames DEF Worker, IsApi
<1>4. \A t \in Task : Stopper(t) \in Thread /\ ~IsApi(Stopper(t))
  BY ThreadNames DEF Stopper, IsApi
<1>. QED  BY <1>1, <1>2, <1>3, <1>4

\* Whoever serves a task serves no other.
LEMMA ServesOnce ==
  ASSUME NEW t \in Task, NEW x \in Serving(t)
  PROVE  /\ x \in Thread /\ Serves(x) = t /\ ~Lost(x)
         /\ \A u \in Task \ {t} : x \notin Serving(u)
         /\ IsApi(x) => x = Api(t) /\ Calling(t)
         /\ ~IsApi(x) => pc[x] \in {"resume"} \cup Within
<1>1. \A u \in Task : x \in Serving(u) => Serves(x) = u
  BY ApiNames DEF Serving, Serves
<1>. QED  BY <1>1 DEF Serving

\* A thread in a graph that has not raised serves its task.
LEMMA WithinServes ==
  ASSUME Base, NEW x \in Thread, ~Lost(x),
         \/ pc[x] \in {"resume"} \cup Within
         \/ pc[x] \in {"prepare", "invoke"} /\ IsApi(x)
         \/ pc[x] = "load" /\ taskStatus[Serves(x)] = "running" /\ IsApi(x)
  PROVE  Serves(x) \in Task /\ x \in Serving(Serves(x))
<1>1. pc[x] \notin {"idle", "drain"}  BY DEF Within, InGraph
<1>2. Serves(x) \in Task  BY <1>1, ServesType DEF Base
<1>3. CASE IsApi(x)
  <2>1. x = Api(Serves(x))  BY <1>3, ApiNames
  <2>2. pc[x] # "resume"  BY <1>3 DEF Base, CallsFit, Fits
  <2>. QED  BY <1>2, <1>3, <2>1, <2>2 DEF Serving, Calling
<1>4. CASE ~IsApi(x)
  <2>1. Serves(x) = TaskOf(job[x])  BY <1>4 DEF Serves
  <2>. QED  BY <1>2, <1>4, <2>1 DEF Serving
<1>. QED  BY <1>3, <1>4

\* One thread at most serves a task.
LEMMA OneServes ==
  ASSUME SteadyInv, NEW t \in Task, NEW x \in Serving(t)
  PROVE  Serving(t) = {x}
<1>. SUFFICES ASSUME NEW y \in Serving(t) PROVE y = x
  OBVIOUS
<1>1. CASE IsApi(x) \/ IsApi(y)
  <2>1. Calling(t)  BY <1>1, ServesOnce
  <2>2. Serving(t) \subseteq {Api(t)}  BY <2>1 DEF SteadyInv, Reaches
  <2>. QED  BY <2>2
<1>2. CASE ~IsApi(x) /\ ~IsApi(y)
  <2>1. completing = x /\ completing = y
    BY <1>2, ServesOnce DEF SteadyInv, Stands
  <2>. QED  BY <2>1
<1>. QED  BY <1>1, <1>2

\* A step of thread x on behalf of task t.
OneStep(x, t) ==
  /\ \A y \in Thread \ {x} :
       /\ pc'[y] = pc[y] /\ call'[y] = call[y] /\ job'[y] = job[y]
       /\ y \in draining' => y \in draining
       /\ completing = y => completing' = y
       /\ pc[y] = "submit" => submitting' = submitting
  /\ \A u \in Task \ {t} :
       /\ taskStatus'[u] = taskStatus[u] /\ checkpoint'[u] = checkpoint[u]
       /\ \A e \in ExecutionsOf(u) :
            /\ status'[e] = status[e] /\ capacityWait'[e] = capacityWait[e]
            /\ e \in watched' <=> e \in watched
       /\ x # Api(u) /\ x \notin Serving(u) /\ x \notin Serving(u)'
  /\ taskStatus'[t] = "running" => taskStatus[t] = "running" \/ x = Api(t)

\* Whoever else serves t served it before; the other tasks are served as before.
LEMMA OthersServe ==
  ASSUME NEW t \in Task, NEW x \in Thread, OneStep(x, t)
  PROVE  /\ Serving(t)' \subseteq Serving(t) \cup {x}
         /\ \A u \in Task \ {t} : Serving(u)' = Serving(u) /\ (Calling(u)' <=> Calling(u))
<1>1. \A y \in Thread \ {x} : Lost(y)' <=> Lost(y)
  BY DEF OneStep, Lost
<1>2. ASSUME NEW u \in Task \ {t}
      PROVE  /\ Calling(u)' <=> Calling(u)
             /\ Serving(u)' = Serving(u)
  <2>1. Api(u) \in Thread \ {x}  BY ApiNames DEF OneStep
  <2>2. Calling(u)' <=> Calling(u)  BY <2>1 DEF Calling, OneStep
  <2>3. \A y \in Thread \ {x} : y \in Serving(u)' <=> y \in Serving(u)
    BY <1>1, <2>2 DEF Serving, OneStep
  <2>4. x \notin Serving(u) /\ x \notin Serving(u)'  BY DEF OneStep
  <2>5. Serving(u) \subseteq Thread /\ Serving(u)' \subseteq Thread  BY DEF Serving
  <2>. QED  BY <2>2, <2>3, <2>4, <2>5
<1>3. ASSUME NEW y \in Serving(t)', y # x
      PROVE  y \in Serving(t)
  <2>1. y \in Thread \ {x}  BY <1>3 DEF Serving
  <2>2. IsApi(y) => Calling(t)
    <3>1. SUFFICES ASSUME IsApi(y) PROVE Calling(t)
      OBVIOUS
    <3>2. y = Api(t) /\ Calling(t)'  BY <3>1, <1>3 DEF Serving
    <3>. QED  BY <2>1, <3>2 DEF Calling, OneStep
  <2>. QED  BY <1>1, <1>3, <2>1, <2>2 DEF Serving, OneStep
<1>. QED  BY <1>2, <1>3

\* The other tasks keep what they had, ...
LEMMA OtherTasks ==
  ASSUME SteadyInv, NEW t \in Task, NEW x \in Thread, OneStep(x, t), NEW u \in Task \ {t}
  PROVE  Waits(u)' /\ Reaches(u)'
<1>1. Serving(u)' = Serving(u) /\ (Calling(u)' <=> Calling(u))  BY OthersServe
<1>2. \A y \in Serving(u) : call'[y] = call[y]
  <2>1. \A y \in Serving(u) : y \in Thread \ {x}  BY DEF Serving, OneStep
  <2>. QED  BY <2>1 DEF OneStep
<1>3. /\ taskStatus'[u] = taskStatus[u] /\ checkpoint'[u] = checkpoint[u]
      /\ \A e \in ExecutionsOf(u) :
            /\ status'[e] = status[e] /\ capacityWait'[e] = capacityWait[e]
            /\ e \in watched' <=> e \in watched
  BY DEF OneStep
<1>4. Waits(u) /\ Reaches(u)  BY DEF SteadyInv
<1>5. Waits(u)'  BY <1>1, <1>2, <1>3, <1>4 DEF Waits, Turn
<1>6. Lead[u] \in ExecutionsOf(u)  BY Roles
<1>7. Reaches(u)'
  <2>1. Settled(u, Lead[u])' <=> Settled(u, Lead[u])  BY <1>3, <1>6 DEF Settled
  <2>2. watched' \cap ExecutionsOf(u) = watched \cap ExecutionsOf(u)  BY <1>3
  <2>3. (\E e \in ExecutionsOf(u) : status[e] = "waiting") =>
           \E e \in ExecutionsOf(u) : status'[e] = "waiting"
    BY <1>3
  <2>. QED  BY <1>1, <1>3, <1>4, <1>6, <2>1, <2>2, <2>3 DEF Reaches
<1>. QED  BY <1>5, <1>7

\* ... and so do the threads that do not serve t.
LEMMA OtherThreads ==
  ASSUME SteadyInv, Base, NEW t \in Task, NEW x \in Thread, OneStep(x, t),
         NEW y \in Thread \ {x}, y \notin Serving(t)
  PROVE  Stands(y)' /\ Runs(y)'
<1>1. /\ pc'[y] = pc[y] /\ call'[y] = call[y] /\ job'[y] = job[y]
      /\ y \in draining' => y \in draining
      /\ completing = y => completing' = y
      /\ pc[y] = "submit" => submitting' = submitting
  BY DEF OneStep
<1>2. Serves(y)' = Serves(y)  BY <1>1 DEF Serves
<1>3. Stands(y) /\ Runs(y)  BY DEF SteadyInv
<1>4. Lost(y)' <=> Lost(y)  BY <1>1 DEF Lost
<1>5. CASE ~Lost(y) /\ pc[y] \in {"resume", "prepare", "invoke"} \cup Within
  <2>1. PICK u \in Task : u = Serves(y) /\ y \in Serving(u)
    BY <1>3, <1>5, WithinServes DEF Stands
  <2>2. u # t  BY <2>1
  <2>3. /\ taskStatus'[u] = taskStatus[u] /\ checkpoint'[u] = checkpoint[u]
        /\ \A e \in ExecutionsOf(u) : status'[e] = status[e]
    BY <2>1, <2>2 DEF OneStep
  <2>4. \A e \in ExecutionsOf(u) : Settled(u, e)' <=> Settled(u, e)
    BY <2>3 DEF Settled
  <2>5. Lead[u] \in ExecutionsOf(u)  BY <2>1, Roles
  <2>6. pc[y] = "resume" => job[y] \in ExecutionsOf(u)
    <3>1. SUFFICES ASSUME pc[y] = "resume" PROVE job[y] \in ExecutionsOf(u)
      OBVIOUS
    <3>2. job[y] \in Execution /\ ~IsApi(y)  BY <3>1 DEF Base, CallsFit, Fits
    <3>. QED  BY <2>1, <3>2, TaskOfType DEF Serves
  <2>7. \A stage : Members(u, stage) \subseteq ExecutionsOf(u)
    BY <2>1, MembersType
  <2>8. Stands(y)'
    BY <1>1, <1>2, <1>3, <1>4, <2>3, <2>4, <2>1, <2>5, <2>6 DEF Stands
  <2>9. Runs(y)'
    <3>. SUFFICES ASSUME pc[y] \in InGraph \cup {"returned"} PROVE Runs(y)'
      BY <1>1 DEF Runs
    <3>. DEFINE i == call[y]
                c == checkpoint[u]
    <3>1. /\ i.stage = c.stage /\ i.by = c.by
          /\ i.parked \cup i.fresh \subseteq Members(u, i.stage)
          /\ i.parked \cap i.todo = {} /\ i.fresh \cap i.todo = {} /\ i.todo \cap c.done = {}
          /\ \A e \in Members(u, i.stage) \ (i.todo \cup i.parked) : Settled(u, e)
          /\ \A e \in i.parked :
               /\ taskStatus[u] # "cancelled" => status[e] = "waiting"
               /\ e \in i.fresh \cup c.parked
          /\ i.given # None => i.given \in ExecutionsOf(u) /\ Settled(u, i.given)
          /\ IsApi(y) /\ taskStatus[u] = "waiting" => i.parked # {}
          /\ pc[y] = "returned" =>
               i.fresh = {} /\ i.todo = {} /\ (i.stage = "done" \/ i.parked # {})
      BY <1>3, <1>5, <2>1 DEF Runs
    <3>. QED  BY <1>1, <1>2, <2>1, <2>3, <2>4, <2>7, <3>1 DEF Runs
  <2>. QED  BY <2>8, <2>9
<1>6. CASE Lost(y) \/ pc[y] \notin {"resume", "prepare", "invoke"} \cup Within
  <2>1. Runs(y)'
    BY <1>1, <1>4, <1>6 DEF Runs, Within
  <2>2. Lost(y) => pc[y] \in {"raised", "nodes"}
    BY <1>3 DEF Stands, Lost
  <2>3. pc[y] \notin {"prepare", "invoke", "resume", "submit", "review", "finish"}
    BY <1>6, <2>2 DEF Within, InGraph
  <2>4. ~(pc[y] \in Within /\ ~Lost(y))  BY <1>6
  <2>. QED  BY <1>1, <1>3, <1>4, <2>1, <2>3, <2>4 DEF Stands
<1>. QED  BY <1>5, <1>6

\* So a step of x for a task that nobody else serves has to do for both only.
LEMMA OneSteady ==
  ASSUME SteadyInv, Base, NEW t \in Task, NEW x \in Thread, OneStep(x, t),
         Serving(t) \subseteq {x}, Waits(t)', Reaches(t)', Stands(x)', Runs(x)'
  PROVE  SteadyInv'
<1>1. \A u \in Task \ {t} : Waits(u)' /\ Reaches(u)'  BY OtherTasks
<1>2. \A y \in Thread \ {x} : Stands(y)' /\ Runs(y)'  BY OtherThreads
<1>. QED  BY <1>1, <1>2 DEF SteadyInv

\* A thread that serves nobody, and changes no more than its own place.
LEMMA AsideSteady ==
  ASSUME SteadyInv, Base, NEW x \in Thread,
         UNCHANGED <<status, capacityWait, submitting, taskStatus, checkpoint, watched>>,
         \A y \in Thread \ {x} :
            /\ pc'[y] = pc[y] /\ call'[y] = call[y] /\ job'[y] = job[y]
            /\ y \in draining' => y \in draining
            /\ completing = y => completing' = y,
         \A u \in Task : x \notin Serving(u) /\ x \notin Serving(u)',
         \A u \in Task : Calling(u)' => Calling(u),
         Stands(x)', Runs(x)'
  PROVE  SteadyInv'
<1>1. \A y \in Thread \ {x} : (Lost(y)' <=> Lost(y)) /\ Serves(y)' = Serves(y)
  BY DEF Lost, Serves
<1>2. ASSUME NEW u \in Task
      PROVE  Serving(u)' = Serving(u)
  <2>1. \A y \in Thread \ {x} : y = Api(u) => (Calling(u)' <=> Calling(u))
    BY DEF Calling
  <2>2. \A y \in Thread \ {x} : y \in Serving(u)' <=> y \in Serving(u)
    BY <1>1, <2>1 DEF Serving
  <2>3. Serving(u) \subseteq Thread /\ Serving(u)' \subseteq Thread  BY DEF Serving
  <2>4. x \notin Serving(u) /\ x \notin Serving(u)'  OBVIOUS
  <2>. QED  BY ONLY <2>2, <2>3, <2>4
<1>3. ASSUME NEW u \in Task
      PROVE  Waits(u)' /\ Reaches(u)'
  <2>1. Waits(u) /\ Reaches(u)  BY DEF SteadyInv
  <2>2. \A y \in Serving(u) : call'[y] = call[y]  BY ServesOnce
  <2>3. Waits(u)'  BY <1>2, <2>1, <2>2 DEF Waits, Turn
  <2>4. Settled(u, Lead[u])' <=> Settled(u, Lead[u])  BY DEF Settled
  <2>5. Reaches(u)'  BY <1>2, <2>1, <2>4 DEF Reaches
  <2>. QED  BY <2>3, <2>5
<1>4. ASSUME NEW y \in Thread \ {x}
      PROVE  Stands(y)' /\ Runs(y)'
  <2>1. Stands(y) /\ Runs(y)  BY DEF SteadyInv
  <2>2. \A u, e : Settled(u, e)' <=> Settled(u, e)  BY DEF Settled
  <2>3. Stands(y)'  BY <1>1, <2>1, <2>2 DEF Stands
  <2>4. Runs(y)'  BY <1>1, <2>1, <2>2 DEF Runs
  <2>. QED  BY <2>3, <2>4
<1>. QED  BY <1>3, <1>4 DEF SteadyInv

\* A cancellation: nothing waits any more, and what runs on does so for a
\* cancelled task.
LEMMA CancelSteady ==
  ASSUME SteadyInv, Base, NEW t \in Task, NEW z \in Thread,
         CancelTask(t), pc[z] = "idle", ~IsApi(z), GoTo(z, "drain"),
         draining' = draining \cup {z}, UNCHANGED <<checkpoint, call, job, completing>>
  PROVE  SteadyInv'
<1>1. /\ \A e \in Execution : status'[e] =
              IF e \in ExecutionsOf(t) /\ status[e] \notin {"absent", "completed"}
              THEN "cancelled" ELSE status[e]
      /\ UNCHANGED <<capacityWait, submitting>>
      /\ taskStatus'[t] = "cancelled"
      /\ \A u \in Task \ {t} : taskStatus'[u] = taskStatus[u]
      /\ watched' = watched \ ExecutionsOf(t)
  <2>1. SetTask(t, "cancelled") /\ Cancel(ExecutionsOf(t))
        /\ watched' = watched \ ExecutionsOf(t)
    BY DEF CancelTask
  <2>2. /\ taskStatus'[t] = "cancelled"
        /\ \A u \in Task \ {t} : taskStatus'[u] = taskStatus[u]
    BY <2>1, OneTaskSet DEF TaskStatus, Terminal
  <2>. QED  BY <2>1, <2>2 DEF Cancel
<1>2. /\ pc'[z] = "drain" /\ \A y \in Thread \ {z} : pc'[y] = pc[y]
  BY DEF GoTo, Base, CallsFit, FlowTypes
<1>3. \A y \in Thread : (Lost(y)' <=> Lost(y)) /\ Serves(y)' = Serves(y)
  BY <1>2 DEF Lost, Serves, InGraph
<1>4. ASSUME NEW u \in Task
      PROVE  /\ Calling(u)' => Calling(u)
             /\ Serving(u)' \subseteq Serving(u)
             /\ u # t => Serving(u)' = Serving(u)
  <2>1. Api(u) \in Thread \ {z}  BY ApiNames
  <2>2. (Calling(u)' => Calling(u)) /\ (u # t => (Calling(u)' <=> Calling(u)))
    BY <1>1, <1>2, <2>1 DEF Calling
  <2>. QED  BY <1>2, <1>3, <2>2 DEF Serving, Within, InGraph
<1>5. \A u \in Task, e \in Execution : Settled(u, e) => Settled(u, e)'
  BY <1>1 DEF Settled
<1>6. ASSUME NEW u \in Task
      PROVE  Waits(u)' /\ Reaches(u)'
  <2>1. Waits(u) /\ Reaches(u)  BY DEF SteadyInv
  <2>2. ExecutionsOf(u) \subseteq Execution /\ Lead[u] \in ExecutionsOf(u)
    BY MembersType, Roles
  <2>3. CASE u = t
    <3>1. \A e \in ExecutionsOf(t) : status'[e] \in {"absent", "completed", "cancelled"}
      BY <1>1, <2>2, <2>3
    <3>2. watched' \cap ExecutionsOf(t) = {}  BY <1>1
    <3>3. Waits(t)'  BY <3>1, <3>2 DEF Waits, Turn
    <3>4. status'[Lead[t]] # "absent" => status[Lead[t]] # "absent"
      BY <1>1, <2>2, <2>3
    <3>5. Settled(t, Lead[t])'  BY <1>1 DEF Settled
    <3>6. Calling(t)' => Serving(t)' \subseteq {Api(t)}
      BY <1>4, <2>1, <2>3 DEF Reaches
    <3>7. Reaches(t)'
      BY <1>1, <2>1, <2>3, <3>2, <3>4, <3>5, <3>6 DEF Reaches
    <3>. QED  BY <2>3, <3>3, <3>7
  <2>4. CASE u # t
    <3>1. \A e \in ExecutionsOf(u) :
             e \notin ExecutionsOf(t) /\ status'[e] = status[e]
             /\ (e \in watched' <=> e \in watched)
      BY <1>1, <2>2, <2>4, FlowAssumption DEF FlowAssumption
    <3>2. taskStatus'[u] = taskStatus[u] /\ Serving(u)' = Serving(u)
      BY <1>1, <1>4, <2>4
    <3>3. Waits(u)'  BY <1>1, <2>1, <3>1, <3>2 DEF Waits, Turn
    <3>4. Settled(u, Lead[u])' <=> Settled(u, Lead[u])  BY <2>2, <3>1, <3>2 DEF Settled
    <3>5. watched' \cap ExecutionsOf(u) = watched \cap ExecutionsOf(u)  BY <3>1
    <3>6. (\E e \in ExecutionsOf(u) : status[e] = "waiting") =>
             \E e \in ExecutionsOf(u) : status'[e] = "waiting"
      BY <3>1
    <3>7. Reaches(u)'
      BY <1>4, <2>1, <2>2, <3>1, <3>2, <3>4, <3>5, <3>6 DEF Reaches
    <3>. QED  BY <3>3, <3>7
  <2>. QED  BY <2>3, <2>4
<1>7. ASSUME NEW y \in Thread
      PROVE  Stands(y)' /\ Runs(y)'
  <2>1. Stands(y) /\ Runs(y)  BY DEF SteadyInv
  <2>2. CASE y = z
    BY <1>2, <1>3, <2>1, <2>2 DEF Stands, Runs, Within, InGraph, Lost
  <2>3. CASE y # z /\ pc[y] \in {"idle", "drain", "load", "raised"}
    <3>1. pc'[y] = pc[y] /\ (y \in draining' <=> y \in draining)  BY <1>2, <2>3
    <3>. QED  BY <2>1, <2>3, <3>1 DEF Stands, Runs, Within, InGraph, Lost
  <2>4. CASE y # z /\ pc[y] \notin {"idle", "drain", "load", "raised"}
    <3>1. PICK u \in Task : u = Serves(y)  BY <2>4, ServesType DEF Base
    <3>2. Serves(y)' = u /\ pc'[y] = pc[y] /\ (y \in draining' <=> y \in draining)
      BY <1>2, <1>3, <2>4, <3>1
    <3>3. taskStatus'[u] \in {taskStatus[u], "cancelled"}  BY <1>1
    <3>4. Lead[u] \in Execution /\ ExecutionsOf(u) \subseteq Execution
      BY Roles, MembersType
    <3>5. status[Lead[u]] = "completed" => status'[Lead[u]] = "completed"
      BY <1>1, <3>4
    <3>6. pc[y] = "resume" => job[y] \in Execution
      BY DEF Base, CallsFit, Fits
    <3>7. taskStatus'[u] # "cancelled" =>
             /\ taskStatus'[u] = taskStatus[u]
             /\ \A e \in ExecutionsOf(u) : status'[e] = status[e]
      BY <1>1, <3>4, FlowAssumption DEF FlowAssumption
    <3>8. Stands(y)'
      BY <1>1, <1>3, <1>5, <2>1, <3>1, <3>2, <3>3, <3>4, <3>5, <3>6, <3>7 DEF Stands
    <3>9. \A stage : Members(u, stage) \subseteq ExecutionsOf(u)  BY MembersType
    <3>10. Runs(y)'
      BY <1>3, <1>5, <2>1, <3>1, <3>2, <3>3, <3>4, <3>7, <3>9 DEF Runs
    <3>. QED  BY <3>8, <3>10
  <2>. QED  BY ONLY <2>2, <2>3, <2>4
<1>. QED  BY <1>6, <1>7 DEF SteadyInv

-----------------------------------------------------------------------------
(* The client's calls.                                                     *)

\* Without a Turn there is nothing to watch; with a resume the task waits.
LEMMA Undisturbed ==
  ASSUME SteadyInv, Base, NEW t \in Task
  PROVE  /\ taskStatus[t] # "waiting" =>
              /\ watched \cap ExecutionsOf(t) = {}
              /\ \A e \in ExecutionsOf(t) : status[e] # "waiting"
         /\ \A x \in Serving(t) : ~IsApi(x) => taskStatus[t] \in {"waiting", "cancelled"}
         /\ Serving(t) # {} /\ ~Calling(t) => taskStatus[t] \in {"waiting", "cancelled"}
<1>1. taskStatus[t] # "waiting" =>
        /\ watched \cap ExecutionsOf(t) = {}
        /\ \A e \in ExecutionsOf(t) : status[e] # "waiting"
  BY DEF SteadyInv, Waits, Turn
<1>2. ASSUME NEW x \in Serving(t), ~IsApi(x)
      PROVE  taskStatus[t] \in {"waiting", "cancelled"}
  BY <1>2, ServesOnce DEF SteadyInv, Stands
<1>. QED  BY <1>1, <1>2, ServesOnce

\* The client's thread moves: nobody else does, and no other task is concerned.
LEMMA ApiStep1 ==
  ASSUME Base, NEW t \in Task, NEW place, GoTo(Api(t), place),
         \A y \in Thread \ {Api(t)} : call'[y] = call[y],
         UNCHANGED <<submitting, job, draining, locks>>,
         \A u \in Task \ {t} :
            /\ taskStatus'[u] = taskStatus[u] /\ checkpoint'[u] = checkpoint[u]
            /\ \A e \in ExecutionsOf(u) :
                 /\ status'[e] = status[e] /\ capacityWait'[e] = capacityWait[e]
                 /\ e \in watched' <=> e \in watched
  PROVE  OneStep(Api(t), t) /\ pc'[Api(t)] = place
<1>1. /\ pc'[Api(t)] = place
      /\ \A y \in Thread \ {Api(t)} : pc'[y] = pc[y]
  BY ApiNames DEF GoTo, Base, CallsFit, FlowTypes
<1>2. \A u \in Task \ {t} : /\ Api(t) # Api(u)
                            /\ Api(t) \notin Serving(u) /\ Api(t) \notin Serving(u)'
  BY ApiNames DEF Serving
<1>. QED  BY <1>1, <1>2 DEF OneStep, locks

\* A thread outside of the graph has no parked node.
LEMMA NoneParked ==
  ASSUME SteadyInv, NEW x \in Thread,
         pc[x] \in {"idle", "load", "prepare", "invoke", "resume", "drain"}
  PROVE  call[x].parked = {} /\ ~Lost(x)
BY DEF SteadyInv, Stands, Within, InGraph, Lost

\* The executions of other tasks are others.
LEMMA Disjoint ==
  ASSUME NEW t \in Task, NEW u \in Task \ {t}, NEW e \in ExecutionsOf(u)
  PROVE  e \in Execution /\ e \notin ExecutionsOf(t)
BY MembersType, FlowAssumption DEF FlowAssumption

LEMMA SubmitSteady ==
  ASSUME SteadyInv, Base, NEW t \in Task, Submit(t)
  PROVE  SteadyInv'
<1>. DEFINE x == Api(t)
<1>1. /\ pc[x] = "idle" /\ GoTo(x, "load")
      /\ UNCHANGED <<status, capacityWait, submitting, taskStatus, checkpoint, call, job,
                     draining, locks, watched>>
  BY DEF Submit, controlVars, taskVars, graphVars
<1>2. x \in Thread /\ IsApi(x) /\ Serves(x) = t /\ OneStep(x, t) /\ pc'[x] = "load"
  BY <1>1, ApiNames, ApiStep1
<1>3. Stands(x)' /\ Runs(x)' /\ x \notin Serving(t) /\ ~Lost(x)'
  <2>1. x \notin draining  BY <1>1, <1>2 DEF SteadyInv, Stands
  <2>2. IsApi(x)' /\ x \notin draining'  BY <1>1, <1>2, <2>1 DEF IsApi
  <2>3. ~Lost(x)' /\ Runs(x)'  BY <1>2 DEF Lost, Runs, InGraph
  <2>4. x \notin Serving(t)  BY <1>1, <1>2 DEF Serving, Calling, Within, InGraph
  <2>. HIDE DEF x
  <2>5. call'[x].parked = {}  BY <1>1, <1>2, NoneParked
  <2>. QED  BY <1>2, <2>2, <2>3, <2>4, <2>5 DEF Stands, Within, InGraph
<1>4. CASE taskStatus[t] = "running"
  <2>1. Serving(t) = {}
    BY <1>1, <1>4, Undisturbed DEF Calling, Within, InGraph
  <2>2. Waits(t)'
    BY <1>1, <1>4, Undisturbed DEF SteadyInv, Waits, Turn
  <2>3. Serving(t)' \subseteq {x} /\ x \in Serving(t)'
    <3>1. Calling(t)'  BY <1>1, <1>2, <1>4 DEF Calling
    <3>. QED  BY <1>2, <1>3, <2>1, <3>1, OthersServe DEF Serving
  <2>4. watched' \cap ExecutionsOf(t) = {}  BY <1>1, <1>4, Undisturbed
  <2>5. Settled(t, Lead[t])' <=> Settled(t, Lead[t])  BY <1>1 DEF Settled
  <2>. HIDE DEF x
  <2>6. Reaches(t)'
    BY <1>1, <1>4, <2>3, <2>4, <2>5 DEF SteadyInv, Reaches, x
  <2>. QED  BY <1>2, <1>3, <2>1, <2>2, <2>6, OneSteady
<1>5. CASE taskStatus[t] # "running"
  <2>1. ~Calling(t)'  BY <1>1, <1>2, <1>5 DEF Calling, Within, InGraph
  <2>2. \A u \in Task : x \notin Serving(u) /\ x \notin Serving(u)'
    BY <1>2, <1>3, <2>1 DEF Serving, OneStep
  <2>3. \A u \in Task : Calling(u)' => Calling(u)
    BY <1>2, <2>1, OthersServe
  <2>. HIDE DEF x
  <2>. QED  BY <1>1, <1>2, <1>3, <2>2, <2>3, AsideSteady DEF OneStep
<1>. QED  BY <1>4, <1>5

\* A retry: only a review that was not valid failed, and it starts over.
LEMMA RetrySteady ==
  ASSUME SteadyInv, Base, NEW t \in Task, RetryTask(t)
  PROVE  SteadyInv'
<1>. DEFINE x == Api(t)
            failed == {e \in ExecutionsOf(t) :
                         status[e] = "failed" \/ (e = Lead[t] /\ badReview[t])}
<1>1. /\ pc[x] = "idle" /\ GoTo(x, "load")
      /\ taskStatus[t] = "failed" /\ SetTask(t, "running")
      /\ UNCHANGED <<capacityWait, submitting, checkpoint, call, job, draining, locks,
                     watched>>
      /\ status' = [e \in Execution |-> IF e \in failed THEN "submitted" ELSE status[e]]
      /\ \A e \in failed : status[e] \in {"failed", "completed"}
  BY DEF RetryTask, Retry, graphVars
<1>2. failed \subseteq {Lead[t]}  BY DEF SteadyInv, Waits
<1>3. /\ taskStatus'[t] = "running" /\ \A u \in Task \ {t} : taskStatus'[u] = taskStatus[u]
  BY <1>1, OneTaskSet DEF TaskStatus
<1>4. /\ Lead[t] \in Execution /\ ExecutionsOf(t) \subseteq Execution
      /\ \A e \in ExecutionsOf(t) : status'[e] \in {status[e], "submitted"}
  BY <1>1, Roles, MembersType
<1>5. \A u \in Task \ {t} : \A e \in ExecutionsOf(u) : status'[e] = status[e]
  BY <1>1, Disjoint
<1>. HIDE DEF failed
<1>6. x \in Thread /\ IsApi(x) /\ Serves(x) = t /\ OneStep(x, t) /\ pc'[x] = "load"
  BY <1>1, <1>3, <1>5, ApiNames, ApiStep1
<1>7. /\ Serving(t) = {} /\ checkpoint[t].stage = "lead" /\ Lead[t] \notin checkpoint[t].done
  BY <1>1 DEF SteadyInv, Reaches
<1>8. /\ watched \cap ExecutionsOf(t) = {}
      /\ \A e \in ExecutionsOf(t) : status[e] # "waiting"
  BY <1>1, Undisturbed
<1>9. Waits(t)'
  BY <1>1, <1>4, <1>8 DEF SteadyInv, Waits, Turn
<1>10. Reaches(t)'
  <2>1. x \in Serving(t)' /\ Serving(t)' \subseteq {x}
    <3>1. Calling(t)'  BY <1>3, <1>6 DEF Calling
    <3>2. ~Lost(x)'  BY <1>6 DEF Lost, InGraph
    <3>. QED  BY <1>6, <1>7, <3>1, <3>2, OthersServe DEF Serving
  <2>2. watched' \cap ExecutionsOf(t) = {}  BY <1>1, <1>8
  <2>. HIDE DEF x
  <2>. QED  BY <1>1, <1>3, <1>7, <2>1, <2>2 DEF Reaches, x
<1>11. Stands(x)' /\ Runs(x)'
  <2>1. x \notin draining'  BY <1>1, <1>6 DEF SteadyInv, Stands
  <2>2. IsApi(x)'  BY <1>6 DEF IsApi
  <2>. HIDE DEF x
  <2>3. call'[x].parked = {}  BY <1>1, <1>6, NoneParked
  <2>. QED  BY <1>6, <2>1, <2>2, <2>3 DEF Stands, Runs, Lost, Within, InGraph
<1>. HIDE DEF x
<1>. QED  BY <1>6, <1>7, <1>9, <1>10, <1>11, OneSteady

\* run loads its task: it prepares or invokes, or it leaves.
LEMMA LoadSteady ==
  ASSUME SteadyInv, Base, NEW t \in Task, LoadTask(t)
  PROVE  SteadyInv'
<1>. DEFINE x == Api(t)
<1>1. /\ pc[x] = "load"
      /\ UNCHANGED <<status, capacityWait, submitting, taskStatus, checkpoint, call, job,
                     draining, locks>>
  BY DEF LoadTask, controlVars, taskVars, graphVars
<1>2. x \in Thread /\ IsApi(x) /\ Serves(x) = t  BY ApiNames
<1>3. x \notin draining  BY <1>1, <1>2 DEF SteadyInv, Stands
<1>4. IsApi(x)' /\ Serves(x)' = t /\ call'[x].parked = {}
  BY <1>1, <1>2, ApiNames, NoneParked DEF IsApi, Serves
<1>5. CASE taskStatus[t] \in {"created", "running"}
  <2>1. PICK place \in {"prepare", "invoke"} :
          /\ GoTo(x, place) /\ UNCHANGED watched
          /\ place = "prepare" => taskStatus[t] = "created"
          /\ place = "invoke" => taskStatus[t] = "running"
    BY <1>5 DEF LoadTask, Terminal
  <2>2. OneStep(x, t) /\ pc'[x] = place
    BY <1>1, <2>1, ApiStep1
  <2>3. Serving(t) \subseteq {x}
    BY <1>5, Undisturbed, ServesOnce
  <2>4. x \in Serving(t)' /\ Serving(t)' \subseteq {x}
    <3>1. Calling(t)'  BY <2>2 DEF Calling
    <3>2. ~Lost(x)'  BY <2>2 DEF Lost, InGraph
    <3>. QED  BY <1>2, <1>4, <2>2, <2>3, <3>1, <3>2, OthersServe DEF Serving
  <2>5. Waits(t)'
    BY <1>1, <1>5, <2>1, Undisturbed DEF SteadyInv, Waits, Turn
  <2>6. watched' \cap ExecutionsOf(t) = {}  BY <1>5, <2>1, Undisturbed
  <2>7. Settled(t, Lead[t])' <=> Settled(t, Lead[t])  BY <1>1 DEF Settled
  <2>. HIDE DEF x
  <2>8. Reaches(t)'
    BY <1>1, <1>5, <2>4, <2>6, <2>7 DEF SteadyInv, Reaches, x
  <2>9. Stands(x)' /\ Runs(x)'
    BY <1>1, <1>3, <1>4, <2>1, <2>2 DEF Stands, Runs, Lost, Within, InGraph
  <2>. QED  BY <1>2, <2>2, <2>3, <2>5, <2>8, <2>9, OneSteady
<1>6. CASE taskStatus[t] \notin {"created", "running"}
  <2>1. GoTo(x, "idle") /\ (watched' = watched \/ Watch(x, t))
    <3>1. \/ taskStatus[t] = "created"
          \/ taskStatus[t] = "running"
          \/ taskStatus[t] = "waiting" /\ Watch(x, t) /\ GoTo(x, "idle")
          \/ taskStatus[t] \in Terminal /\ GoTo(x, "idle") /\ UNCHANGED watched
      BY Zenon DEF LoadTask
    <3>. HIDE DEF x
    <3>. QED  BY <1>6, <3>1
  <2>2. ~Calling(t)  BY <1>1, <1>6 DEF Calling, Within, InGraph
  <2>3. watched' = watched
    <3>1. SUFFICES ASSUME Watch(x, t) PROVE watched' = watched
      BY <2>1
    <3>. DEFINE turns == {e \in ExecutionsOf(t) : status[e] = "waiting" /\ ~capacityWait[e]}
    <3>2. (turns = {} \/ completing \in {x, None}) /\ watched' = watched \cup turns
      BY <3>1 DEF Watch
    <3>3. ASSUME NEW e \in turns PROVE e \in watched
      <4>1. Turn(e) /\ e \in ExecutionsOf(t)  BY DEF Turn
      <4>2. SUFFICES ASSUME NEW y \in Serving(t) PROVE FALSE
        BY <4>1 DEF SteadyInv, Waits
      <4>3. ~IsApi(y) /\ y \in Thread  BY <2>2, ServesOnce
      <4>4. completing = y  BY <4>3, ServesOnce DEF SteadyInv, Stands
      <4>5. y # None /\ y # x  BY <1>2, <4>3, ThreadAssumption
      <4>. QED  BY <3>2, <4>4, <4>5
    <3>. QED  BY <3>2, <3>3
  <2>4. OneStep(x, t) /\ pc'[x] = "idle"
    BY <1>1, <2>1, <2>3, ApiStep1
  <2>5. ~Calling(t)'  BY <2>4 DEF Calling, Within, InGraph
  <2>6. \A u \in Task : x \notin Serving(u) /\ x \notin Serving(u)'
    BY <1>2, <1>4, <2>2, <2>4, <2>5 DEF Serving, OneStep
  <2>7. \A u \in Task : Calling(u)' => Calling(u)  BY <1>2, <2>4, <2>5, OthersServe
  <2>8. Stands(x)' /\ Runs(x)'
    BY <1>1, <1>3, <1>4, <2>4 DEF Stands, Runs, Lost, Within, InGraph
  <2>. HIDE DEF x
  <2>. QED  BY <1>1, <1>2, <2>3, <2>4, <2>6, <2>7, <2>8, AsideSteady DEF OneStep
<1>. QED  BY <1>5, <1>6

\* The assignments are prepared: the graph has not started.
LEMMA PrepareSteady ==
  ASSUME SteadyInv, Base, DeliveryInv, NEW t \in Task, PrepareAssignments(t)
  PROVE  SteadyInv'
<1>. DEFINE x == Api(t)
<1>1. /\ pc[x] = "prepare" /\ GoTo(x, "invoke")
      /\ SetTask(t, "running") /\ Create(SpecialistSet(t))
      /\ UNCHANGED <<checkpoint, call, job, draining, locks, watched>>
  BY DEF PrepareAssignments, graphVars
<1>2. x \in Thread /\ IsApi(x) /\ Serves(x) = t  BY ApiNames
<1>3. /\ taskStatus'[t] = "running" /\ \A u \in Task \ {t} : taskStatus'[u] = taskStatus[u]
  BY <1>1, OneTaskSet DEF TaskStatus
<1>4. /\ \A e \in Execution : status'[e] =
            IF e \in SpecialistSet(t) THEN "submitted" ELSE status[e]
      /\ UNCHANGED <<capacityWait, submitting>>
  BY <1>1 DEF Create
<1>5. /\ Lead[t] \in Execution /\ Lead[t] \notin SpecialistSet(t)
      /\ ExecutionsOf(t) \subseteq Execution
      /\ SpecialistSet(t) \subseteq ExecutionsOf(t)
  BY Roles, MembersType
<1>6. \A u \in Task \ {t} : \A e \in ExecutionsOf(u) : status'[e] = status[e]
  BY <1>4, <1>5, Disjoint
<1>7. OneStep(x, t) /\ pc'[x] = "invoke"
  BY <1>1, <1>3, <1>4, <1>6, ApiStep1
<1>8. IsApi(x)' /\ Serves(x)' = t /\ call'[x].parked = {}
  BY <1>1, <1>2, ApiNames, NoneParked DEF IsApi, Serves
<1>9. Calling(t) /\ ~Lost(x) /\ taskStatus[t] \in {"created", "cancelled"} /\ x \notin draining
  BY <1>1, <1>2 DEF Calling, Lost, InGraph, SteadyInv, Stands
<1>10. Serving(t) \subseteq {x} /\ watched \cap ExecutionsOf(t) = {}
  BY <1>9 DEF SteadyInv, Reaches
<1>11. \A e \in ExecutionsOf(t) : status'[e] \in {status[e], "submitted"} /\ status[e] # "waiting"
  BY <1>4, <1>5, <1>9, Undisturbed
<1>12. Waits(t)'
  BY <1>1, <1>10, <1>11 DEF SteadyInv, Waits, Turn
<1>13. checkpoint[t].stage = "none"
  BY <1>1 DEF DeliveryInv, GraphInv, Graph
<1>14. x \in Serving(t)' /\ Serving(t)' \subseteq {x}
  <2>1. Calling(t)'  BY <1>7 DEF Calling
  <2>2. ~Lost(x)'  BY <1>7 DEF Lost, InGraph
  <2>. QED  BY <1>2, <1>7, <1>8, <1>10, <2>1, <2>2, OthersServe DEF Serving
<1>15. watched' \cap ExecutionsOf(t) = {}  BY <1>1, <1>10
<1>. HIDE DEF x
<1>16. Reaches(t)'
  <2>1. Lead[t] \notin checkpoint[t].done /\ status[Lead[t]] = "absent"
    BY <1>13 DEF SteadyInv, Reaches
  <2>2. status'[Lead[t]] = "absent"  BY <1>4, <1>5, <2>1
  <2>. QED  BY <1>1, <1>3, <1>13, <1>14, <1>15, <2>1, <2>2 DEF SteadyInv, Reaches, x
<1>17. Stands(x)' /\ Runs(x)'
  BY <1>1, <1>3, <1>7, <1>8, <1>9 DEF Stands, Runs, Lost, Within, InGraph
<1>. QED  BY <1>2, <1>7, <1>10, <1>12, <1>16, <1>17, OneSteady

-----------------------------------------------------------------------------
(* The nodes.                                                              *)

\* Thread x moves inside the graph of t, and concerns no other task.
Moves(x, t, place) ==
  /\ GoTo(x, place)
  /\ UNCHANGED <<job, draining, locks, watched>>
  /\ \A y \in Thread \ {x} : call'[y] = call[y] /\ (pc[y] = "submit" => UNCHANGED submitting)
  /\ \A u \in Task \ {t} :
       /\ taskStatus'[u] = taskStatus[u] /\ checkpoint'[u] = checkpoint[u]
       /\ \A e \in ExecutionsOf(u) :
            status'[e] = status[e] /\ capacityWait'[e] = capacityWait[e]

\* Inside the graph, a thread is the one that serves its task.
LEMMA GraphServes ==
  ASSUME SteadyInv, Base, NEW x \in Thread, NEW t \in Task, t = Serves(x),
         pc[x] \in Within, ~Lost(x)
  PROVE  /\ Serving(t) = {x} /\ x \notin draining
         /\ Calling(t) <=> IsApi(x)
         /\ IsApi(x) => x = Api(t)
         /\ taskStatus[t] \in {"waiting", "cancelled"} \/ (IsApi(x) /\ taskStatus[t] = "running")
<1>1. x \in Serving(t)  BY WithinServes
<1>2. Serving(t) = {x}  BY <1>1, OneServes
<1>3. IsApi(x) => x = Api(t) /\ Calling(t)  BY <1>1, ServesOnce
<1>4. Calling(t) => IsApi(x)
  BY <1>1, ApiNames DEF SteadyInv, Reaches
<1>. QED  BY <1>2, <1>3, <1>4 DEF SteadyInv, Stands, Within, InGraph

LEMMA MovesOne ==
  ASSUME SteadyInv, Base, NEW x \in Thread, NEW t \in Task, t = Serves(x),
         pc[x] \in Within, ~Lost(x), NEW place \in Within \cup {"raised"}, Moves(x, t, place),
         taskStatus'[t] = "running" => taskStatus[t] = "running"
  PROVE  /\ OneStep(x, t) /\ pc'[x] = place /\ Serves(x)' = t /\ job'[x] = job[x]
         /\ Calling(t)' <=> IsApi(x)
<1>1. /\ Serving(t) = {x}
      /\ Calling(t) <=> IsApi(x)
      /\ IsApi(x) => x = Api(t)
  BY GraphServes
<1>2. /\ pc'[x] = place
      /\ \A y \in Thread \ {x} : pc'[y] = pc[y]
  BY DEF Moves, GoTo, Base, CallsFit, FlowTypes
<1>3. Serves(x)' = t /\ job'[x] = job[x]  BY DEF Moves, Serves
<1>4. \A u \in Task \ {t} : x # Api(u) /\ x \notin Serving(u) /\ x \notin Serving(u)'
  BY <1>3, ApiNames DEF Serving, Serves
<1>5. OneStep(x, t)  BY <1>2, <1>4 DEF OneStep, Moves, locks
<1>6. Calling(t)' <=> IsApi(x)
  <2>1. CASE IsApi(x)
    BY <1>1, <1>2, <2>1 DEF Calling
  <2>2. CASE ~IsApi(x)
    <3>1. Api(t) \in Thread \ {x} /\ ~Calling(t)  BY <1>1, <2>2, ApiNames
    <3>2. pc'[Api(t)] = pc[Api(t)]  BY <1>2, <3>1
    <3>. QED  BY <2>2, <3>1, <3>2 DEF Calling
  <2>. QED  BY <2>1, <2>2
<1>. QED  BY <1>2, <1>3, <1>5, <1>6

\* A thread that goes on serves its task still; one that raised does not.
LEMMA NodeMoves ==
  ASSUME SteadyInv, Base, NEW x \in Thread, NEW t \in Task, t = Serves(x),
         pc[x] \in Within, ~Lost(x), NEW place \in Within, Moves(x, t, place),
         place \in InGraph => ~call'[x].raised,
         taskStatus'[t] = "running" => taskStatus[t] = "running"
  PROVE  /\ OneStep(x, t) /\ pc'[x] = place /\ ~Lost(x)' /\ Serves(x)' = t
         /\ Serving(t)' = {x}
         /\ Calling(t)' <=> IsApi(x)
<1>1. /\ OneStep(x, t) /\ pc'[x] = place /\ Serves(x)' = t /\ job'[x] = job[x]
      /\ Calling(t)' <=> IsApi(x)
  BY MovesOne
<1>2. Serving(t) = {x} /\ (IsApi(x) => x = Api(t))  BY GraphServes
<1>3. ~Lost(x)'  BY <1>1 DEF Lost, Within, InGraph
<1>4. x \in Serving(t)'
  <2>1. IsApi(x)' <=> IsApi(x)  BY DEF IsApi
  <2>2. IsApi(x)' => x = Api(t) /\ Calling(t)'  BY <1>1, <1>2, <2>1
  <2>3. ~IsApi(x)' => TaskOf(job'[x]) = t  BY <1>1, <2>1 DEF Serves
  <2>. QED  BY <1>1, <1>3, <2>2, <2>3 DEF Serving
<1>. QED  BY <1>1, <1>2, <1>3, <1>4, OthersServe

LEMMA RaiseMoves ==
  ASSUME SteadyInv, Base, NEW x \in Thread, NEW t \in Task, t = Serves(x),
         pc[x] \in Within, ~Lost(x), NEW place \in InGraph \cup {"raised"},
         Moves(x, t, place), place \in InGraph => call'[x].raised,
         taskStatus'[t] = "running" => taskStatus[t] = "running"
  PROVE  /\ OneStep(x, t) /\ pc'[x] = place /\ Lost(x)' /\ Serves(x)' = t
         /\ Serving(t)' = {}
         /\ Calling(t)' <=> IsApi(x)
<1>1. /\ OneStep(x, t) /\ pc'[x] = place /\ Serves(x)' = t
      /\ Calling(t)' <=> IsApi(x)
  BY MovesOne DEF Within
<1>2. Serving(t) = {x}  BY GraphServes
<1>3. Lost(x)'  BY <1>1 DEF Lost
<1>4. x \notin Serving(t)'  BY <1>3 DEF Serving
<1>. QED  BY <1>1, <1>2, <1>3, <1>4, OthersServe

\* What the node of e does to e, to its task and to the superstep of x.
Kept(x) == call'[x] = call[x]

Done(x, e) == call'[x] = [call[x] EXCEPT !.todo = @ \ {e}, !.fresh = @ \cup {e}]

Parked(x, e) ==
  call'[x] = [call[x] EXCEPT !.todo = @ \ {e}, !.fresh = @ \cup {e}, !.parked = @ \cup {e}]

NodeEffect(x, t, e) ==
  /\ \A f \in ExecutionsOf(t) \ {e} :
       status'[f] = status[f] /\ capacityWait'[f] = capacityWait[f]
  /\ (status'[e] = status[e] /\ capacityWait'[e] = capacityWait[e]) \/ ~Turn(e)
  /\ status'[e] # "failed"
  /\ Settled(t, e) => Settled(t, e)'
  /\ \/ /\ Kept(x) \/ (Done(x, e) /\ Settled(t, e)')
        /\ status'[e] # "waiting" \/ (status'[e] = status[e] /\ capacityWait'[e] = capacityWait[e])
        /\ taskStatus'[t] = taskStatus[t]
     \/ /\ Parked(x, e)
        /\ status'[e] = "waiting" /\ taskStatus'[t] = "waiting" /\ taskStatus[t] # "cancelled"

\* A node that does not raise.
LEMMA NodeSteady ==
  ASSUME SteadyInv, Base, DeliveryInv, NEW x \in Thread, NEW t \in Task, t = Serves(x),
         pc[x] \in InGraph, NEW e \in call[x].todo, UNCHANGED checkpoint,
         NEW place \in InGraph, Moves(x, t, place), NodeEffect(x, t, e),
         place = "submit" => submitting' \in call'[x].todo,
         place = "review" => Lead[t] \in call'[x].todo /\ Settled(t, Lead[t])'
  PROVE  SteadyInv'
<1>. DEFINE i == call[x]
            c == checkpoint[t]
<1>1. /\ ~Lost(x) /\ x \in Thread /\ pc[x] \in Within
      /\ ~i.raised
  <2>1. ~Lost(x)  BY DEF SteadyInv, Stands
  <2>. QED  BY <2>1 DEF Lost, Within, InGraph
<1>2. i \in Call  BY DEF Base, CallsFit, FlowTypes
<1>3. /\ taskStatus'[t] \in {taskStatus[t], "waiting"}
      /\ taskStatus[t] = "cancelled" <=> taskStatus'[t] = "cancelled"
  BY DEF NodeEffect
<1>4. /\ Serving(t) = {x} /\ x \notin draining
      /\ Calling(t) <=> IsApi(x)
      /\ IsApi(x) => x = Api(t)
      /\ taskStatus[t] \in {"waiting", "cancelled"} \/ (IsApi(x) /\ taskStatus[t] = "running")
  BY <1>1, GraphServes
<1>5. ~call'[x].raised
  BY <1>1, <1>2 DEF NodeEffect, Kept, Done, Parked, Call
<1>6. /\ OneStep(x, t) /\ pc'[x] = place /\ ~Lost(x)' /\ Serves(x)' = t
      /\ Serving(t)' = {x}
      /\ Calling(t)' <=> IsApi(x)
  <2>1. taskStatus'[t] = "running" => taskStatus[t] = "running"  BY <1>3
  <2>. HIDE DEF NodeEffect
  <2>. QED  BY <1>1, <1>5, <2>1, NodeMoves DEF Within
<1>7. /\ i.stage = c.stage /\ i.by = c.by
      /\ i.parked \cup i.fresh \subseteq Members(t, i.stage)
      /\ i.parked \cap i.todo = {} /\ i.fresh \cap i.todo = {} /\ i.todo \cap c.done = {}
      /\ \A f \in Members(t, i.stage) \ (i.todo \cup i.parked) : Settled(t, f)
      /\ \A f \in i.parked :
           /\ taskStatus[t] # "cancelled" => status[f] = "waiting"
           /\ f \in i.fresh \cup c.parked
      /\ i.given # None => i.given \in ExecutionsOf(t) /\ Settled(t, i.given)
      /\ IsApi(x) /\ taskStatus[t] = "waiting" => i.parked # {}
  BY <1>1 DEF SteadyInv, Runs
<1>8. /\ i.stage \in {"specialists", "lead"} /\ i.todo \subseteq Members(t, i.stage)
      /\ e \in ExecutionsOf(t) /\ ExecutionsOf(t) \subseteq Execution
      /\ e = Lead[t] => i.stage = "lead"
  <2>1. Superstep(x)  BY DEF DeliveryInv, GraphInv, Knows
  <2>2. i.stage \in {"specialists", "lead"} /\ i.todo \subseteq Members(t, i.stage)
    BY <2>1 DEF Superstep
  <2>3. Members(t, i.stage) \subseteq ExecutionsOf(t) /\ ExecutionsOf(t) \subseteq Execution
    BY MembersType
  <2>4. e = Lead[t] => i.stage = "lead"
    BY <2>2, Roles DEF Members
  <2>. QED  BY <2>2, <2>3, <2>4
<1>9. Lead[t] \in ExecutionsOf(t)  BY Roles
<1>10. \A f \in ExecutionsOf(t) : Settled(t, f) => Settled(t, f)'
  BY <1>3 DEF NodeEffect, Settled
<1>11. watched' = watched /\ checkpoint'[t] = c /\ x \notin draining' /\ completing' = completing
  BY <1>4 DEF Moves, locks
<1>12. Waits(t) /\ Reaches(t)  BY DEF SteadyInv
<1>13. Waits(t)'
  <2>1. \A f \in i.parked : f \in call'[x].parked
    <3>1. Kept(x) \/ Done(x, e) \/ Parked(x, e)  BY DEF NodeEffect
    <3>2. Done(x, e) => call'[x].parked = i.parked  BY <1>2 DEF Done, Call
    <3>3. Parked(x, e) => call'[x].parked = i.parked \cup {e}  BY <1>2 DEF Parked, Call
    <3>. QED  BY <3>1, <3>2, <3>3 DEF Kept
  <2>2. ASSUME NEW f \in ExecutionsOf(t)
        PROVE  /\ status'[f] # "failed"
               /\ status'[f] = "waiting" => taskStatus'[t] = "waiting"
               /\ f \in watched' => Turn(f)' /\ f \in checkpoint'[t].parked
               /\ Turn(f)' => f \in watched' \/ f \in call'[x].parked
    <3>1. /\ status[f] # "failed"
          /\ status[f] = "waiting" => taskStatus[t] = "waiting"
          /\ f \in watched => Turn(f) /\ f \in c.parked
          /\ Turn(f) => f \in watched \/ f \in i.parked
      BY <1>4, <1>12 DEF Waits
    <3>2. CASE status'[f] = status[f] /\ capacityWait'[f] = capacityWait[f]
      <4>1. Turn(f)' <=> Turn(f)  BY <3>2 DEF Turn
      <4>. QED  BY <1>3, <1>11, <2>1, <3>1, <3>2, <4>1
    <3>3. CASE ~(status'[f] = status[f] /\ capacityWait'[f] = capacityWait[f])
      <4>1. f = e /\ ~Turn(f)  BY <3>3 DEF NodeEffect
      <4>2. status'[f] = "waiting" => Parked(x, f) /\ taskStatus'[t] = "waiting"
        BY <3>3, <4>1 DEF NodeEffect
      <4>3. Parked(x, f) => f \in call'[x].parked  BY <1>2 DEF Parked, Call
      <4>. QED  BY <1>11, <3>1, <4>1, <4>2, <4>3 DEF NodeEffect, Turn
    <3>. QED  BY <3>2, <3>3
  <2>. QED  BY <1>6, <2>2 DEF Waits
<1>14. Reaches(t)'
  <2>1. status'[Lead[t]] # "absent" => c.stage \in {"lead", "done"}
    BY <1>7, <1>8, <1>9, <1>12 DEF Reaches, NodeEffect
  <2>2. c.stage = "done" \/ Lead[t] \in c.done => Settled(t, Lead[t])'
    BY <1>9, <1>10, <1>12 DEF Reaches
  <2>3. taskStatus'[t] # "failed"  BY <1>3, <1>4
  <2>. HIDE DEF i, c
  <2>. QED  BY <1>4, <1>6, <1>11, <1>12, <2>1, <2>2, <2>3 DEF Reaches, c
<1>15. Stands(x)'
  <2>1. IsApi(x)' <=> IsApi(x)  BY DEF IsApi
  <2>2. ~IsApi(x) => completing = x  BY <1>1 DEF SteadyInv, Stands
  <2>3. place \notin {"load", "prepare", "invoke", "resume", "finish", "raised"} /\ place \in Within
    BY DEF InGraph, Within
  <2>. HIDE DEF i, c
  <2>. QED  BY <1>3, <1>4, <1>6, <1>11, <2>1, <2>2, <2>3 DEF Stands
<1>16. Runs(x)'
  <2>1. CASE Kept(x)
    <3>1. taskStatus'[t] = taskStatus[t]
      <4>1. Parked(x, e) => e \notin call'[x].todo  BY <1>2 DEF Parked, Call
      <4>. QED  BY <2>1, <4>1 DEF NodeEffect, Kept
    <3>2. \A f \in i.parked : status'[f] = status[f]
      <4>1. e \notin i.parked  BY <1>7
      <4>2. i.parked \subseteq ExecutionsOf(t)  BY <1>7, MembersType
      <4>. QED  BY <4>1, <4>2 DEF NodeEffect
    <3>3. Members(t, i.stage) \subseteq ExecutionsOf(t)  BY MembersType
    <3>4. Members(t, i.stage)' = Members(t, i.stage)  BY <2>1 DEF Kept, Members
    <3>5. call'[x] = i /\ pc'[x] # "returned"  BY <1>6, <2>1 DEF Kept, InGraph
    <3>. HIDE DEF i, c
    <3>. QED  BY <1>6, <1>7, <1>10, <1>11, <3>1, <3>2, <3>3, <3>5 DEF Runs, IsApi
  <2>2. CASE ~Kept(x)
    <3>1. /\ call'[x].stage = i.stage /\ call'[x].by = i.by /\ call'[x].given = i.given
          /\ call'[x].todo = i.todo \ {e} /\ call'[x].fresh = i.fresh \cup {e}
          /\ \/ /\ call'[x].parked = i.parked
                /\ Settled(t, e)' /\ taskStatus'[t] = taskStatus[t]
             \/ /\ call'[x].parked = i.parked \cup {e} /\ status'[e] = "waiting"
                /\ taskStatus'[t] = "waiting" /\ taskStatus[t] # "cancelled"
      BY <1>2, <2>2 DEF NodeEffect, Done, Parked, Call
    <3>2. Members(t, i.stage) \subseteq ExecutionsOf(t)  BY MembersType
    <3>3. \A f \in i.parked : status'[f] = status[f]
      <4>1. e \notin i.parked  BY <1>7
      <4>2. i.parked \subseteq ExecutionsOf(t)  BY <1>7, <3>2
      <4>. QED  BY <4>1, <4>2 DEF NodeEffect
    <3>4. \A f \in call'[x].parked :
             /\ taskStatus'[t] # "cancelled" => status'[f] = "waiting"
             /\ f \in call'[x].fresh \cup c.parked
      BY <1>3, <1>7, <3>1, <3>3
    <3>5. \A f \in Members(t, i.stage) \ (call'[x].todo \cup call'[x].parked) : Settled(t, f)'
      BY <1>7, <1>10, <3>1, <3>2
    <3>6. pc'[x] # "returned" /\ (IsApi(x)' <=> IsApi(x))  BY <1>6 DEF InGraph, IsApi
    <3>7. call'[x].parked \cup call'[x].fresh \subseteq Members(t, i.stage)  BY <1>7, <1>8, <3>1
    <3>8. IsApi(x) /\ taskStatus'[t] = "waiting" => call'[x].parked # {}
      BY <1>7, <3>1
    <3>. HIDE DEF i, c
    <3>9. /\ call'[x].parked \cap call'[x].todo = {} /\ call'[x].fresh \cap call'[x].todo = {}
          /\ call'[x].todo \cap c.done = {}
      BY <1>7, <3>1
    <3>. QED  BY <1>6, <1>7, <1>10, <1>11, <3>1, <3>4, <3>5, <3>6, <3>7, <3>8, <3>9 DEF Runs
  <2>. QED  BY <2>1, <2>2
<1>. HIDE DEF i, c
<1>. QED  BY <1>4, <1>6, <1>13, <1>14, <1>15, <1>16, OneSteady

\* One execution of the task, one thread in its graph.
LEMMA FramedMoves ==
  ASSUME Base, NEW x \in Thread, NEW t \in Task, NEW e \in ExecutionsOf(t), NEW place,
         GoTo(x, place), NodeFrame, \A y \in Thread \ {x} : call'[y] = call[y],
         \A u \in Task \ {t} : taskStatus'[u] = taskStatus[u],
         \A f \in Execution \ {e} : status'[f] = status[f] /\ capacityWait'[f] = capacityWait[f],
         LockFree \/ pc[x] = "submit" \/ UNCHANGED submitting
  PROVE  /\ Moves(x, t, place) /\ UNCHANGED checkpoint
         /\ \A f \in ExecutionsOf(t) \ {e} :
              status'[f] = status[f] /\ capacityWait'[f] = capacityWait[f]
<1>1. \A u \in Task \ {t} : \A f \in ExecutionsOf(u) : f \in Execution \ {e}
  BY Disjoint
<1>2. \A y \in Thread \ {x} : pc[y] = "submit" => UNCHANGED submitting
  BY DEF Base, SubmitInv, LockFree
<1>3. ExecutionsOf(t) \subseteq Execution  BY MembersType
<1>. QED  BY <1>1, <1>2, <1>3 DEF Moves, NodeFrame

\* The call of a thread whose node ends or stops.
LEMMA NodeCalls ==
  ASSUME Base, NEW x \in Thread, NEW e
  PROVE  /\ NodeDone(x, e) => Done(x, e) /\ \A y \in Thread \ {x} : call'[y] = call[y]
         /\ NodeInterrupts(x, e) /\ call[x].given # e =>
              Parked(x, e) /\ \A y \in Thread \ {x} : call'[y] = call[y]
         /\ NodeRaises(x, e) =>
              /\ call'[x] = [call[x] EXCEPT !.todo = @ \ {e}, !.raised = TRUE]
              /\ \A y \in Thread \ {x} : call'[y] = call[y]
<1>1. call \in [Thread -> Call]  BY DEF Base, CallsFit, FlowTypes
<1>. QED  BY <1>1 DEF NodeDone, NodeInterrupts, NodeRaises, Done, Parked

\* What is known where a node runs.
LEMMA NodeStart ==
  ASSUME SteadyInv, Base, DeliveryInv, NEW x \in Thread, pc[x] \in InGraph,
         NEW e \in call[x].todo
  PROVE  /\ Serves(x) \in Task /\ e \in ExecutionsOf(Serves(x)) /\ e \in Execution
         /\ ~Lost(x)
         /\ call[x].given = e => Settled(Serves(x), e)
         /\ Turn(e) => taskStatus[Serves(x)] = "waiting"
         /\ e \in watched => Turn(e)
         /\ status[e] # "failed"
<1>1. PICK t \in Task : t = Serves(x)  BY ServesType DEF Base, InGraph
<1>2. call[x].todo \subseteq ExecutionsOf(t) /\ ExecutionsOf(t) \subseteq Execution
  BY <1>1, MembersType DEF Base, CallsFit, Fits
<1>3. ~Lost(x)  BY DEF SteadyInv, Stands
<1>4. e # None  BY <1>2, ConstantsAssumption DEF ConstantsAssumption
<1>5. call[x].given = e => Settled(t, e)
  BY <1>1, <1>3, <1>4 DEF SteadyInv, Runs
<1>6. Waits(t)  BY DEF SteadyInv
<1>. QED  BY <1>1, <1>2, <1>3, <1>5, <1>6 DEF Waits, Turn

\* A node that finds the work done, or a Turn under way, ...
LEMMA FoundSteady ==
  ASSUME SteadyInv, Base, DeliveryInv, NEW x \in Thread, NEW e \in Execution,
         NodeReturns(x, e) \/ NodeParks(x, e)
  PROVE  SteadyInv'
<1>1. /\ pc[x] = "nodes" /\ e \in call[x].todo
      /\ UNCHANGED <<controlVars, taskVars>> /\ NodeFrame
  BY DEF NodeReturns, NodeParks, RunsNode
<1>2. PICK t \in Task : t = Serves(x)  BY <1>1, NodeStart DEF InGraph
<1>3. /\ e \in ExecutionsOf(t)
      /\ call[x].given = e => Settled(t, e)
      /\ Turn(e) => taskStatus[t] = "waiting"
      /\ status[e] # "failed"
  BY <1>1, <1>2, NodeStart DEF InGraph
<1>4. UNCHANGED <<status, capacityWait, taskStatus, submitting>>
  BY <1>1 DEF controlVars, taskVars
<1>5. CASE NodeReturns(x, e)
  <2>1. Settled(t, e)  BY <1>2, <1>5 DEF NodeReturns, Settled
  <2>2. Settled(t, e)'  BY <1>4, <2>1 DEF Settled
  <2>3. CASE e = Lead[t]
    <3>1. GoTo(x, "review") /\ UNCHANGED call  BY <1>2, <1>5, <2>3 DEF NodeReturns
    <3>2. Moves(x, t, "review") /\ UNCHANGED checkpoint
      BY <1>1, <1>3, <1>4, <3>1, FramedMoves
    <3>3. NodeEffect(x, t, e)  BY <1>3, <1>4, <2>2, <3>1 DEF NodeEffect, Kept
    <3>. QED  BY <1>1, <1>2, <2>2, <2>3, <3>1, <3>2, <3>3, NodeSteady DEF InGraph
  <2>4. CASE e # Lead[t]
    <3>1. NodeDone(x, e) /\ UNCHANGED pc  BY <1>2, <1>5, <2>4 DEF NodeReturns
    <3>2. GoTo(x, "nodes")  BY <1>1, <3>1 DEF GoTo, Base, CallsFit, FlowTypes
    <3>3. Done(x, e) /\ \A y \in Thread \ {x} : call'[y] = call[y]  BY <3>1, NodeCalls
    <3>4. Moves(x, t, "nodes") /\ UNCHANGED checkpoint
      BY <1>1, <1>3, <1>4, <3>2, <3>3, FramedMoves
    <3>5. NodeEffect(x, t, e)  BY <1>3, <1>4, <2>2, <3>3 DEF NodeEffect
    <3>. QED  BY <1>1, <1>2, <3>4, <3>5, NodeSteady DEF InGraph
  <2>. QED  BY <2>3, <2>4
<1>6. CASE NodeParks(x, e)
  <2>1. /\ taskStatus[t] # "cancelled" /\ Turn(e) /\ NodeInterrupts(x, e) /\ UNCHANGED pc
    BY <1>2, <1>3, <1>6 DEF NodeParks, Turn
  <2>2. ~Settled(t, e)  BY <2>1 DEF Settled, Turn
  <2>3. GoTo(x, "nodes")  BY <1>1, <2>1 DEF GoTo, Base, CallsFit, FlowTypes
  <2>4. Parked(x, e) /\ \A y \in Thread \ {x} : call'[y] = call[y]
    BY <1>3, <2>1, <2>2, NodeCalls
  <2>5. Moves(x, t, "nodes") /\ UNCHANGED checkpoint
    BY <1>1, <1>3, <1>4, <2>3, <2>4, FramedMoves
  <2>6. NodeEffect(x, t, e)
    BY <1>3, <1>4, <2>1, <2>2, <2>4 DEF NodeEffect, Turn
  <2>. QED  BY <1>1, <1>2, <2>5, <2>6, NodeSteady DEF InGraph
<1>. QED  BY <1>5, <1>6

\* ... that is queued or admitted, ...
LEMMA AdmissionSteady ==
  ASSUME SteadyInv, Base, DeliveryInv, Calm, NEW x \in Thread, NEW e \in Execution,
         NodeDefers(x, e) \/ NodeRejected(x, e) \/ NodeAdmitted(x, e)
  PROVE  SteadyInv'
<1>1. /\ pc[x] = "nodes" /\ e \in call[x].todo /\ NodeFrame
      /\ taskStatus[Serves(x)] # "cancelled" /\ LockFree /\ Runnable(e)
  BY DEF NodeDefers, NodeRejected, NodeAdmitted, RunsNode, Defer, Reject, Admit
<1>2. PICK t \in Task : t = Serves(x)  BY <1>1, NodeStart DEF InGraph
<1>3. /\ e \in ExecutionsOf(t)
      /\ call[x].given = e => Settled(t, e)
      /\ status[e] # "failed"
  BY <1>1, <1>2, NodeStart DEF InGraph
<1>4. ~NodeRejected(x, e)
  BY DEF NodeRejected, Calm, WithinBudget
<1>5. TypeOK  BY DEF Base, HoldInv
<1>6. ~Turn(e) /\ ~Settled(t, e)
  <2>1. status[e] # "completed" /\ ~Turn(e)  BY <1>1 DEF Runnable, DeferredSet, Turn
  <2>. QED  BY <1>1, <1>2, <2>1 DEF Settled
<1>7. CASE NodeDefers(x, e)
  <2>1. /\ Defer(e) /\ SetTask(t, "waiting") /\ NodeInterrupts(x, e) /\ UNCHANGED pc
    BY <1>2, <1>7 DEF NodeDefers
  <2>2. /\ status'[e] = "waiting" /\ UNCHANGED submitting
        /\ \A f \in Execution \ {e} : status'[f] = status[f] /\ capacityWait'[f] = capacityWait[f]
    BY <1>5, <2>1 DEF Defer, SetStatus, TypeOK
  <2>3. /\ taskStatus'[t] = "waiting" /\ \A u \in Task \ {t} : taskStatus'[u] = taskStatus[u]
    BY <2>1, OneTaskSet DEF TaskStatus
  <2>4. GoTo(x, "nodes")  BY <1>1, <2>1 DEF GoTo, Base, CallsFit, FlowTypes
  <2>5. Parked(x, e) /\ \A y \in Thread \ {x} : call'[y] = call[y]
    BY <1>3, <1>6, <2>1, NodeCalls
  <2>6. /\ Moves(x, t, "nodes") /\ UNCHANGED checkpoint
        /\ \A f \in ExecutionsOf(t) \ {e} :
             status'[f] = status[f] /\ capacityWait'[f] = capacityWait[f]
    BY <1>1, <1>3, <2>2, <2>3, <2>4, <2>5, FramedMoves
  <2>7. NodeEffect(x, t, e)
    BY <1>1, <1>2, <1>6, <2>2, <2>3, <2>5, <2>6 DEF NodeEffect
  <2>. QED  BY <1>1, <1>2, <2>6, <2>7, NodeSteady DEF InGraph
<1>8. CASE NodeAdmitted(x, e)
  <2>1. Admit(e) /\ UNCHANGED <<taskVars, call>> /\ GoTo(x, "submit")
    BY <1>8 DEF NodeAdmitted
  <2>2. /\ status'[e] = "running" /\ submitting' = e
        /\ \A f \in Execution \ {e} : status'[f] = status[f] /\ capacityWait'[f] = capacityWait[f]
    BY <1>5, <2>1 DEF Admit, SetStatus, TypeOK
  <2>3. UNCHANGED taskStatus  BY <2>1 DEF taskVars
  <2>4. /\ Moves(x, t, "submit") /\ UNCHANGED checkpoint
        /\ \A f \in ExecutionsOf(t) \ {e} :
             status'[f] = status[f] /\ capacityWait'[f] = capacityWait[f]
    BY <1>1, <1>3, <2>1, <2>2, <2>3, FramedMoves
  <2>5. NodeEffect(x, t, e)
    BY <1>6, <2>1, <2>2, <2>3, <2>4 DEF NodeEffect, Kept
  <2>. QED  BY <1>1, <1>2, <2>1, <2>2, <2>4, <2>5, NodeSteady DEF InGraph
<1>. QED  BY <1>4, <1>7, <1>8

\* ... or for which the review is created, ...
LEMMA CreateSteady ==
  ASSUME SteadyInv, Base, DeliveryInv, NEW x \in Thread, CreateReview(x)
  PROVE  SteadyInv'
<1>1. PICK t \in Task : t = Serves(x)
  BY ServesType DEF CreateReview, RunsNode, Base
<1>2. PICK e \in Execution : e = Lead[t] /\ e \in ExecutionsOf(t)
  BY Roles, MembersType
<1>3. /\ pc[x] = "nodes" /\ e \in call[x].todo /\ NodeFrame /\ LockFree
      /\ taskStatus[t] # "cancelled" /\ status[e] = "absent" /\ Create({e})
      /\ UNCHANGED <<taskVars, pc, call>>
  BY <1>1, <1>2 DEF CreateReview, RunsNode
<1>4. /\ status'[e] = "submitted" /\ UNCHANGED <<capacityWait, submitting>>
      /\ \A f \in Execution \ {e} : status'[f] = status[f]
  BY <1>3 DEF Create
<1>5. GoTo(x, "nodes")  BY <1>3 DEF GoTo, Base, CallsFit, FlowTypes
<1>6. /\ Moves(x, t, "nodes") /\ UNCHANGED checkpoint
      /\ \A f \in ExecutionsOf(t) \ {e} :
           status'[f] = status[f] /\ capacityWait'[f] = capacityWait[f]
  BY <1>2, <1>3, <1>4, <1>5, FramedMoves DEF taskVars
<1>7. ~Turn(e) /\ ~Settled(t, e)  BY <1>3 DEF Turn, Settled
<1>8. NodeEffect(x, t, e)
  BY <1>3, <1>4, <1>6, <1>7 DEF NodeEffect, Kept, taskVars
<1>. QED  BY <1>1, <1>3, <1>6, <1>8, NodeSteady DEF InGraph

\* ... and the outcomes of a submission.
LEMMA OutcomeSteady ==
  ASSUME SteadyInv, Base, DeliveryInv, Calm, NEW x \in Thread,
         SubmissionWaits(x) \/ SubmissionCompletes(x) \/ SubmissionFails(x)
  PROVE  SteadyInv'
<1>1. pc[x] = "submit" /\ NodeFrame
  BY DEF SubmissionWaits, SubmissionCompletes, SubmissionFails
<1>2. PICK e : e = submitting /\ e \in call[x].todo
  BY <1>1 DEF SteadyInv, Stands
<1>3. PICK t \in Task : t = Serves(x)  BY <1>1, <1>2, NodeStart DEF InGraph
<1>4. /\ e \in ExecutionsOf(t) /\ e \in Execution
      /\ call[x].given = e => Settled(t, e)
  BY <1>1, <1>2, <1>3, NodeStart DEF InGraph
<1>5. status[e] = "running" /\ TypeOK
  BY <1>2, <1>4, ConstantsAssumption DEF Base, HoldInv, SubmittingRuns, ConstantsAssumption
<1>6. taskStatus[t] # "cancelled"
  BY <1>1, <1>3 DEF DeliveryInv, GraphInv, Knows
<1>7. ~Turn(e) /\ ~Settled(t, e)  BY <1>5, <1>6 DEF Turn, Settled
<1>8. ~SubmissionFails(x)  BY DEF SubmissionFails, Calm
<1>9. CASE SubmissionWaits(x)
  <2>1. SubmitWaiting(e) /\ SetTask(t, "waiting") /\ NodeInterrupts(x, e) /\ GoTo(x, "nodes")
    BY <1>2, <1>3, <1>9 DEF SubmissionWaits
  <2>2. /\ status'[e] = "waiting" /\ UNCHANGED capacityWait
        /\ \A f \in Execution \ {e} : status'[f] = status[f]
    BY <1>4, <1>5, <2>1 DEF SubmitWaiting, SetStatus, TypeOK
  <2>3. /\ taskStatus'[t] = "waiting" /\ \A u \in Task \ {t} : taskStatus'[u] = taskStatus[u]
    BY <2>1, OneTaskSet DEF TaskStatus
  <2>4. Parked(x, e) /\ \A y \in Thread \ {x} : call'[y] = call[y]
    BY <1>4, <1>7, <2>1, NodeCalls
  <2>5. /\ Moves(x, t, "nodes") /\ UNCHANGED checkpoint
        /\ \A f \in ExecutionsOf(t) \ {e} :
             status'[f] = status[f] /\ capacityWait'[f] = capacityWait[f]
    BY <1>1, <1>4, <2>1, <2>2, <2>3, <2>4, FramedMoves
  <2>6. NodeEffect(x, t, e)
    BY <1>6, <1>7, <2>2, <2>3, <2>4, <2>5 DEF NodeEffect
  <2>. QED  BY <1>1, <1>2, <1>3, <2>5, <2>6, NodeSteady DEF InGraph
<1>10. CASE SubmissionCompletes(x)
  <2>1. PICK usage \in Usage \cup {None} : SubmitCompleted(e, usage)
    BY <1>2, <1>10 DEF SubmissionCompletes
  <2>2. UNCHANGED taskStatus  BY <1>10 DEF SubmissionCompletes
  <2>3. /\ status'[e] = "completed" /\ UNCHANGED capacityWait
        /\ \A f \in Execution \ {e} : status'[f] = status[f]
    BY <1>4, <1>5, <2>1 DEF SubmitCompleted, SetStatus, TypeOK
  <2>4. Settled(t, e)'  BY <2>3 DEF Settled
  <2>5. CASE e = Lead[t]
    <3>1. GoTo(x, "review") /\ UNCHANGED call
      BY <1>2, <1>3, <1>10, <2>5 DEF SubmissionCompletes
    <3>2. /\ Moves(x, t, "review") /\ UNCHANGED checkpoint
          /\ \A f \in ExecutionsOf(t) \ {e} :
               status'[f] = status[f] /\ capacityWait'[f] = capacityWait[f]
      BY <1>1, <1>4, <2>2, <2>3, <3>1, FramedMoves
    <3>3. NodeEffect(x, t, e)
      BY <1>7, <2>2, <2>3, <2>4, <3>1, <3>2 DEF NodeEffect, Kept
    <3>. QED  BY <1>1, <1>2, <1>3, <2>4, <2>5, <3>1, <3>2, <3>3, NodeSteady DEF InGraph
  <2>6. CASE e # Lead[t]
    <3>1. GoTo(x, "nodes") /\ NodeDone(x, e)
      BY <1>2, <1>3, <1>10, <2>6 DEF SubmissionCompletes
    <3>2. Done(x, e) /\ \A y \in Thread \ {x} : call'[y] = call[y]  BY <3>1, NodeCalls
    <3>3. /\ Moves(x, t, "nodes") /\ UNCHANGED checkpoint
          /\ \A f \in ExecutionsOf(t) \ {e} :
               status'[f] = status[f] /\ capacityWait'[f] = capacityWait[f]
      BY <1>1, <1>4, <2>2, <2>3, <3>1, <3>2, FramedMoves
    <3>4. NodeEffect(x, t, e)
      BY <1>7, <2>2, <2>3, <2>4, <3>2, <3>3 DEF NodeEffect
    <3>. QED  BY <1>1, <1>2, <1>3, <3>3, <3>4, NodeSteady DEF InGraph
  <2>. QED  BY <2>5, <2>6
<1>. QED  BY <1>8, <1>9, <1>10

\* The executions of a task whose work is delivered, or that is cancelled, do
\* not wait.
LEMMA NoneWaits ==
  ASSUME SteadyInv, NEW t \in Task,
         taskStatus[t] # "waiting" \/ \A e \in ExecutionsOf(t) : Settled(t, e)
  PROVE  \A e \in ExecutionsOf(t) : status[e] # "waiting" /\ e \notin watched
BY DEF SteadyInv, Waits, Settled, Turn

\* The review: an invalid answer fails the task, and the superstep raises.
LEMMA ReviewSteady ==
  ASSUME SteadyInv, Base, DeliveryInv, NEW x \in Thread, Review(x)
  PROVE  SteadyInv'
<1>1. PICK t \in Task : t = Serves(x)  BY ServesType DEF Review, Base
<1>2. PICK e \in Execution : e = Lead[t] /\ e \in ExecutionsOf(t)
  BY Roles, MembersType
<1>3. /\ pc[x] = "review" /\ GoTo(x, "nodes") /\ NodeFrame /\ LockFree
      /\ UNCHANGED <<status, capacityWait, submitting, verdict>>
  BY DEF Review, controlVars
<1>4. e \in call[x].todo /\ Settled(t, e)
  BY <1>1, <1>2, <1>3 DEF SteadyInv, Stands
<1>5. ~Lost(x) /\ status[e] # "failed" /\ pc[x] \in Within
  BY <1>3, <1>4, NodeStart DEF Within, InGraph
<1>6. CASE ~(taskStatus[t] # "cancelled" /\ verdict[t] = "invalid")
  <2>1. NodeDone(x, e) /\ UNCHANGED taskStatus  BY <1>1, <1>2, <1>6 DEF Review
  <2>2. Done(x, e) /\ \A y \in Thread \ {x} : call'[y] = call[y]  BY <2>1, NodeCalls
  <2>3. Moves(x, t, "nodes") /\ UNCHANGED checkpoint
    BY <1>2, <1>3, <2>1, <2>2, FramedMoves
  <2>4. NodeEffect(x, t, e)
    BY <1>3, <1>4, <1>5, <2>1, <2>2 DEF NodeEffect, Settled
  <2>. QED  BY <1>1, <1>3, <1>4, <2>3, <2>4, NodeSteady DEF InGraph
<1>7. CASE taskStatus[t] # "cancelled" /\ verdict[t] = "invalid"
  <2>1. NodeRaises(x, e) /\ SetTask(t, "failed")  BY <1>1, <1>2, <1>7 DEF Review
  <2>2. /\ call'[x] = [call[x] EXCEPT !.todo = @ \ {e}, !.raised = TRUE]
        /\ \A y \in Thread \ {x} : call'[y] = call[y]
    BY <2>1, NodeCalls
  <2>3. call[x] \in Call  BY DEF Base, CallsFit, FlowTypes
  <2>4. /\ call'[x].todo = call[x].todo \ {e} /\ call'[x].raised
        /\ call'[x].fresh = call[x].fresh
    BY <2>2, <2>3 DEF Call
  <2>5. /\ taskStatus'[t] = "failed" /\ \A u \in Task \ {t} : taskStatus'[u] = taskStatus[u]
    BY <2>1, OneTaskSet DEF TaskStatus, Terminal
  <2>6. Moves(x, t, "nodes") /\ UNCHANGED checkpoint
    BY <1>2, <1>3, <2>2, <2>5, FramedMoves
  <2>7. /\ OneStep(x, t) /\ pc'[x] = "nodes" /\ Lost(x)' /\ Serves(x)' = t
        /\ Serving(t)' = {}
        /\ Calling(t)' <=> IsApi(x)
    BY <1>1, <1>5, <2>4, <2>5, <2>6, RaiseMoves DEF InGraph
  <2>8. /\ Serving(t) = {x} /\ x \notin draining
        /\ IsApi(x) \/ completing = x
    BY <1>1, <1>3, <1>5, GraphServes DEF SteadyInv, Stands
  <2>9. call[x].stage = "lead" /\ call[x].todo = {e} /\ call[x].fresh \subseteq {e}
    <3>1. /\ call[x].stage \in {"specialists", "lead"}
          /\ call[x].todo \subseteq Members(t, call[x].stage)
      BY <1>1, <1>3 DEF DeliveryInv, GraphInv, Knows, Superstep, InGraph
    <3>2. call[x].fresh \subseteq Members(t, call[x].stage)
      BY <1>1, <1>3, <1>5 DEF SteadyInv, Runs, InGraph
    <3>. QED  BY <1>2, <1>4, <3>1, <3>2, Roles DEF Members
  <2>10. /\ checkpoint[t].stage = "lead" /\ e \notin checkpoint[t].done
         /\ call[x].fresh = {}
    BY <1>1, <1>3, <1>4, <1>5, <2>9 DEF SteadyInv, Runs, InGraph
  <2>11. \A f \in ExecutionsOf(t) : Settled(t, f)
    <3>1. verdict[t] # None  BY <1>7, FlowAssumption DEF FlowAssumption, VerdictKinds
    <3>2. Delivered(t)  BY <1>2, <3>1 DEF DeliveryInv, RowsInv, Rows
    <3>. QED  BY <1>2, <1>4, <3>2 DEF Delivered, Settled, ExecutionsOf
  <2>12. \A f \in ExecutionsOf(t) : status[f] # "waiting" /\ f \notin watched
    BY <2>11, NoneWaits
  <2>13. watched' = watched /\ x \notin draining' /\ completing' = completing
    BY <1>3, <2>8 DEF NodeFrame, locks
  <2>14. Waits(t)'
    BY <1>3, <2>12, <2>13 DEF SteadyInv, Waits, Turn
  <2>15. Reaches(t)'
    BY <1>2, <2>5, <2>6, <2>7, <2>10, <2>12, <2>13 DEF Reaches
  <2>16. Stands(x)' /\ Runs(x)'
    <3>1. IsApi(x)' <=> IsApi(x)  BY DEF IsApi
    <3>2. call'[x].todo = {} /\ call'[x].fresh = {}  BY <2>4, <2>9, <2>10
    <3>. QED  BY <2>7, <2>8, <2>13, <3>1, <3>2 DEF Stands, Runs, Within, InGraph
  <2>. QED  BY <2>7, <2>8, <2>14, <2>15, <2>16, OneSteady
<1>. QED  BY <1>6, <1>7

-----------------------------------------------------------------------------
(* The graph.                                                              *)

\* An outcome is written to the checkpoint the superstep works on.
LEMMA WriteSteady ==
  ASSUME SteadyInv, Base, DeliveryInv, NEW x \in Thread, NEW e \in Execution, WriteOutcome(x, e)
  PROVE  SteadyInv'
<1>1. /\ pc[x] \in InGraph /\ e \in call[x].fresh
      /\ call' = [call EXCEPT ![x].fresh = @ \ {e}]
      /\ UNCHANGED <<status, capacityWait, submitting, taskStatus, pc, job, draining, locks, watched>>
  BY DEF WriteOutcome, InGraph, controlVars, taskVars, threadVars
<1>2. PICK t \in Task : t = Serves(x)  BY <1>1, ServesType DEF Base, InGraph
<1>. DEFINE i == call[x]
            c == checkpoint[t]
<1>3. ~Lost(x) /\ pc[x] \in Within  BY <1>1 DEF SteadyInv, Stands, Within
<1>4. /\ i.stage = c.stage /\ i.by = c.by
      /\ i.parked \cup i.fresh \subseteq Members(t, i.stage)
      /\ i.parked \cap i.todo = {} /\ i.fresh \cap i.todo = {} /\ i.todo \cap c.done = {}
      /\ \A f \in Members(t, i.stage) \ (i.todo \cup i.parked) : Settled(t, f)
      /\ \A f \in i.parked :
           /\ taskStatus[t] # "cancelled" => status[f] = "waiting"
           /\ f \in i.fresh \cup c.parked
      /\ i.given # None => i.given \in ExecutionsOf(t) /\ Settled(t, i.given)
      /\ IsApi(x) /\ taskStatus[t] = "waiting" => i.parked # {}
  BY <1>1, <1>2, <1>3 DEF SteadyInv, Runs
<1>5. i \in Call /\ c \in Checkpoint /\ call \in [Thread -> Call] /\ checkpoint \in [Task -> Checkpoint]
  BY DEF Base, CallsFit, FlowTypes
<1>6. /\ call'[x].stage = i.stage /\ call'[x].by = i.by /\ call'[x].todo = i.todo
      /\ call'[x].fresh = i.fresh \ {e} /\ call'[x].parked = i.parked
      /\ call'[x].raised = i.raised /\ call'[x].given = i.given
      /\ \A y \in Thread \ {x} : call'[y] = call[y]
  BY <1>1, <1>5 DEF Call
<1>7. checkpoint' = IF e \in i.parked
                    THEN [checkpoint EXCEPT ![t].parked = @ \cup {e}]
                    ELSE [checkpoint EXCEPT ![t].done = @ \cup {e}]
  BY <1>2, <1>4 DEF WriteOutcome
<1>8. /\ checkpoint'[t].stage = c.stage /\ checkpoint'[t].by = c.by
      /\ checkpoint'[t].parked = IF e \in i.parked THEN c.parked \cup {e} ELSE c.parked
      /\ checkpoint'[t].done = IF e \in i.parked THEN c.done ELSE c.done \cup {e}
      /\ \A u \in Task \ {t} : checkpoint'[u] = checkpoint[u]
  BY <1>5, <1>7 DEF Checkpoint
<1>9. GoTo(x, pc[x])  BY <1>1 DEF GoTo, Base, CallsFit, FlowTypes
<1>10. Moves(x, t, pc[x])  BY <1>1, <1>6, <1>8, <1>9 DEF Moves
<1>11. /\ Serving(t) = {x} /\ x \notin draining
       /\ taskStatus[t] # "failed"
  BY <1>2, <1>3, GraphServes
<1>12. /\ OneStep(x, t) /\ pc'[x] = pc[x] /\ ~Lost(x)' /\ Serves(x)' = t
       /\ Serving(t)' = {x}
       /\ Calling(t)' <=> Calling(t)
  <2>1. pc[x] \in InGraph => ~call'[x].raised  BY <1>3, <1>6 DEF Lost
  <2>2. Calling(t) <=> IsApi(x)  BY <1>2, <1>3, GraphServes
  <2>. QED  BY <1>1, <1>2, <1>3, <1>10, <2>1, <2>2, NodeMoves
<1>13. \A f \in Execution : Settled(t, f)' <=> Settled(t, f)  BY <1>1 DEF Settled
<1>14. Lead[t] \in Execution /\ Lead[t] \in ExecutionsOf(t)
  BY Roles
<1>15. i.stage \in {"specialists", "lead"}
  BY <1>1, <1>2 DEF DeliveryInv, GraphInv, Knows, Superstep
<1>16. Waits(t) /\ Reaches(t)  BY DEF SteadyInv
<1>. HIDE DEF i, c
<1>17. Waits(t)'
  BY <1>1, <1>6, <1>8, <1>11, <1>12, <1>16 DEF Waits, Turn, i, c
<1>18. Reaches(t)'
  <2>1. Lead[t] \in checkpoint'[t].done => Settled(t, Lead[t])
    <3>1. Lead[t] \in c.done => Settled(t, Lead[t])  BY <1>16 DEF Reaches, c
    <3>2. e \notin i.parked => Settled(t, e)
      <4>1. e \in i.fresh  BY <1>1 DEF i
      <4>. QED  BY <1>4, <4>1
    <3>. QED  BY <1>8, <3>1, <3>2
  <2>. QED  BY <1>1, <1>4, <1>8, <1>11, <1>12, <1>13, <1>14, <1>15, <1>16, <2>1 DEF Reaches, c
<1>19. Stands(x)'
  <2>1. Stands(x)  BY DEF SteadyInv
  <2>. QED  BY <1>1, <1>2, <1>6, <1>11, <1>12, <1>13, <1>14, <2>1 DEF Stands, IsApi, InGraph, Within, locks, i
<1>20. Runs(x)'
  <2>1. Members(t, i.stage) \subseteq Execution /\ ExecutionsOf(t) \subseteq Execution  BY MembersType
  <2>2. \A f \in Members(t, i.stage) \ (i.todo \cup i.parked) : Settled(t, f)'
    BY <1>4, <1>13, <2>1
  <2>3. pc'[x] # "returned" /\ (IsApi(x)' <=> IsApi(x))  BY <1>1, <1>12 DEF InGraph, IsApi
  <2>4. \A f \in i.parked : f \in call'[x].fresh \cup checkpoint'[t].parked
    BY <1>4, <1>6, <1>8
  <2>5. call'[x].todo \cap checkpoint'[t].done = {}
    <3>1. e \in i.fresh  BY <1>1 DEF i
    <3>. QED  BY <1>4, <1>6, <1>8, <3>1
  <2>6. call'[x].fresh \cap call'[x].todo = {}  BY <1>4, <1>6
  <2>. QED  BY <1>1, <1>4, <1>6, <1>8, <1>12, <1>13, <2>1, <2>2, <2>3, <2>4, <2>5, <2>6 DEF Runs
<1>. QED  BY <1>11, <1>12, <1>17, <1>18, <1>19, <1>20, OneSteady

\* What an invocation begins with.
LEMMA EnterRuns ==
  ASSUME Base, NEW x \in Thread, NEW t \in Task, Serves(x)' = t,
         NEW c \in Checkpoint, checkpoint'[t] = c,
         NEW given \in Execution \cup {None}, Enter(x, t, c, given),
         \A e \in Members(t, c.stage) \cap c.done : Settled(t, e)',
         given # None => given \in ExecutionsOf(t) /\ Settled(t, given)',
         IsApi(x) => taskStatus'[t] # "waiting",
         pc'[x] \in {"nodes", "returned"}, pc'[x] = "returned" => c.stage = "done"
  PROVE  /\ Runs(x)' /\ ~Lost(x)' /\ ~call'[x].raised /\ call'[x].parked = {}
         /\ \A y \in Thread \ {x} : call'[y] = call[y]
<1>1. call \in [Thread -> Call]  BY DEF Base, CallsFit, FlowTypes
<1>2. /\ call'[x] = [NoCall EXCEPT !.stage = c.stage, !.by = c.by, !.given = given,
                                   !.todo = Members(t, c.stage) \ c.done]
      /\ \A y \in Thread \ {x} : call'[y] = call[y]
  BY <1>1 DEF Enter
<1>3. /\ call'[x].stage = c.stage /\ call'[x].by = c.by /\ call'[x].given = given
      /\ call'[x].todo = Members(t, c.stage) \ c.done /\ call'[x].fresh = {}
      /\ call'[x].parked = {} /\ ~call'[x].raised
  BY <1>2 DEF NoCall
<1>4. ~Lost(x)'  BY <1>3 DEF Lost
<1>5. c.stage = "done" => Members(t, c.stage) = {}  BY DEF Members
<1>6. Runs(x)'
  BY <1>3, <1>5 DEF Runs, IsApi
<1>. QED  BY <1>2, <1>3, <1>4, <1>6

\* A superstep without an interrupt leaves nothing that waits.
LEMMA StageDone ==
  ASSUME SteadyInv, Base, DeliveryInv, NEW x \in Thread, pc[x] \in InGraph, ~Lost(x),
         call[x].todo = {}, call[x].parked = {}, NEW t \in Task, t = Serves(x)
  PROVE  /\ \A e \in ExecutionsOf(t) : status[e] # "waiting" /\ e \notin watched
         /\ call[x].stage = "lead" => Settled(t, Lead[t])
         /\ IsApi(x) => taskStatus[t] # "waiting"
<1>1. Superstep(x) /\ Waits(t) /\ Reaches(t)
  BY DEF DeliveryInv, GraphInv, Knows, SteadyInv
<1>2. /\ call[x].stage = checkpoint[t].stage
      /\ \A e \in Members(t, call[x].stage) : Settled(t, e)
      /\ IsApi(x) => taskStatus[t] # "waiting"
  BY DEF SteadyInv, Runs
<1>3. call[x].stage = "lead" => Settled(t, Lead[t])  BY <1>2 DEF Members
<1>4. ASSUME NEW e \in ExecutionsOf(t)
      PROVE  status[e] # "waiting"
  <2>1. SUFFICES ASSUME status[e] = "waiting", ~Settled(t, e) PROVE FALSE
    BY <1>1 DEF Waits, Settled
  <2>2. CASE call[x].stage = "lead"
    <3>1. Past(t)  BY <1>1, <2>2 DEF Superstep
    <3>. QED  BY <1>3, <2>1, <2>2, <3>1 DEF Past, ExecutionsOf
  <2>3. CASE call[x].stage = "specialists"
    <3>1. e \notin SpecialistSet(t)  BY <1>2, <2>1, <2>3 DEF Members
    <3>2. e = Lead[t]  BY <3>1 DEF ExecutionsOf
    <3>. QED  BY <1>1, <1>2, <2>1, <2>3, <3>2 DEF Reaches
  <2>. QED  BY <1>1, <2>2, <2>3 DEF Superstep
<1>. QED  BY <1>1, <1>2, <1>3, <1>4 DEF Waits, Turn

\* The end of a superstep.
LEMMA SuperstepSteady ==
  ASSUME SteadyInv, Base, DeliveryInv, NEW x \in Thread, EndSuperstep(x)
  PROVE  SteadyInv'
<1>1. /\ pc[x] = "nodes" /\ call[x].todo = {} /\ call[x].fresh = {}
      /\ UNCHANGED <<status, capacityWait, submitting, taskStatus, job, draining, locks, watched>>
  BY DEF EndSuperstep, controlVars, taskVars
<1>2. PICK t \in Task : t = Serves(x)  BY <1>1, ServesType DEF Base
<1>3. pc[x] \in InGraph /\ pc[x] \in Within  BY <1>1 DEF InGraph, Within
<1>4. (IsApi(x) \/ completing = x) /\ x \notin draining
  BY <1>1, <1>3 DEF SteadyInv, Stands
<1>5. IsApi(x)' <=> IsApi(x)  BY DEF IsApi
<1>6. CASE call[x].raised
  <2>1. GoTo(x, "raised") /\ UNCHANGED graphVars
    BY <1>6 DEF EndSuperstep
  <2>2. pc'[x] = "raised" /\ \A y \in Thread \ {x} : pc'[y] = pc[y]
    BY <2>1 DEF GoTo, Base, CallsFit, FlowTypes
  <2>3. Lost(x) /\ Lost(x)'  BY <1>3, <1>6, <2>2 DEF Lost
  <2>4. \A u \in Task : x \notin Serving(u) /\ x \notin Serving(u)'
    BY <2>3 DEF Serving
  <2>5. ASSUME NEW u \in Task, Calling(u)' PROVE Calling(u)
    <3>1. Api(u) \in Thread  BY ApiNames
    <3>2. Api(u) = x => Calling(u)  BY <1>3 DEF Calling
    <3>. QED  BY <1>1, <2>2, <2>5, <3>1, <3>2 DEF Calling
  <2>6. Stands(x)' /\ Runs(x)'
    BY <1>1, <1>4, <1>5, <2>2, <2>3 DEF Stands, Runs, Within, InGraph, locks
  <2>. QED  BY <1>1, <2>1, <2>2, <2>4, <2>5, <2>6, AsideSteady DEF graphVars, locks
<1>7. CASE ~call[x].raised
  <2>1. ~Lost(x)  BY <1>1, <1>7 DEF Lost
  <2>2. /\ Serving(t) = {x}
        /\ Calling(t) <=> IsApi(x)
        /\ IsApi(x) => x = Api(t)
        /\ taskStatus[t] \in {"waiting", "cancelled"} \/ (IsApi(x) /\ taskStatus[t] = "running")
    BY <1>2, <1>3, <2>1, GraphServes
  <2>3. Waits(t) /\ Reaches(t) /\ Runs(x)  BY DEF SteadyInv
  <2>4. CASE call[x].parked # {}
    <3>1. GoTo(x, "returned") /\ UNCHANGED graphVars
      BY <1>7, <2>4 DEF EndSuperstep
    <3>2. Moves(x, t, "returned")  BY <1>1, <3>1 DEF Moves, graphVars
    <3>3. /\ OneStep(x, t) /\ pc'[x] = "returned" /\ ~Lost(x)' /\ Serves(x)' = t
          /\ Serving(t)' = {x}
          /\ Calling(t)' <=> IsApi(x)
      BY <1>1, <1>2, <1>3, <2>1, <3>2, NodeMoves DEF Within, InGraph
    <3>4. Waits(t)'  BY <1>1, <2>2, <2>3, <3>1, <3>3 DEF Waits, Turn, graphVars
    <3>5. \A e : Settled(t, e)' <=> Settled(t, e)  BY <1>1 DEF Settled
    <3>6. Reaches(t)'
      BY <1>1, <2>2, <2>3, <3>1, <3>3, <3>5 DEF Reaches, graphVars
    <3>7. Stands(x)'
      BY <1>1, <1>4, <1>5, <2>2, <3>3 DEF Stands, Within, InGraph, locks
    <3>8. Runs(x)'
      BY <1>1, <1>2, <1>3, <1>5, <2>1, <2>3, <2>4, <3>1, <3>3, <3>5 DEF Runs, graphVars
    <3>. QED  BY <2>2, <3>3, <3>4, <3>6, <3>7, <3>8, OneSteady
  <2>5. CASE call[x].parked = {}
    <3>. DEFINE next == [stage |-> NextStage(call[x].stage), by |-> x,
                         done |-> {}, parked |-> {}]
    <3>1. /\ checkpoint' = [checkpoint EXCEPT ![t] = next]
          /\ Enter(x, t, next, None)
          /\ GoTo(x, IF next.stage = "done" THEN "returned" ELSE "nodes")
      BY <1>2, <1>7, <2>5 DEF EndSuperstep
    <3>2. /\ next \in Checkpoint /\ next.done = {} /\ next.parked = {}
          /\ next.stage \in {"lead", "done"}
          /\ next.stage = "done" => call[x].stage = "lead"
      <4>1. call[x].stage \in {"specialists", "lead"}
        BY <1>1 DEF DeliveryInv, GraphInv, Knows, Superstep, InGraph
      <4>. QED  BY <4>1 DEF NextStage, Checkpoint, Stage
    <3>3. checkpoint'[t] = next /\ \A u \in Task \ {t} : checkpoint'[u] = checkpoint[u]
      BY <3>1 DEF Base, CallsFit, FlowTypes
    <3>. HIDE DEF next
    <3>4. PICK place \in {"returned", "nodes"} :
             GoTo(x, place) /\ (place = "returned" => next.stage = "done")
      BY <3>1
    <3>5. /\ \A e \in ExecutionsOf(t) : status[e] # "waiting" /\ e \notin watched
          /\ call[x].stage = "lead" => Settled(t, Lead[t])
          /\ IsApi(x) => taskStatus[t] # "waiting"
      BY <1>1, <1>2, <1>3, <2>1, <2>5, StageDone
    <3>6. pc'[x] = place /\ Serves(x)' = t
      BY <1>1, <1>2, <3>4 DEF GoTo, Base, CallsFit, FlowTypes, Serves
    <3>7. /\ Runs(x)' /\ ~Lost(x)' /\ ~call'[x].raised /\ call'[x].parked = {}
          /\ \A y \in Thread \ {x} : call'[y] = call[y]
      BY <1>1, <3>1, <3>2, <3>3, <3>4, <3>5, <3>6, EnterRuns
    <3>8. Moves(x, t, place)
      BY <1>1, <3>3, <3>4, <3>7 DEF Moves
    <3>9. /\ OneStep(x, t)
          /\ Serving(t)' = {x}
          /\ Calling(t)' <=> IsApi(x)
      BY <1>1, <1>2, <1>3, <2>1, <3>7, <3>8, NodeMoves DEF Within, InGraph
    <3>10. Waits(t)'
      BY <1>1, <2>3, <3>5 DEF Waits, Turn
    <3>11. Reaches(t)'
      <4>1. Settled(t, Lead[t])' <=> Settled(t, Lead[t])  BY <1>1 DEF Settled
      <4>. QED  BY <1>1, <2>2, <2>3, <3>2, <3>3, <3>5, <3>9, <4>1 DEF Reaches
    <3>12. Stands(x)'
      BY <1>1, <1>4, <1>5, <2>2, <3>4, <3>6, <3>7 DEF Stands, Within, InGraph, locks
    <3>. QED  BY <2>2, <3>7, <3>9, <3>10, <3>11, <3>12, OneSteady
  <2>. QED  BY <2>4, <2>5
<1>. QED  BY <1>6, <1>7

\* A thread that leaves: it serves nobody any more.
LEMMA LeaveMoves ==
  ASSUME SteadyInv, Base, NEW x \in Thread, NEW t \in Task, t = Serves(x),
         pc[x] \in {"resume"} \cup Within, ~Lost(x), Leave(x),
         UNCHANGED <<status, capacityWait, submitting, checkpoint>>,
         taskStatus'[t] = "running" => taskStatus[t] = "running",
         \A u \in Task \ {t} :
            /\ taskStatus'[u] = taskStatus[u]
            /\ \A e \in ExecutionsOf(u) : e \in watched' <=> e \in watched
  PROVE  /\ OneStep(x, t) /\ Serving(t) = {x}
         /\ Serving(t)' = {} /\ ~Calling(t)'
         /\ Stands(x)' /\ Runs(x)'
<1>1. Serving(t) = {x} /\ x \in Serving(t)  BY WithinServes, OneServes
<1>2. PICK place \in {"idle", "drain"} :
         GoTo(x, place) /\ (IsApi(x) <=> place = "idle")
  BY DEF Leave
<1>3. /\ pc'[x] = place /\ \A y \in Thread \ {x} : pc'[y] = pc[y]
      /\ call'[x] = NoCall /\ \A y \in Thread \ {x} : call'[y] = call[y]
      /\ \A y \in Thread \ {x} : job'[y] = job[y]
      /\ draining' = (IF IsApi(x) THEN draining ELSE draining \cup {x})
      /\ completing' = completing
  BY <1>2 DEF Leave, GoTo, Base, CallsFit, FlowTypes
<1>4. x \notin draining  BY DEF SteadyInv, Stands, Within, InGraph
<1>5. \A u \in Task \ {t} : x # Api(u) /\ x \notin Serving(u)
  BY <1>1, ApiNames, ServesOnce
<1>6. \A u \in Task : x \notin Serving(u)'
  <2>1. IsApi(x)' <=> IsApi(x)  BY DEF IsApi
  <2>2. \A u \in Task : x = Api(u) => ~Calling(u)'
    <3>1. SUFFICES ASSUME NEW u \in Task, x = Api(u) PROVE ~Calling(u)'
      OBVIOUS
    <3>2. pc'[x] = "idle"  BY <1>2, <1>3, <3>1, ApiNames
    <3>. QED  BY <3>1, <3>2 DEF Calling, Within, InGraph
  <2>. QED  BY <1>2, <1>3, <2>1, <2>2 DEF Serving, Within, InGraph
<1>7. OneStep(x, t)
  BY <1>3, <1>5, <1>6 DEF OneStep
<1>8. Serving(t)' = {}
  <2>1. Serving(t)' \subseteq Serving(t) \cup {x}  BY <1>7, OthersServe
  <2>. QED  BY <1>1, <1>6, <2>1
<1>9. ~Calling(t)'
  <2>1. CASE IsApi(x)
    <3>1. x = Api(t) /\ pc'[x] = "idle"  BY <1>1, <1>2, <1>3, <2>1, ServesOnce
    <3>. QED  BY <3>1 DEF Calling, Within, InGraph
  <2>2. CASE ~IsApi(x)
    <3>1. Api(t) \in Thread \ {x}  BY <2>2, ApiNames
    <3>2. ~Calling(t)  BY <1>1, <3>1 DEF SteadyInv, Reaches
    <3>. QED  BY <1>3, <3>1, <3>2 DEF Calling
  <2>. QED  BY <2>1, <2>2
<1>10. Stands(x)' /\ Runs(x)'
  <2>1. call'[x].parked = {}  BY <1>3 DEF NoCall
  <2>2. IsApi(x)' <=> IsApi(x)  BY DEF IsApi
  <2>. QED  BY <1>2, <1>3, <1>4, <2>1, <2>2 DEF Stands, Runs, Lost, Within, InGraph
<1>. QED  BY <1>1, <1>7, <1>8, <1>9, <1>10

\* An exception reaches the top of its thread.
LEMMA RaisedSteady ==
  ASSUME SteadyInv, Base, NEW x \in Thread, Raised(x)
  PROVE  SteadyInv'
<1>1. /\ pc[x] = "raised" /\ LeaveRaised(x)
      /\ UNCHANGED <<status, capacityWait, submitting, taskStatus, checkpoint, watched, draining>>
  BY DEF Raised, LeaveRaised, controlVars, taskVars
<1>2. x \notin draining  BY <1>1 DEF SteadyInv, Stands
<1>3. GoTo(x, "idle") /\ ReleaseSupervisor(x) /\ call' = [call EXCEPT ![x] = NoCall]
      /\ job' = [job EXCEPT ![x] = None]
  BY <1>1, <1>2 DEF LeaveRaised
<1>4. /\ pc'[x] = "idle" /\ \A y \in Thread \ {x} : pc'[y] = pc[y]
      /\ call'[x] = NoCall /\ \A y \in Thread \ {x} : call'[y] = call[y]
      /\ \A y \in Thread \ {x} : job'[y] = job[y]
      /\ \A y \in Thread \ {x} : completing = y => completing' = y
  BY <1>3 DEF GoTo, ReleaseSupervisor, Base, CallsFit, FlowTypes
<1>5. Lost(x) /\ call'[x].parked = {}  BY <1>1, <1>4 DEF Lost, NoCall
<1>6. ASSUME NEW u \in Task
      PROVE  x \notin Serving(u) /\ x \notin Serving(u)' /\ (Calling(u)' => Calling(u))
  <2>1. x \notin Serving(u)  BY <1>5 DEF Serving
  <2>2. Api(u) \in Thread  BY ApiNames
  <2>3. x = Api(u) => ~Calling(u)'  BY <1>4 DEF Calling, Within, InGraph
  <2>4. x # Api(u) => (Calling(u)' => Calling(u))  BY <1>1, <1>4, <2>2 DEF Calling
  <2>5. x \notin Serving(u)'  BY <1>4, <2>3 DEF Serving, Within, InGraph
  <2>. QED  BY <2>1, <2>3, <2>4, <2>5
<1>7. Stands(x)' /\ Runs(x)'
  BY <1>1, <1>2, <1>4, <1>5 DEF Stands, Runs, Lost, Within, InGraph
<1>. QED  BY <1>1, <1>4, <1>6, <1>7, AsideSteady

\* What an invocation returns: the end of the graph, or interrupts that its
\* checkpoint has.
LEMMA ReturnKnown ==
  ASSUME SteadyInv, Base, DeliveryInv, NEW x \in Thread, pc[x] = "returned",
         NEW t \in Task, t = Serves(x)
  PROVE  /\ ~Lost(x) /\ call[x].parked \subseteq checkpoint[t].parked
         /\ call[x].parked \subseteq ExecutionsOf(t)
         /\ \A f \in call[x].parked : taskStatus[t] # "cancelled" => status[f] = "waiting"
         /\ call[x].stage = "done" =>
              /\ call[x].parked = {} /\ checkpoint[t].parked = {}
              /\ Settled(t, Lead[t])
         /\ call[x].stage # "done" => call[x].parked # {}
         /\ IsApi(x) /\ taskStatus[t] = "waiting" => call[x].parked # {}
<1>1. ~Lost(x)  BY DEF Lost, InGraph
<1>2. /\ call[x].stage = checkpoint[t].stage
      /\ call[x].parked \subseteq Members(t, call[x].stage)
      /\ \A f \in call[x].parked :
           /\ taskStatus[t] # "cancelled" => status[f] = "waiting"
           /\ f \in call[x].fresh \cup checkpoint[t].parked
      /\ IsApi(x) /\ taskStatus[t] = "waiting" => call[x].parked # {}
      /\ call[x].fresh = {} /\ (call[x].stage = "done" \/ call[x].parked # {})
  BY <1>1 DEF SteadyInv, Runs
<1>3. Members(t, call[x].stage) \subseteq ExecutionsOf(t)  BY MembersType
<1>4. call[x].stage = "done" =>
        /\ call[x].parked = {} /\ checkpoint[t].parked = {}
        /\ Settled(t, Lead[t])
  <2>1. Members(t, "done") = {}  BY DEF Members
  <2>2. Graph(t) /\ Reaches(t)  BY DEF DeliveryInv, GraphInv, SteadyInv
  <2>. QED  BY <1>2, <2>1, <2>2 DEF Graph, Reaches
<1>. QED  BY <1>1, <1>2, <1>3, <1>4

LEMMA ReturnedSteady ==
  ASSUME SteadyInv, Base, DeliveryInv, NEW x \in Thread, Returned(x)
  PROVE  SteadyInv'
<1>1. /\ pc[x] = "returned"
      /\ UNCHANGED <<status, capacityWait, submitting, taskStatus, checkpoint>>
  BY DEF Returned, controlVars, taskVars
<1>2. PICK t \in Task : t = Serves(x)  BY <1>1, ServesType DEF Base
<1>. DEFINE i == call[x]
            c == checkpoint[t]
            waits == IF IsApi(x) THEN taskStatus[t] = "waiting" ELSE c.parked # {}
<1>3. /\ ~Lost(x) /\ i.parked \subseteq c.parked
      /\ i.parked \subseteq ExecutionsOf(t)
      /\ \A f \in i.parked : taskStatus[t] # "cancelled" => status[f] = "waiting"
      /\ i.stage = "done" => i.parked = {} /\ c.parked = {} /\ Settled(t, Lead[t])
      /\ i.stage # "done" => i.parked # {}
      /\ IsApi(x) /\ taskStatus[t] = "waiting" => i.parked # {}
  BY <1>1, <1>2, ReturnKnown
<1>4. /\ Serving(t) = {x} /\ x \notin draining /\ pc[x] \in Within
      /\ Calling(t) <=> IsApi(x)
      /\ IsApi(x) => x = Api(t)
      /\ taskStatus[t] \in {"waiting", "cancelled"} \/ (IsApi(x) /\ taskStatus[t] = "running")
  BY <1>1, <1>2, <1>3, GraphServes DEF Within
<1>5. Waits(t) /\ Reaches(t)  BY DEF SteadyInv
<1>6. \A e : Settled(t, e)' <=> Settled(t, e)  BY <1>1 DEF Settled
<1>7. IsApi(x) \/ completing = x  BY <1>4 DEF SteadyInv, Stands
<1>8. CASE waits /\ Watch(x, t) /\ Leave(x)
  <2>. DEFINE turns == {e \in ExecutionsOf(t) : status[e] = "waiting" /\ ~capacityWait[e]}
  <2>1. watched' = watched \cup turns  BY <1>8 DEF Watch
  <2>2. \A u \in Task \ {t} : \A e \in ExecutionsOf(u) : e \in watched' <=> e \in watched
    BY <2>1, Disjoint
  <2>3. /\ OneStep(x, t) /\ Serving(t)' = {} /\ ~Calling(t)' /\ Stands(x)' /\ Runs(x)'
    BY <1>1, <1>2, <1>3, <1>4, <1>8, <2>2, LeaveMoves
  <2>4. \A e \in ExecutionsOf(t) : e \in turns <=> Turn(e)  BY DEF Turn
  <2>5. Waits(t)'
    <3>1. \A e \in ExecutionsOf(t) : Turn(e) => e \in c.parked
      BY <1>3, <1>4, <1>5 DEF Waits
    <3>2. \A e \in ExecutionsOf(t) : (Turn(e)' <=> Turn(e)) /\ (e \in watched' <=> Turn(e))
      BY <1>1, <1>5, <2>1, <2>4 DEF Waits, Turn
    <3>. QED  BY <1>1, <1>5, <3>1, <3>2 DEF Waits
  <2>6. Reaches(t)'
    <3>1. taskStatus[t] = "waiting" => \E e \in ExecutionsOf(t) : status[e] = "waiting"
      BY <1>3, <1>8
    <3>2. taskStatus[t] # "failed"  BY <1>4
    <3>. QED  BY <1>1, <1>5, <1>6, <2>3, <3>1, <3>2 DEF Reaches
  <2>. QED  BY <1>4, <2>3, <2>5, <2>6, OneSteady
<1>9. CASE /\ ~waits /\ i.stage = "done" /\ taskStatus[t] # "cancelled"
           /\ GoTo(x, "finish") /\ UNCHANGED <<call, job, draining, locks, watched>>
  <2>1. status[Lead[t]] = "completed"  BY <1>3, <1>9 DEF Settled
  <2>2. Moves(x, t, "finish")  BY <1>1, <1>9 DEF Moves
  <2>3. /\ OneStep(x, t) /\ pc'[x] = "finish" /\ ~Lost(x)' /\ Serves(x)' = t
        /\ Serving(t)' = {x}
        /\ Calling(t)' <=> IsApi(x)
    BY <1>1, <1>2, <1>3, <1>4, <2>2, NodeMoves DEF Within, InGraph
  <2>4. Waits(t)'  BY <1>1, <1>4, <1>5, <1>9, <2>3 DEF Waits, Turn
  <2>5. Reaches(t)'  BY <1>1, <1>4, <1>5, <1>6, <1>9, <2>3 DEF Reaches
  <2>6. Stands(x)' /\ Runs(x)'
    <3>1. IsApi(x)' <=> IsApi(x)  BY DEF IsApi
    <3>. QED  BY <1>1, <1>4, <1>7, <1>9, <2>1, <2>3, <3>1 DEF Stands, Runs, Within, InGraph, locks
  <2>. QED  BY <1>4, <2>3, <2>4, <2>5, <2>6, OneSteady
<1>10. CASE taskStatus[t] = "cancelled" /\ Leave(x) /\ UNCHANGED watched
  <2>1. /\ OneStep(x, t) /\ Serving(t)' = {} /\ ~Calling(t)' /\ Stands(x)' /\ Runs(x)'
    BY <1>1, <1>2, <1>3, <1>4, <1>10, LeaveMoves
  <2>2. \A e \in ExecutionsOf(t) : status[e] # "waiting" /\ e \notin watched
    BY <1>10, NoneWaits
  <2>3. Waits(t)'  BY <1>1, <1>5, <1>10, <2>2 DEF Waits, Turn
  <2>4. Reaches(t)'  BY <1>1, <1>5, <1>6, <1>10, <2>1 DEF Reaches
  <2>. QED  BY <1>4, <2>1, <2>3, <2>4, OneSteady
<1>11. CASE /\ ~waits /\ i.stage # "done"
            /\ GoTo(x, "raised") /\ UNCHANGED <<call, job, draining, locks, watched>>
  <2>1. taskStatus[t] = "cancelled"
    <3>1. PICK f \in i.parked : f \in c.parked  BY <1>3, <1>11
    <3>2. IsApi(x) /\ taskStatus[t] # "waiting"  BY <1>11, <3>1
    <3>. QED  BY <1>3, <1>5, <3>2, <3>1 DEF Waits
  <2>2. Moves(x, t, "raised")  BY <1>1, <1>11 DEF Moves
  <2>3. /\ OneStep(x, t) /\ pc'[x] = "raised" /\ Lost(x)' /\ Serves(x)' = t
        /\ Serving(t)' = {}
        /\ Calling(t)' <=> IsApi(x)
    BY <1>1, <1>2, <1>3, <1>4, <2>2, RaiseMoves DEF InGraph
  <2>4. \A e \in ExecutionsOf(t) : status[e] # "waiting" /\ e \notin watched
    BY <2>1, NoneWaits
  <2>5. Waits(t)'  BY <1>1, <1>5, <1>11, <2>4 DEF Waits, Turn
  <2>6. Reaches(t)'  BY <1>1, <1>4, <1>5, <1>6, <1>11, <2>1, <2>3, <2>4 DEF Reaches
  <2>7. Stands(x)' /\ Runs(x)'
    <3>1. IsApi(x)' <=> IsApi(x)  BY DEF IsApi
    <3>. QED  BY <1>4, <1>7, <1>11, <2>3, <3>1 DEF Stands, Runs, Within, InGraph, locks
  <2>. QED  BY <1>4, <2>3, <2>5, <2>6, <2>7, OneSteady
<1>. QED  BY <1>2, <1>8, <1>9, <1>10, <1>11 DEF Returned

\* The verdict ends the task.
LEMMA FinishSteady ==
  ASSUME SteadyInv, Base, DeliveryInv, NEW x \in Thread, Finish(x)
  PROVE  SteadyInv'
<1>1. /\ pc[x] = "finish" /\ Leave(x)
      /\ UNCHANGED <<status, capacityWait, submitting, checkpoint, watched>>
  BY DEF Finish, controlVars
<1>2. PICK t \in Task : t = Serves(x)  BY <1>1, ServesType DEF Base
<1>3. /\ taskStatus'[t] \in {"completed", "needs_revision"}
      /\ \A u \in Task \ {t} : taskStatus'[u] = taskStatus[u]
  <2>1. PICK s \in {"completed", "needs_revision"} : SetTask(t, s)
    BY <1>2 DEF Finish
  <2>. QED  BY <2>1, OneTaskSet DEF TaskStatus, Terminal
<1>4. ~Lost(x) /\ status[Lead[t]] = "completed" /\ Delivered(t)
  BY <1>1, <1>2 DEF SteadyInv, Stands, Lost, InGraph, DeliveryInv, GraphInv, Knows
<1>5. \A e \in ExecutionsOf(t) : status[e] = "completed" /\ e \notin watched
  <2>1. \A e \in ExecutionsOf(t) : status[e] = "completed"
    BY <1>4 DEF Delivered, ExecutionsOf
  <2>. QED  BY <2>1, NoneWaits DEF Settled
<1>6. /\ OneStep(x, t) /\ Serving(t) = {x}
      /\ Serving(t)' = {} /\ ~Calling(t)'
      /\ Stands(x)' /\ Runs(x)'
  BY <1>1, <1>2, <1>3, <1>4, LeaveMoves DEF Within
<1>7. Waits(t)'  BY <1>1, <1>5 DEF Waits, Turn
<1>8. Reaches(t)'
  <2>1. Settled(t, Lead[t])'  BY <1>1, <1>4 DEF Settled
  <2>. QED  BY <1>1, <1>3, <1>6, <2>1 DEF SteadyInv, Reaches
<1>. QED  BY <1>6, <1>7, <1>8, OneSteady

\* What is settled of the stage of a checkpoint.
LEMMA DoneSettled ==
  ASSUME SteadyInv, DeliveryInv, NEW t \in Task
  PROVE  \A e \in Members(t, checkpoint[t].stage) \cap checkpoint[t].done : Settled(t, e)
<1>1. Graph(t) /\ Reaches(t)  BY DEF DeliveryInv, GraphInv, SteadyInv
<1>. QED  BY <1>1 DEF Graph, Reaches, Members

\* A resume finds the execution at an interrupt of the latest checkpoint.
LEMMA ResumeSteady ==
  ASSUME SteadyInv, Base, DeliveryInv, NEW x \in Thread, Resume(x)
  PROVE  SteadyInv'
<1>1. /\ pc[x] = "resume"
      /\ UNCHANGED <<status, capacityWait, submitting, taskStatus, checkpoint>>
  BY DEF Resume, controlVars, taskVars
<1>2. ~IsApi(x) /\ job[x] \in Execution
  BY <1>1 DEF Base, CallsFit, Fits
<1>3. PICK t \in Task : t = TaskOf(job[x]) /\ t = Serves(x) /\ job[x] \in ExecutionsOf(t)
  BY <1>2, TaskOfType DEF Serves
<1>. DEFINE c == checkpoint[t]
<1>4. /\ taskStatus[t] \in {"waiting", "cancelled"}
      /\ Settled(t, job[x])
      /\ taskStatus[t] # "cancelled" => job[x] \in c.parked
      /\ x \notin draining /\ completing = x /\ ~Lost(x) /\ call[x].parked = {}
  BY <1>1, <1>2, <1>3 DEF SteadyInv, Stands, Lost, Within, InGraph
<1>5. Serving(t) = {x} /\ ~Calling(t)
  <2>1. Serving(t) = {x}  BY <1>1, <1>3, <1>4, WithinServes, OneServes
  <2>. QED  BY <1>2, <2>1, ApiNames DEF SteadyInv, Reaches
<1>6. Waits(t) /\ Reaches(t) /\ Graph(t)  BY DEF SteadyInv, DeliveryInv, GraphInv
<1>7. \A e : Settled(t, e)' <=> Settled(t, e)  BY <1>1 DEF Settled
<1>8. CASE taskStatus[t] = "cancelled"
  <2>1. Leave(x) /\ UNCHANGED watched  BY <1>3, <1>8 DEF Resume, Terminal
  <2>2. /\ OneStep(x, t) /\ Serving(t)' = {} /\ ~Calling(t)' /\ Stands(x)' /\ Runs(x)'
    BY <1>1, <1>3, <1>4, <2>1, LeaveMoves
  <2>3. \A e \in ExecutionsOf(t) : status[e] # "waiting" /\ e \notin watched
    BY <1>8, NoneWaits
  <2>4. Waits(t)'  BY <1>1, <1>6, <1>8, <2>1, <2>3 DEF Waits, Turn
  <2>5. Reaches(t)'  BY <1>1, <1>6, <1>7, <1>8, <2>2 DEF Reaches
  <2>. QED  BY <1>5, <2>2, <2>4, <2>5, OneSteady
<1>9. CASE taskStatus[t] = "waiting"
  <2>1. job[x] \in c.parked /\ c.stage \notin {"none", "done"}
    BY <1>4, <1>6, <1>9 DEF Graph
  <2>2. /\ Enter(x, t, c, job[x]) /\ GoTo(x, "nodes")
        /\ UNCHANGED <<job, draining, completing, watched>>
    BY <1>3, <1>9, <2>1 DEF Resume, Terminal
  <2>3. /\ pc'[x] = "nodes" /\ \A y \in Thread \ {x} : pc'[y] = pc[y]
        /\ c \in Checkpoint
    BY <2>2 DEF GoTo, Base, CallsFit, FlowTypes
  <2>4. Serves(x)' = t  BY <1>3, <2>2 DEF Serves
  <2>5. \A e \in Members(t, c.stage) \cap c.done : Settled(t, e)'
    BY <1>7, DoneSettled
  <2>6. PICK e \in ExecutionsOf(t) : e = job[x] /\ Settled(t, e)' /\ checkpoint'[t] = c
    BY <1>1, <1>3, <1>4, <1>7
  <2>. HIDE DEF c
  <2>7. /\ Runs(x)' /\ ~Lost(x)' /\ ~call'[x].raised /\ call'[x].parked = {}
        /\ \A y \in Thread \ {x} : call'[y] = call[y]
    BY <1>2, <2>2, <2>3, <2>4, <2>5, <2>6, EnterRuns
  <2>8. OneStep(x, t)
    <3>1. \A u \in Task \ {t} : x # Api(u) /\ x \notin Serving(u) /\ x \notin Serving(u)'
      BY <1>2, <1>3, <1>5, <2>4, ApiNames, ServesOnce DEF Serving, Serves
    <3>. QED  BY <1>1, <1>9, <2>2, <2>3, <2>7, <3>1 DEF OneStep
  <2>9. Serving(t)' = {x} /\ ~Calling(t)'
    <3>1. x \in Serving(t)'
      BY <1>2, <2>3, <2>4, <2>7 DEF Serving, Serves, IsApi, Within, InGraph
    <3>2. Api(t) \in Thread \ {x}  BY <1>2, ApiNames
    <3>3. ~Calling(t)'  BY <1>1, <1>5, <2>3, <3>2 DEF Calling
    <3>. QED  BY <1>5, <2>8, <3>1, <3>3, OthersServe
  <2>10. Waits(t)'
    <3>1. \A f \in ExecutionsOf(t) : Turn(f) => f \in watched
      BY <1>4, <1>5, <1>6 DEF Waits
    <3>. QED  BY <1>1, <1>6, <2>2, <3>1 DEF Waits, Turn
  <2>11. Reaches(t)'
    BY <1>1, <1>6, <1>7, <1>9, <2>2, <2>9 DEF Reaches
  <2>12. Stands(x)'
    BY <1>1, <1>2, <1>4, <1>9, <2>2, <2>3, <2>4, <2>7 DEF Stands, Within, InGraph, IsApi
  <2>. QED  BY <1>5, <2>7, <2>8, <2>10, <2>11, <2>12, OneSteady
<1>. QED  BY <1>4, <1>8, <1>9

\* A drain that finds nothing to pick.
LEMMA DrainSteady ==
  ASSUME SteadyInv, Base, NothingToPick, NEW x \in Thread, Drain(x)
  PROVE  SteadyInv'
<1>1. pc[x] = "drain" /\ (~SlotFree \/ Eligible = {})
      /\ UNCHANGED <<taskVars, graphVars, graphLock, watched>>
  BY DEF Drain, NothingToPick
<1>2. /\ GoTo(x, "idle") /\ draining' = draining \ {x} /\ ReleaseSupervisor(x)
      /\ UNCHANGED <<controlVars, job>>
  <2>1. ~\E e \in Eligible : Pick(e)  BY <1>1 DEF Pick
  <2>. QED  BY <2>1 DEF Drain
<1>3. /\ pc'[x] = "idle" /\ \A y \in Thread \ {x} : pc'[y] = pc[y]
      /\ \A y \in Thread \ {x} : completing = y => completing' = y
  BY <1>2 DEF GoTo, ReleaseSupervisor, Base, CallsFit, FlowTypes
<1>4. ~IsApi(x) /\ ~IsApi(x)' /\ call[x].parked = {}
  BY <1>1, NoneParked DEF Base, CallsFit, Fits, IsApi
<1>5. ASSUME NEW u \in Task
      PROVE  x \notin Serving(u) /\ x \notin Serving(u)' /\ (Calling(u)' => Calling(u))
  <2>1. Api(u) \in Thread \ {x}  BY <1>4, ApiNames
  <2>2. Calling(u)' => Calling(u)  BY <1>1, <1>3, <2>1 DEF Calling, taskVars
  <2>. QED  BY <1>1, <1>3, <1>4, <2>2 DEF Serving, Within, InGraph
<1>6. Stands(x)' /\ Runs(x)'
  BY <1>1, <1>2, <1>3, <1>4 DEF Stands, Runs, Lost, Within, InGraph, graphVars
<1>. QED
  BY <1>1, <1>2, <1>3, <1>5, <1>6, AsideSteady DEF controlVars, taskVars, graphVars

\* The report of a Turn: nobody serves its task, and its worker does from now.
LEMMA TurnSteady ==
  ASSUME SteadyInv, Base, NEW e \in Execution, TurnCompletes(e)
  PROVE  SteadyInv'
<1>1. PICK x \in Thread : x = Worker(e) /\ ~IsApi(x)  BY ApiNames
<1>2. /\ pc[x] = "idle" /\ e \in watched /\ watched' = watched \ {e}
      /\ completing = None /\ completing' = x
      /\ UNCHANGED <<taskStatus, badReview, graphVars, graphLock>>
      /\ \E usage \in Usage \cup {None} : Complete(e, usage)
  BY <1>1 DEF TurnCompletes
<1>3. PICK t \in Task : t = TaskOf(e) /\ e \in ExecutionsOf(t)  BY TaskOfType
<1>4. Waits(t) /\ Reaches(t)  BY DEF SteadyInv
<1>5. Turn(e) /\ taskStatus[t] = "waiting" /\ e \in checkpoint[t].parked
  BY <1>2, <1>3, <1>4 DEF Waits, Turn
<1>6. ~Calling(t)  BY <1>2, <1>3, <1>4 DEF Reaches
<1>7. Serving(t) = {}
  <2>1. SUFFICES ASSUME NEW y \in Serving(t) PROVE FALSE
    OBVIOUS
  <2>2. y \in Thread /\ ~IsApi(y) /\ ~Lost(y) /\ pc[y] \in {"resume"} \cup Within
    BY <1>6, ServesOnce
  <2>3. completing = y  BY <2>2 DEF SteadyInv, Stands
  <2>. QED  BY <1>2, <2>2, <2>3, ThreadAssumption
<1>8. GoTo(x, "resume") /\ job' = [job EXCEPT ![x] = e] /\ UNCHANGED draining
  BY <1>1, <1>3, <1>5 DEF TurnCompletes, Terminal
<1>9. /\ pc'[x] = "resume" /\ \A y \in Thread \ {x} : pc'[y] = pc[y]
      /\ job'[x] = e /\ \A y \in Thread \ {x} : job'[y] = job[y]
  BY <1>8 DEF GoTo, Base, CallsFit, FlowTypes
<1>10. /\ status'[e] = "completed" /\ \A f \in Execution \ {e} : status'[f] = status[f]
       /\ UNCHANGED <<capacityWait, submitting>> /\ LockFree
  BY <1>2 DEF Complete, SetStatus, Base, HoldInv, TypeOK
<1>11. Serves(x)' = t /\ ~IsApi(x)'  BY <1>1, <1>3, <1>9 DEF Serves, IsApi
<1>12. OneStep(x, t)
  <2>1. \A u \in Task \ {t} : x # Api(u) /\ x \notin Serving(u) /\ x \notin Serving(u)'
    BY <1>1, <1>2, <1>11, ApiNames DEF Serving, Serves, Within, InGraph
  <2>2. \A u \in Task \ {t} : \A f \in ExecutionsOf(u) :
          status'[f] = status[f] /\ (f \in watched' <=> f \in watched)
    BY <1>2, <1>3, <1>10, Disjoint
  <2>3. \A y \in Thread \ {x} : completing = y => completing' = y
    BY <1>2, ThreadAssumption
  <2>. QED  BY <1>2, <1>5, <1>8, <1>9, <1>10, <2>1, <2>2, <2>3 DEF OneStep, graphVars
<1>13. ~Lost(x)' /\ call'[x].parked = {} /\ x \notin draining
  <2>1. call[x].parked = {} /\ x \notin draining
    BY <1>2, NoneParked DEF SteadyInv, Stands
  <2>. QED  BY <1>2, <1>9, <2>1 DEF Lost, InGraph, graphVars
<1>14. x \in Serving(t)'
  BY <1>9, <1>11, <1>13 DEF Serving, Serves
<1>15. ~Calling(t)'
  <2>1. Api(t) \in Thread \ {x}  BY <1>1, ApiNames
  <2>. QED  BY <1>2, <1>6, <1>9, <2>1 DEF Calling
<1>16. Lead[t] \in ExecutionsOf(t) /\ ExecutionsOf(t) \subseteq Execution
  BY Roles, MembersType
<1>17. Waits(t)'
  <2>1. ASSUME NEW f \in ExecutionsOf(t)
        PROVE  /\ status'[f] # "failed"
               /\ status'[f] = "waiting" => taskStatus'[t] = "waiting"
               /\ f \in watched' => Turn(f)' /\ f \in checkpoint'[t].parked
               /\ Turn(f)' => f \in watched'
    <3>1. CASE f = e  BY <1>2, <1>10, <3>1 DEF Turn
    <3>2. CASE f # e
      <4>1. status'[f] = status[f] /\ (Turn(f)' <=> Turn(f))
        BY <1>10, <1>16, <3>2 DEF Turn
      <4>. QED  BY <1>2, <1>4, <1>7, <3>2, <4>1 DEF Waits, graphVars
    <3>. QED  BY <3>1, <3>2
  <2>. QED  BY <2>1 DEF Waits
<1>18. Reaches(t)'
  <2>1. status'[Lead[t]] # "absent" => status[Lead[t]] # "absent"
    BY <1>5, <1>10, <1>16 DEF Turn
  <2>2. Settled(t, Lead[t]) => Settled(t, Lead[t])'
    BY <1>2, <1>10, <1>16 DEF Settled
  <2>. QED  BY <1>2, <1>4, <1>5, <1>14, <1>15, <2>1, <2>2 DEF Reaches, graphVars
<1>19. Stands(x)' /\ Runs(x)'
  <2>1. Settled(t, e)'  BY <1>10 DEF Settled
  <2>. QED
    BY <1>2, <1>5, <1>8, <1>9, <1>11, <1>13, <2>1 DEF Stands, Runs, Within, InGraph, graphVars
<1>. QED  BY <1>7, <1>12, <1>17, <1>18, <1>19, OneSteady

\* A Turn that was interrupted, and a user, cancel the task.
LEMMA StopSteady ==
  ASSUME SteadyInv, Base, NEW x \in Thread,
         \/ \E e \in Execution : x = Worker(e) /\ TurnInterrupted(e)
         \/ \E t \in Task : x = Stopper(t) /\ UserCancels(t)
  PROVE  SteadyInv'
<1>1. ASSUME NEW e \in Execution, x = Worker(e), TurnInterrupted(e)
      PROVE  SteadyInv'
  <2>1. PICK t \in Task : t = TaskOf(e) /\ e \in ExecutionsOf(t)  BY TaskOfType
  <2>2. taskStatus[t] = "waiting"
    BY <1>1, <2>1 DEF TurnInterrupted, SteadyInv, Waits, Turn
  <2>3. CancelTask(t)  BY <1>1, <2>1, <2>2 DEF TurnInterrupted, Terminal
  <2>4. /\ pc[x] = "idle" /\ GoTo(x, "drain") /\ draining' = draining \cup {x}
        /\ UNCHANGED <<checkpoint, call, job, completing>> /\ ~IsApi(x)
    BY <1>1, ApiNames DEF TurnInterrupted, graphVars, locks
  <2>. QED  BY <2>3, <2>4, CancelSteady
<1>2. ASSUME NEW t \in Task, x = Stopper(t), UserCancels(t)
      PROVE  SteadyInv'
  <2>1. /\ CancelTask(t) /\ pc[x] = "idle" /\ GoTo(x, "drain") /\ draining' = draining \cup {x}
        /\ UNCHANGED <<checkpoint, call, job, completing>> /\ ~IsApi(x)
    BY <1>2, ApiNames DEF UserCancels, graphVars, locks
  <2>. QED  BY <2>1, CancelSteady
<1>. QED  BY <1>1, <1>2

\* run invokes the graph: nothing waits.
LEMMA InvokeSteady ==
  ASSUME SteadyInv, Base, DeliveryInv, NEW t \in Task, Invoke(t)
  PROVE  SteadyInv'
<1>1. PICK x \in Thread : x = Api(t) /\ IsApi(x) /\ Serves(x) = t  BY ApiNames
<1>. DEFINE first == [stage |-> "specialists", by |-> x, done |-> {}, parked |-> {}]
            loaded == IF checkpoint[t].stage = "none" THEN first ELSE checkpoint[t]
<1>2. /\ pc[x] = "invoke"
      /\ checkpoint' = [checkpoint EXCEPT ![t] = loaded]
      /\ Enter(x, t, loaded, None)
      /\ GoTo(x, IF loaded.stage = "done" THEN "returned" ELSE "nodes")
      /\ UNCHANGED <<status, capacityWait, submitting, taskStatus, job, draining, locks, watched>>
  BY <1>1 DEF Invoke, controlVars, taskVars
<1>3. checkpoint \in [Task -> Checkpoint]  BY DEF Base, CallsFit, FlowTypes
<1>4. /\ loaded \in Checkpoint
      /\ checkpoint[t].stage # "none" => loaded = checkpoint[t]
      /\ checkpoint[t].stage = "none" => loaded.stage = "specialists" /\ loaded.done = {}
  BY <1>3 DEF Checkpoint, Stage
<1>. HIDE DEF loaded
<1>5. checkpoint'[t] = loaded /\ \A u \in Task \ {t} : checkpoint'[u] = checkpoint[u]
  BY <1>2, <1>3
<1>6. PICK place \in {"returned", "nodes"} :
        GoTo(x, place) /\ (place = "returned" => loaded.stage = "done")
  BY <1>2
<1>7. /\ taskStatus[t] \in {"running", "cancelled"} /\ x \notin draining /\ ~Lost(x)
      /\ Calling(t)
  BY <1>1, <1>2 DEF SteadyInv, Stands, Lost, InGraph, Calling
<1>8. Serving(t) \subseteq {x} /\ Waits(t) /\ Reaches(t)
  BY <1>1, <1>7 DEF SteadyInv, Reaches
<1>9. \A e \in ExecutionsOf(t) : status[e] # "waiting" /\ e \notin watched
  BY <1>7, NoneWaits
<1>10. \A e : Settled(t, e)' <=> Settled(t, e)  BY <1>2 DEF Settled
<1>11. \A e \in Members(t, loaded.stage) \cap loaded.done : Settled(t, e)'
  BY <1>4, <1>10, DoneSettled
<1>12. pc'[x] = place /\ Serves(x)' = t /\ IsApi(x)'
  BY <1>1, <1>6 DEF GoTo, Base, CallsFit, FlowTypes, Serves, IsApi
<1>13. /\ Runs(x)' /\ ~Lost(x)' /\ ~call'[x].raised /\ call'[x].parked = {}
       /\ \A y \in Thread \ {x} : call'[y] = call[y]
  <2>1. taskStatus'[t] # "waiting"  BY <1>2, <1>7
  <2>. QED  BY <1>2, <1>4, <1>5, <1>6, <1>11, <1>12, <2>1, EnterRuns
<1>14. OneStep(x, t)
  BY <1>1, <1>2, <1>5, <1>6, <1>13, ApiStep1
<1>15. Calling(t)' /\ Serving(t)' = {x}
  <2>1. Calling(t)'  BY <1>1, <1>6, <1>12 DEF Calling, Within, InGraph
  <2>2. x \in Serving(t)'  BY <1>1, <1>12, <1>13, <2>1 DEF Serving
  <2>. QED  BY <1>8, <1>14, <2>1, <2>2, OthersServe
<1>16. Waits(t)'  BY <1>2, <1>8, <1>9 DEF Waits, Turn
<1>17. Reaches(t)'
  <2>1. loaded.stage = "none" => loaded.done = {}  BY <1>4, <1>8 DEF Reaches
  <2>2. status[Lead[t]] # "absent" => loaded.stage \in {"lead", "done"}
    BY <1>4, <1>8 DEF Reaches
  <2>3. loaded.stage = "done" \/ Lead[t] \in loaded.done => Settled(t, Lead[t])'
    BY <1>4, <1>8, <1>10 DEF Reaches
  <2>4. /\ taskStatus'[t] \notin {"waiting", "failed"}
        /\ watched' \cap ExecutionsOf(t) = {}
    BY <1>2, <1>7, <1>9
  <2>. QED  BY <1>1, <1>2, <1>5, <1>15, <2>1, <2>2, <2>3, <2>4 DEF Reaches
<1>18. Stands(x)'
  BY <1>2, <1>6, <1>7, <1>12, <1>13 DEF Stands, Within, InGraph
<1>. QED  BY <1>8, <1>13, <1>14, <1>16, <1>17, <1>18, OneSteady

-----------------------------------------------------------------------------
(* Every step.                                                             *)

LEMMA SteadyStep ==
  ASSUME SteadyInv, Base, DeliveryInv, Calm, NothingToPick, [FlowNext]_vars
  PROVE  SteadyInv'
<1>1. ASSUME NEW t \in Task, Submit(t) \/ RetryTask(t) \/ UserCancels(t) \/ ApiStep(t)
      PROVE  SteadyInv'
  <2>1. CASE Submit(t)  BY <2>1, SubmitSteady
  <2>2. CASE RetryTask(t)  BY <2>2, RetrySteady
  <2>3. CASE UserCancels(t)  BY <2>3, StopSteady, ApiNames
  <2>4. CASE LoadTask(t)  BY <2>4, LoadSteady
  <2>5. CASE PrepareAssignments(t)  BY <2>5, PrepareSteady
  <2>6. CASE Invoke(t)  BY <2>6, InvokeSteady
  <2>. QED  BY <1>1, <2>1, <2>2, <2>3, <2>4, <2>5, <2>6 DEF ApiStep
<1>2. ASSUME NEW x \in Thread, ThreadStep(x)
      PROVE  SteadyInv'
  <2>1. ASSUME NEW e \in Execution, NodeStep(x, e)
        PROVE  SteadyInv'
    <3>1. CASE NodeReturns(x, e) \/ NodeParks(x, e)  BY <3>1, FoundSteady
    <3>2. CASE NodeDefers(x, e) \/ NodeRejected(x, e) \/ NodeAdmitted(x, e)
      BY <3>2, AdmissionSteady
    <3>3. CASE WriteOutcome(x, e)  BY <3>3, WriteSteady
    <3>. QED  BY <2>1, <3>1, <3>2, <3>3 DEF NodeStep
  <2>2. CASE CreateReview(x)  BY <2>2, CreateSteady
  <2>3. CASE SubmissionWaits(x) \/ SubmissionCompletes(x) \/ SubmissionFails(x)
    BY <2>3, OutcomeSteady
  <2>4. CASE Review(x)  BY <2>4, ReviewSteady
  <2>5. CASE EndSuperstep(x)  BY <2>5, SuperstepSteady
  <2>6. CASE Raised(x)  BY <2>6, RaisedSteady
  <2>7. CASE Returned(x)  BY <2>7, ReturnedSteady
  <2>8. CASE Finish(x)  BY <2>8, FinishSteady
  <2>9. CASE Resume(x)  BY <2>9, ResumeSteady
  <2>10. CASE Drain(x)  BY <2>10, DrainSteady
  <2>. QED  BY <1>2, <2>1, <2>2, <2>3, <2>4, <2>5, <2>6, <2>7, <2>8, <2>9, <2>10 DEF ThreadStep
<1>3. ASSUME NEW e \in Execution, ReportStep(e)
      PROVE  SteadyInv'
  <2>1. CASE TurnCompletes(e)  BY <2>1, TurnSteady
  <2>2. CASE TurnInterrupted(e)  BY <2>2, StopSteady, ApiNames
  <2>3. ~TurnFails(e)  BY DEF TurnFails, Calm
  <2>. QED  BY <1>3, <2>1, <2>2, <2>3 DEF ReportStep
<1>4. CASE UNCHANGED vars
  <2>1. /\ UNCHANGED <<status, capacityWait, submitting, taskStatus, checkpoint, call>>
        /\ UNCHANGED <<pc, job, draining, completing, watched>>
    BY <1>4 DEF vars, controlVars, flowVars, taskVars, graphVars, threadVars, locks
  <2>2. /\ \A x : Lost(x)' <=> Lost(x)
        /\ \A x : Serves(x)' = Serves(x)
        /\ \A t : Calling(t)' <=> Calling(t)
        /\ \A t, e : Settled(t, e)' <=> Settled(t, e)
        /\ \A e : Turn(e)' <=> Turn(e)
    BY <2>1 DEF Lost, Serves, Calling, Settled, Turn
  <2>3. \A t : Serving(t)' = Serving(t)  BY <2>1, <2>2 DEF Serving
  <2>4. \A t \in Task : Waits(t)'  BY <2>1, <2>2, <2>3 DEF SteadyInv, Waits
  <2>5. \A t \in Task : Reaches(t)'  BY <2>1, <2>2, <2>3 DEF SteadyInv, Reaches
  <2>6. \A x \in Thread : Stands(x)'  BY <2>1, <2>2 DEF SteadyInv, Stands
  <2>7. \A x \in Thread : Runs(x)'  BY <2>1, <2>2 DEF SteadyInv, Runs
  <2>. QED  BY <2>4, <2>5, <2>6, <2>7 DEF SteadyInv
<1>. QED  BY <1>1, <1>2, <1>3, <1>4 DEF FlowNext

LEMMA SteadyInit == FlowInit => SteadyInv
<1>. SUFFICES ASSUME FlowInit PROVE SteadyInv
  OBVIOUS
<1>1. /\ \A x \in Thread : pc[x] = "idle" /\ call[x] = NoCall
      /\ draining = {} /\ watched = {}
      /\ \A e \in Execution : status[e] = "absent"
      /\ \A t \in Task : taskStatus[t] = "created" /\ checkpoint[t].stage = "none"
                         /\ checkpoint[t].done = {}
  BY DEF FlowInit, ControlInit
<1>2. \A x \in Thread : ~Lost(x)  BY <1>1 DEF Lost, InGraph
<1>3. \A t \in Task : ~Calling(t)  BY <1>1, ApiNames DEF Calling, Within, InGraph
<1>4. ASSUME NEW t \in Task
      PROVE  Waits(t) /\ Reaches(t)
  <2>1. ExecutionsOf(t) \subseteq Execution /\ Lead[t] \in Execution  BY MembersType, Roles
  <2>. QED  BY <1>1, <1>3, <2>1 DEF Waits, Reaches, Turn
<1>5. \A x \in Thread : Stands(x) /\ Runs(x)
  BY <1>1, <1>2 DEF Stands, Runs, Within, InGraph, NoCall
<1>. QED  BY <1>4, <1>5 DEF SteadyInv

-----------------------------------------------------------------------------
(* The queue.                                                              *)

\* Tasks have nobody to wait for: a slot for every execution.
Roomy == Cardinality(Execution) <= MaxConcurrent

\* With a slot for everyone, nobody queues.
LEMMA RoomyStep ==
  ASSUME Roomy, Base, DeferredSet = {}, [FlowNext]_vars
  PROVE  DeferredSet' = {}
<1>1. TypeOK /\ SubmittingRuns  BY DEF Base, HoldInv
<1>2. ASSUME NEW e \in Execution, Defer(e) PROVE FALSE
  <2>1. IsFiniteSet(Execution) /\ IsFiniteSet(Execution \ {e})
    BY ConstantsAssumption, FS_Subset DEF ConstantsAssumption
  <2>2. Cardinality(Execution \ {e}) = Cardinality(Execution) - 1
    BY <2>1, FS_RemoveElement
  <2>3. ActiveSet \ {e} \subseteq Execution \ {e}  BY DEF ActiveSet
  <2>4. Cardinality(ActiveSet \ {e}) <= Cardinality(Execution \ {e})
    BY <2>1, <2>3, FS_Subset
  <2>5. /\ Cardinality(Execution) \in Nat /\ MaxConcurrent \in Nat
        /\ Cardinality(ActiveSet \ {e}) \in Nat
    BY <2>1, <2>3, ConstantsAssumption, FS_CardinalityType, FS_Subset DEF ConstantsAssumption
  <2>. QED  BY <1>2, <2>2, <2>4, <2>5 DEF Defer, SlotFreeFor, Roomy
<1>3. ASSUME NEW f \in Execution, status'[f] = "waiting", capacityWait'[f]
      PROVE  status[f] = "waiting" /\ capacityWait[f]
  <2>1. StepKind  BY KindOfStep
  <2>2. CASE Plain
    <3>1. CASE UNCHANGED controlVars  BY <1>3, <3>1 DEF controlVars
    <3>2. CASE SubmissionLost  BY <1>3, <3>2 DEF SubmissionLost
    <3>3. CASE \E S \in SUBSET Execution : Cancel(S)  BY <1>3, <3>3 DEF Cancel
    <3>4. ASSUME NEW e \in Execution, SubmitWaiting(e)
          PROVE  status[f] = "waiting" /\ capacityWait[f]
      BY <1>1, <1>3, <3>4, ConstantsAssumption
         DEF SubmitWaiting, SetStatus, TypeOK, SubmittingRuns, ConstantsAssumption
    <3>5. ASSUME NEW e \in Execution,
                 \/ Admit(e) \/ Reject(e) \/ Pick(e) \/ SubmitFailed(e) \/ Fail(e)
                 \/ \E usage \in Usage \cup {None} : SubmitCompleted(e, usage) \/ Complete(e, usage)
          PROVE  status[f] = "waiting" /\ capacityWait[f]
      BY <1>1, <1>3, <3>5
         DEF Admit, Reject, Pick, SubmitFailed, Fail, SubmitCompleted, Complete, SetStatus, TypeOK
    <3>. QED  BY <1>2, <2>2, <3>1, <3>2, <3>3, <3>4, <3>5 DEF Plain
  <2>3. CASE \E S \in SUBSET Execution : Create(S)  BY <1>3, <2>3 DEF Create
  <2>4. CASE \E t \in Task : RetryTask(t)  BY <1>3, <2>4 DEF RetryTask, Retry
  <2>. QED  BY <2>1, <2>2, <2>3, <2>4 DEF StepKind
<1>. QED  BY <1>3 DEF DeferredSet

\* One task, that no user cancels: its own work only fills the slots.
Alone == Cancellable = {} /\ \A t, u \in Task : t = u

Full == Cardinality(ActiveSet \ {submitting}) >= MaxConcurrent

\* A thread is about to run the node of f.
Attended(f) == \E x \in Serving(TaskOf(f)) : pc[x] = "resume" \/ f \in call[x].todo

\* Whoever queues is behind a Turn, or about to be asked again; and a drain of
\* an open task is that of its last resume.
QueueInv ==
  /\ \A f \in DeferredSet : Full \/ Attended(f)
  /\ \A t \in Task :
       /\ taskStatus[t] = "cancelled" => checkpoint[t].stage # "none"
       /\ \A z \in Thread : pc[z] = "drain" =>
            \/ taskStatus[t] \in {"cancelled", "completed", "needs_revision"}
            \/ taskStatus[t] = "waiting" /\ completing = z /\ ~Calling(t)

\* Without a call and a completion nobody serves the task.
LEMMA NobodyServes ==
  ASSUME SteadyInv, NEW t \in Task, ~Calling(t), NEW z, completing = z,
         z \in Thread => pc[z] \notin {"resume"} \cup Within
  PROVE  Serving(t) = {}
<1>. SUFFICES ASSUME NEW y \in Serving(t) PROVE FALSE
  OBVIOUS
<1>1. y \in Thread /\ ~IsApi(y) /\ ~Lost(y) /\ pc[y] \in {"resume"} \cup Within
  BY ServesOnce
<1>2. completing = y  BY <1>1 DEF SteadyInv, Stands
<1>. QED  BY <1>1, <1>2

\* A queue that is behind Turns stays there until one of them ends.
LEMMA FullSlots ==
  ASSUME Base, Full, submitting = None
  PROVE  ~SlotFree
<1>1. ActiveSet \ {submitting} = ActiveSet
  BY ConstantsAssumption DEF ActiveSet, ConstantsAssumption
<1>. QED  BY <1>1, ActiveFinite, ConstantsAssumption DEF Full, SlotFree, ConstantsAssumption

LEMMA QueueNothing ==
  ASSUME Alone, SteadyInv, Base, QueueInv
  PROVE  NothingToPick
<1>. SUFFICES ASSUME LockFree, NEW z \in Thread, pc[z] = "drain", NEW f \in Eligible
              PROVE  ~SlotFree
  BY DEF NothingToPick
<1>1. PICK t \in Task : t = TaskOf(f) /\ taskStatus[t] = "waiting" /\ f \in DeferredSet
  BY TaskOfType DEF Eligible, DeferredSet
<1>2. completing = z /\ ~Calling(t)  BY <1>1 DEF QueueInv
<1>3. Serving(t) = {}  BY <1>2, NobodyServes DEF Within, InGraph
<1>4. Full  BY <1>1, <1>3 DEF QueueInv, Attended
<1>. QED  BY <1>4, FullSlots DEF LockFree

\* The transactions that free no slot: they keep a full house, and whoever
\* they queue finds one.
LEMMA SlotsKept ==
  ASSUME Base, \A e \in Execution : status[e] = "running" => submitting = e,
         \/ UNCHANGED controlVars
         \/ \E S \in SUBSET Execution : Create(S) \/ Retry(S)
         \/ \E e \in Execution :
               \/ Admit(e) \/ Defer(e) \/ Reject(e) \/ Pick(e) \/ SubmitWaiting(e)
               \/ \E usage \in Usage \cup {None} : SubmitCompleted(e, usage)
  PROVE  /\ Full => Full'
         /\ \A f \in DeferredSet' : f \in DeferredSet \/ Full'
<1>1. TypeOK /\ SubmittingRuns  BY DEF Base, HoldInv
<1>. DEFINE H == ActiveSet \ {submitting}
<1>2. ASSUME H \subseteq H', Full
      PROVE  Full'
  <2>1. IsFiniteSet(H') /\ Cardinality(H) \in Nat /\ Cardinality(H') \in Nat
    BY ActiveFinite, FS_Subset, FS_CardinalityType
  <2>2. Cardinality(H) <= Cardinality(H')  BY <1>2, <2>1, FS_Subset
  <2>. QED  BY <1>2, <2>1, <2>2, ConstantsAssumption DEF Full, ConstantsAssumption
<1>3. \A e \in Execution : Runnable(e) /\ LockFree => e \notin ActiveSet
  BY ConstantsAssumption DEF Runnable, LockFree, ActiveSet, Active, DeferredSet, ConstantsAssumption
<1>4. CASE \/ UNCHANGED controlVars
           \/ \E S \in SUBSET Execution : Create(S) \/ Retry(S)
  <2>1. ActiveSet' = ActiveSet  BY <1>1, <1>4, OthersKeep
  <2>2. submitting' = submitting  BY <1>4 DEF controlVars, Create, Retry
  <2>3. DeferredSet' \subseteq DeferredSet
    BY <1>4 DEF controlVars, Create, Retry, DeferredSet
  <2>. QED  BY <1>2, <2>1, <2>2, <2>3
<1>5. ASSUME NEW e \in Execution, Admit(e)
      PROVE  (Full => Full') /\ DeferredSet' \subseteq DeferredSet
  <2>1. ActiveSet' = ActiveSet \cup {e} /\ submitting' = e /\ e \notin ActiveSet
    BY <1>1, <1>3, <1>5, AdmitJoins DEF Admit
  <2>2. DeferredSet' \subseteq DeferredSet
    BY <1>1, <1>5 DEF Admit, SetStatus, DeferredSet, TypeOK
  <2>. QED  BY <1>2, <2>1, <2>2
<1>6. ASSUME NEW e \in Execution, Defer(e)
      PROVE  (Full => Full') /\ \A f \in DeferredSet' : f \in DeferredSet \/ Full'
  <2>1. /\ ActiveSet' = ActiveSet \ {e} /\ submitting' = None /\ submitting = None
        /\ e \notin ActiveSet
    BY <1>1, <1>3, <1>6, OutcomeLeaves DEF Defer, LockFree
  <2>2. None \notin ActiveSet  BY ConstantsAssumption DEF ActiveSet, ConstantsAssumption
  <2>3. H' = ActiveSet \ {e}  BY <2>1, <2>2
  <2>4. Cardinality(ActiveSet \ {e}) \in Nat
    BY ActiveFinite, FS_Subset, FS_CardinalityType
  <2>5. Full'
    <3>1. ~(Cardinality(ActiveSet \ {e}) < MaxConcurrent)  BY <1>6 DEF Defer, SlotFreeFor
    <3>2. Full' <=> Cardinality(ActiveSet \ {e}) >= MaxConcurrent  BY <2>3 DEF Full
    <3>. QED  BY <2>4, <3>1, <3>2, ConstantsAssumption DEF ConstantsAssumption
  <2>. QED  BY <2>5
<1>7. ASSUME NEW e \in Execution, Reject(e)
      PROVE  (Full => Full') /\ DeferredSet' \subseteq DeferredSet
  <2>1. ActiveSet' = ActiveSet /\ submitting' = submitting
    BY <1>1, <1>3, <1>7, OutcomeLeaves DEF Reject
  <2>2. DeferredSet' \subseteq DeferredSet
    BY <1>1, <1>7 DEF Reject, SetStatus, DeferredSet, TypeOK
  <2>. QED  BY <1>2, <2>1, <2>2
<1>8. ASSUME NEW e \in Execution, Pick(e)
      PROVE  (Full => Full') /\ DeferredSet' \subseteq DeferredSet
  <2>1. ActiveSet' = ActiveSet /\ submitting' = submitting
    BY <1>1, <1>8, OthersKeep DEF Pick
  <2>2. DeferredSet' \subseteq DeferredSet
    BY <1>1, <1>8 DEF Pick, SetStatus, DeferredSet, TypeOK
  <2>. QED  BY <1>2, <2>1, <2>2
<1>9. ASSUME NEW e \in Execution, SubmitWaiting(e)
      PROVE  (Full => Full') /\ DeferredSet' \subseteq DeferredSet
  <2>1. ActiveSet' = ActiveSet /\ submitting' = None
    BY <1>1, <1>9, OthersKeep DEF SubmitWaiting
  <2>2. None \notin ActiveSet  BY ConstantsAssumption DEF ActiveSet, ConstantsAssumption
  <2>3. DeferredSet' \subseteq DeferredSet
    BY <1>1, <1>9, ConstantsAssumption
       DEF SubmitWaiting, SetStatus, DeferredSet, TypeOK, SubmittingRuns, ConstantsAssumption
  <2>. QED  BY <1>2, <2>1, <2>2, <2>3
<1>10. ASSUME NEW e \in Execution, NEW usage \in Usage \cup {None}, SubmitCompleted(e, usage)
       PROVE  (Full => Full') /\ DeferredSet' \subseteq DeferredSet
  <2>1. ActiveSet' = ActiveSet \ {e} /\ submitting' = None /\ submitting = e
    BY <1>1, <1>10, OutcomeLeaves DEF SubmitCompleted
  <2>2. None \notin ActiveSet  BY ConstantsAssumption DEF ActiveSet, ConstantsAssumption
  <2>3. DeferredSet' \subseteq DeferredSet
    BY <1>1, <1>10 DEF SubmitCompleted, SetStatus, DeferredSet, TypeOK
  <2>. QED  BY <1>2, <2>1, <2>2, <2>3
<1>. HIDE DEF H
<1>. QED  BY <1>4, <1>5, <1>6, <1>7, <1>8, <1>9, <1>10

\* A thread in the graph, or before a resume, serves on while it stands still.
LEMMA AttendedKept ==
  ASSUME Base, NEW f \in Execution, Attended(f), NEW x \in Thread,
         \A y \in Thread \ {x} : pc'[y] = pc[y] /\ call'[y] = call[y] /\ job'[y] = job[y]
  PROVE  \/ Attended(f)'
         \/ /\ x \in Serving(TaskOf(f)) /\ pc[x] \in {"resume"} \cup InGraph
            /\ pc[x] = "resume" \/ f \in call[x].todo
<1>1. PICK z \in Serving(TaskOf(f)) : pc[z] = "resume" \/ f \in call[z].todo
  BY DEF Attended
<1>2. z \in Thread /\ TaskOf(f) \in Task  BY TaskOfType DEF Serving
<1>3. pc[z] \in {"resume"} \cup InGraph
  BY <1>1, <1>2 DEF Base, CallsFit, Fits
<1>4. CASE z = x  BY <1>1, <1>3, <1>4
<1>5. CASE z # x
  <2>1. pc'[z] = pc[z] /\ call'[z] = call[z] /\ job'[z] = job[z]  BY <1>2, <1>5
  <2>2. ~Lost(z)'  BY <1>1, <2>1 DEF Serving, Lost
  <2>3. z \in Serving(TaskOf(f))'
    <3>1. CASE IsApi(z)
      <4>1. z = Api(TaskOf(f)) /\ pc[z] # "resume"
        BY <1>1, <1>2, <3>1, ServesOnce DEF Base, CallsFit, Fits
      <4>2. pc'[Api(TaskOf(f))] \in InGraph  BY <1>3, <2>1, <4>1
      <4>3. Calling(TaskOf(f))'  BY <4>2 DEF Calling, Within
      <4>. QED  BY <1>2, <2>2, <3>1, <4>1, <4>3 DEF Serving, IsApi
    <3>2. CASE ~IsApi(z)
      <4>1. TaskOf(job[z]) = TaskOf(f) /\ job'[z] = job[z]
        BY <1>1, <2>1, <3>2 DEF Serving
      <4>2. TaskOf(job[z])' = TaskOf(f)'  BY <4>1 DEF TaskOf
      <4>3. pc'[z] \in {"resume"} \cup Within  BY <1>3, <2>1 DEF Within
      <4>. QED  BY <1>2, <2>2, <3>2, <4>2, <4>3 DEF Serving, IsApi
    <3>. QED  BY <3>1, <3>2
  <2>. QED  BY <1>1, <2>1, <2>3 DEF Attended, TaskOf
<1>. QED  BY <1>4, <1>5

\* A step of x concerns no other thread.
LEMMA ThreadFrame ==
  ASSUME Base, NEW x \in Thread, ThreadStep(x)
  PROVE  \A y \in Thread \ {x} : pc'[y] = pc[y] /\ call'[y] = call[y] /\ job'[y] = job[y]
<1>1. /\ pc \in [Thread -> Place] /\ call \in [Thread -> Call]
      /\ job \in [Thread -> Execution \cup {None}]
  BY DEF Base, CallsFit, FlowTypes
<1>. SUFFICES ASSUME NEW y \in Thread \ {x}
              PROVE  pc'[y] = pc[y] /\ call'[y] = call[y] /\ job'[y] = job[y]
  OBVIOUS
<1>2. ASSUME NEW place, GoTo(x, place) PROVE pc'[y] = pc[y]
  BY <1>1, <1>2 DEF GoTo
<1>3. ASSUME NEW e, NodeDone(x, e) \/ NodeRaises(x, e) \/ NodeInterrupts(x, e)
      PROVE  call'[y] = call[y]
  BY <1>1, <1>3 DEF NodeDone, NodeRaises, NodeInterrupts
<1>4. ASSUME Leave(x) \/ LeaveRaised(x)
      PROVE  pc'[y] = pc[y] /\ call'[y] = call[y] /\ job'[y] = job[y]
  BY <1>1, <1>4 DEF Leave, LeaveRaised, GoTo
<1>5. ASSUME NEW t, NEW c, NEW given, Enter(x, t, c, given)
      PROVE  call'[y] = call[y]
  BY <1>1, <1>5 DEF Enter
<1>6. ASSUME NEW e \in Execution, NodeStep(x, e)
      PROVE  pc'[y] = pc[y] /\ call'[y] = call[y] /\ job'[y] = job[y]
  <2>1. CASE NodeReturns(x, e) \/ NodeParks(x, e) \/ NodeDefers(x, e) \/ NodeRejected(x, e)
                \/ NodeAdmitted(x, e)
    BY <1>2, <1>3, <2>1 DEF NodeReturns, NodeParks, NodeDefers, NodeRejected, NodeAdmitted, NodeFrame
  <2>2. CASE WriteOutcome(x, e)  BY <1>1, <2>2 DEF WriteOutcome, threadVars
  <2>. QED  BY <1>6, <2>1, <2>2 DEF NodeStep
<1>7. CASE CreateReview(x)  BY <1>7 DEF CreateReview, NodeFrame
<1>8. CASE SubmissionWaits(x) \/ SubmissionCompletes(x) \/ SubmissionFails(x) \/ Review(x)
  BY <1>2, <1>3, <1>8 DEF SubmissionWaits, SubmissionCompletes, SubmissionFails, Review, NodeFrame
<1>9. CASE EndSuperstep(x)  BY <1>2, <1>5, <1>9 DEF EndSuperstep, graphVars
<1>10. CASE Raised(x) \/ Finish(x)  BY <1>4, <1>10 DEF Raised, Finish
<1>11. CASE Returned(x)  BY <1>2, <1>4, <1>11 DEF Returned
<1>12. CASE Resume(x)  BY <1>2, <1>4, <1>5, <1>12 DEF Resume
<1>13. CASE Drain(x)  BY <1>1, <1>2, <1>13 DEF Drain, graphVars
<1>. QED
  BY <1>6, <1>7, <1>8, <1>9, <1>10, <1>11, <1>12, <1>13 DEF ThreadStep

\* The thread whose turn it is to ask for f goes on to ask.
LEMMA StillAttended ==
  ASSUME SteadyInv', NEW f \in Execution, NEW x \in Serving(TaskOf(f)),
         pc[x] \in {"resume"} \cup InGraph, job'[x] = job[x],
         pc'[x] \in InGraph, f \in call'[x].todo
  PROVE  Attended(f)'
<1>1. x \in Thread /\ (IsApi(x) => x = Api(TaskOf(f)))  BY DEF Serving
<1>2. ~Lost(x)'  BY <1>1 DEF SteadyInv, Stands
<1>3. x \in Serving(TaskOf(f))'
  <2>1. CASE IsApi(x)
    BY <1>1, <1>2, <2>1 DEF Serving, IsApi, Calling, TaskOf, Within, Api
  <2>2. CASE ~IsApi(x)
    <3>1. TaskOf(job[x]) = TaskOf(f)  BY <2>2 DEF Serving
    <3>2. TaskOf(job[x])' = TaskOf(f)'  BY <3>1 DEF TaskOf
    <3>. QED  BY <1>1, <1>2, <2>2, <3>2 DEF Serving, IsApi, Within, TaskOf
  <2>. QED  BY <2>1, <2>2
<1>. QED  BY <1>3 DEF Attended, TaskOf

\* Where the graph stands, whoever waits is still to be run.
LEMMA WaitsToRun ==
  ASSUME SteadyInv, DeliveryInv, NEW t \in Task, NEW f \in ExecutionsOf(t),
         status[f] = "waiting", checkpoint[t].parked # {}, checkpoint[t].stage \in Stage
  PROVE  f \in Members(t, checkpoint[t].stage) \ checkpoint[t].done
<1>1. Waits(t) /\ Reaches(t) /\ Graph(t)  BY DEF SteadyInv, DeliveryInv, GraphInv
<1>2. ~Settled(t, f)  BY <1>1 DEF Waits, Settled
<1>3. f \in Members(t, checkpoint[t].stage)
  <2>1. checkpoint[t].stage \in {"specialists", "lead"}  BY <1>1 DEF Graph, Stage
  <2>2. CASE checkpoint[t].stage = "lead"
    <3>1. f \notin SpecialistSet(t)  BY <1>1, <1>2, <2>2 DEF Graph, Past
    <3>. QED  BY <2>2, <3>1 DEF Members, ExecutionsOf
  <2>3. CASE checkpoint[t].stage = "specialists"
    <3>1. f # Lead[t]  BY <1>1, <2>3 DEF Reaches
    <3>. QED  BY <2>3, <3>1 DEF Members, ExecutionsOf
  <2>. QED  BY <2>1, <2>2, <2>3
<1>. QED  BY <1>2, <1>3, DoneSettled

LEMMA AskedKept ==
  ASSUME SteadyInv, SteadyInv', Base, DeliveryInv, Calm, NEW f \in Execution,
         f \in DeferredSet, f \in DeferredSet',
         NEW x \in Serving(TaskOf(f)), pc[x] \in {"resume"} \cup InGraph,
         pc[x] = "resume" \/ f \in call[x].todo,
         \A e \in Execution : status[e] = "running" => submitting = e,
         ThreadStep(x)
  PROVE  Full' \/ Attended(f)'
<1>1. PICK t \in Task : t = TaskOf(f) /\ f \in ExecutionsOf(t) /\ t = Serves(x)
  BY TaskOfType, ServesOnce
<1>2. /\ status[f] = "waiting" /\ capacityWait[f] /\ taskStatus[t] = "waiting"
      /\ x \in Thread /\ ~Lost(x)
      /\ status'[f] = "waiting" /\ capacityWait'[f]
  BY <1>1, ServesOnce DEF DeferredSet, SteadyInv, Waits
<1>3. /\ call \in [Thread -> Call] /\ pc \in [Thread -> Place]
      /\ job \in [Thread -> Execution \cup {None}]
      /\ checkpoint \in [Task -> Checkpoint]
  BY DEF Base, CallsFit, FlowTypes
<1>4. ASSUME job' = job, NEW place \in InGraph, GoTo(x, place), f \in call'[x].todo
      PROVE  Attended(f)'
  BY <1>2, <1>3, <1>4, StillAttended DEF GoTo
<1>5. ASSUME pc[x] \in InGraph, NEW e, NodeDone(x, e) \/ NodeRaises(x, e) \/ NodeInterrupts(x, e),
             e # f
      PROVE  f \in call'[x].todo
  <2>1. f \in call[x].todo  BY <1>5 DEF InGraph
  <2>2. call'[x].todo = call[x].todo \ {e}
    BY <1>2, <1>3, <1>5 DEF NodeDone, NodeRaises, NodeInterrupts, Call
  <2>. QED  BY <1>5, <2>1, <2>2
<1>6. ASSUME NEW e \in Execution, NodeStep(x, e)
      PROVE  Full' \/ Attended(f)'
  <2>1. pc[x] \in InGraph /\ f \in call[x].todo
    BY <1>6 DEF NodeStep, NodeReturns, NodeParks, NodeDefers, NodeRejected, NodeAdmitted,
                WriteOutcome, RunsNode, InGraph
  <2>2. CASE NodeReturns(x, e)
    <3>1. e # f  BY <1>1, <1>2, <2>2 DEF NodeReturns
    <3>2. job' = job /\ \E place \in InGraph : GoTo(x, place)
      BY <1>3, <2>2 DEF NodeReturns, RunsNode, NodeFrame, GoTo, InGraph
    <3>3. f \in call'[x].todo  BY <1>5, <2>1, <2>2, <3>1 DEF NodeReturns
    <3>. QED  BY <1>4, <3>2, <3>3
  <2>3. CASE NodeParks(x, e)
    <3>1. e # f  BY <1>1, <1>2, <2>3 DEF NodeParks
    <3>2. job' = job /\ GoTo(x, "nodes") /\ NodeInterrupts(x, e)
      BY <1>3, <2>3 DEF NodeParks, RunsNode, NodeFrame, GoTo
    <3>. QED  BY <1>4, <1>5, <2>1, <3>1, <3>2 DEF InGraph
  <2>4. CASE NodeDefers(x, e)
    <3>1. job' = job /\ GoTo(x, "nodes") /\ NodeInterrupts(x, e) /\ Defer(e)
      BY <1>3, <2>4 DEF NodeDefers, RunsNode, NodeFrame, GoTo
    <3>2. CASE e # f  BY <1>4, <1>5, <2>1, <3>1, <3>2 DEF InGraph
    <3>3. CASE e = f
      <4>1. TypeOK  BY DEF Base, HoldInv
      <4>2. ActiveSet' = ActiveSet \ {e} /\ submitting' = None
        BY <3>1, <4>1, OutcomeLeaves DEF Defer, LockFree
      <4>3. (ActiveSet \ {submitting})' = ActiveSet \ {e}
        BY <4>2, ConstantsAssumption DEF ActiveSet, ConstantsAssumption
      <4>4. Cardinality(ActiveSet \ {e}) \in Nat
        BY ActiveFinite, FS_Subset, FS_CardinalityType
      <4>5. ~(Cardinality(ActiveSet \ {e}) < MaxConcurrent)  BY <3>1 DEF Defer, SlotFreeFor
      <4>6. Full' <=> Cardinality(ActiveSet \ {e}) >= MaxConcurrent  BY <4>3 DEF Full
      <4>. QED  BY <4>4, <4>5, <4>6, ConstantsAssumption DEF ConstantsAssumption
    <3>. QED  BY <3>2, <3>3
  <2>5. CASE NodeRejected(x, e)
    BY <2>5 DEF NodeRejected, Calm, WithinBudget
  <2>6. CASE NodeAdmitted(x, e)
    <3>1. e # f
      BY <1>2, <2>6 DEF NodeAdmitted, Admit, SetStatus, Base, HoldInv, TypeOK
    <3>2. job' = job /\ GoTo(x, "submit") /\ call' = call
      BY <2>6 DEF NodeAdmitted, NodeFrame
    <3>. QED  BY <1>4, <2>1, <3>2 DEF InGraph
  <2>7. CASE WriteOutcome(x, e)
    <3>1. job' = job /\ pc' = pc /\ call' = [call EXCEPT ![x].fresh = @ \ {e}]
      BY <2>7 DEF WriteOutcome, threadVars
    <3>2. call'[x].todo = call[x].todo  BY <1>2, <1>3, <3>1 DEF Call
    <3>. QED  BY <1>2, <2>1, <3>1, <3>2, StillAttended
  <2>. QED  BY <1>6, <2>2, <2>3, <2>4, <2>5, <2>6, <2>7 DEF NodeStep
<1>7. CASE CreateReview(x)
  <2>1. pc[x] = "nodes" /\ f \in call[x].todo /\ job' = job /\ pc' = pc /\ call' = call
    BY <1>7 DEF CreateReview, RunsNode, NodeFrame
  <2>. QED  BY <1>2, <2>1, StillAttended DEF InGraph
<1>8. CASE SubmissionWaits(x) \/ SubmissionCompletes(x) \/ SubmissionFails(x)
  <2>1. pc[x] = "submit" /\ f \in call[x].todo /\ job' = job
    BY <1>8 DEF SubmissionWaits, SubmissionCompletes, SubmissionFails, NodeFrame
  <2>2. submitting # f
    BY <1>2, ConstantsAssumption DEF Base, HoldInv, SubmittingRuns, ConstantsAssumption
  <2>3. f \in call'[x].todo
    BY <1>5, <1>8, <2>1, <2>2 DEF SubmissionWaits, SubmissionCompletes, SubmissionFails, InGraph
  <2>4. \E place \in InGraph : GoTo(x, place)
    BY <1>8 DEF SubmissionWaits, SubmissionCompletes, SubmissionFails, InGraph
  <2>. QED  BY <1>4, <2>1, <2>3, <2>4
<1>9. CASE Review(x)
  <2>1. pc[x] = "review" /\ f \in call[x].todo /\ job' = job /\ GoTo(x, "nodes")
    BY <1>9 DEF Review, NodeFrame
  <2>2. Lead[t] # f
    BY <1>1, <1>2, <2>1 DEF SteadyInv, Stands, Settled
  <2>3. f \in call'[x].todo
    BY <1>1, <1>5, <1>9, <2>1, <2>2 DEF Review, InGraph
  <2>. QED  BY <1>4, <2>1, <2>3 DEF InGraph
<1>10. CASE EndSuperstep(x) \/ Raised(x) \/ Returned(x) \/ Finish(x) \/ Drain(x)
  BY <1>2, <1>10 DEF EndSuperstep, Raised, Returned, Finish, Drain, InGraph
<1>11. CASE Resume(x)
  <2>1. /\ pc[x] = "resume" /\ ~IsApi(x) /\ t = TaskOf(job[x])
    BY <1>1, <1>2, <1>11 DEF Resume, Base, CallsFit, Fits, Serves
  <2>2. job[x] \in checkpoint[t].parked
    BY <1>1, <1>2, <2>1 DEF SteadyInv, Stands
  <2>3. checkpoint[t].stage # "done"
    BY <2>2 DEF DeliveryInv, GraphInv, Graph
  <2>4. /\ Enter(x, t, checkpoint[t], job[x]) /\ GoTo(x, "nodes") /\ job' = job
    BY <1>2, <1>11, <2>1, <2>2, <2>3 DEF Resume, Terminal
  <2>5. call'[x].todo = Members(t, checkpoint[t].stage) \ checkpoint[t].done
    BY <1>2, <1>3, <2>4 DEF Enter, NoCall
  <2>6. checkpoint[t].stage \in Stage  BY <1>3 DEF Checkpoint
  <2>7. f \in call'[x].todo  BY <1>1, <1>2, <2>2, <2>5, <2>6, WaitsToRun
  <2>. QED  BY <1>4, <2>4, <2>7 DEF InGraph
<1>. QED  BY <1>6, <1>7, <1>8, <1>9, <1>10, <1>11 DEF ThreadStep

\* What a drain says of a task.
Drained(t, z) ==
  \/ taskStatus[t] \in {"cancelled", "completed", "needs_revision"}
  \/ taskStatus[t] = "waiting" /\ completing = z /\ ~Calling(t)

\* No drain goes on while a thread works for a task that is not cancelled.
LEMMA NoDrainNow ==
  ASSUME SteadyInv, Base, QueueInv, NEW t \in Task,
         \/ taskStatus[t] \in {"created", "running", "failed"}
         \/ /\ taskStatus[t] # "cancelled"
            /\ \E x \in Serving(t) : pc[x] \in {"resume"} \cup Within
  PROVE  \A z \in Thread : pc[z] # "drain"
<1>. SUFFICES ASSUME NEW z \in Thread, pc[z] = "drain" PROVE FALSE
  OBVIOUS
<1>1. Drained(t, z)  BY DEF QueueInv, Drained
<1>2. PICK x \in Serving(t) : pc[x] \in {"resume"} \cup Within /\ taskStatus[t] # "cancelled"
  BY <1>1 DEF Drained
<1>3. x \in Thread /\ Serves(x) = t /\ ~Lost(x) /\ (IsApi(x) => Calling(t))
  BY ServesOnce
<1>4. taskStatus[t] \in {"waiting", "running"}
  BY <1>2, <1>3 DEF SteadyInv, Stands
<1>5. completing = z /\ ~Calling(t)  BY <1>1, <1>4 DEF Drained
<1>6. Serving(t) = {}  BY <1>5, NobodyServes DEF Within, InGraph
<1>. QED  BY <1>6

\* A drain that is not disturbed.
LEMMA DrainsOn ==
  ASSUME QueueInv, NEW t \in Task, NEW z \in Thread, pc[z] = "drain",
         taskStatus'[t] = taskStatus[t], completing = z => completing' = z,
         taskStatus[t] = "waiting" /\ Calling(t)' => Calling(t)
  PROVE  Drained(t, z)'
BY DEF QueueInv, Drained

\* The places a thread goes to inside a graph.
LEMMA NodePlaces ==
  ASSUME Base, NEW x \in Thread,
         \/ \E e \in Execution : NodeStep(x, e)
         \/ CreateReview(x) \/ Review(x) \/ EndSuperstep(x)
         \/ SubmissionWaits(x) \/ SubmissionCompletes(x) \/ SubmissionFails(x)
  PROVE  pc[x] \in InGraph /\ pc'[x] \in InGraph \cup {"raised", "returned"}
<1>1. pc \in [Thread -> Place]  BY DEF Base, CallsFit, FlowTypes
<1>2. ASSUME NEW place \in InGraph \cup {"raised", "returned"}, GoTo(x, place)
      PROVE  pc'[x] \in InGraph \cup {"raised", "returned"}
  BY <1>1, <1>2 DEF GoTo
<1>3. ASSUME NEW e \in Execution, NodeStep(x, e)
      PROVE  pc[x] \in InGraph /\ pc'[x] \in InGraph \cup {"raised", "returned"}
  BY <1>2, <1>3 DEF NodeStep, NodeReturns, NodeParks, NodeDefers, NodeRejected, NodeAdmitted,
                    WriteOutcome, RunsNode, InGraph, threadVars
<1>4. CASE CreateReview(x) \/ Review(x) \/ EndSuperstep(x)
  BY <1>2, <1>4 DEF CreateReview, Review, EndSuperstep, RunsNode, InGraph
<1>5. CASE SubmissionWaits(x) \/ SubmissionCompletes(x) \/ SubmissionFails(x)
  BY <1>2, <1>5 DEF SubmissionWaits, SubmissionCompletes, SubmissionFails, InGraph
<1>. QED  BY <1>3, <1>4, <1>5

\* A cancelled task stays so, but for a last verdict.
LEMMA CancelledOn ==
  ASSUME Base, DeliveryInv, NEW x \in Thread, ThreadStep(x), NEW t \in Task, t = Serves(x),
         taskStatus[t] = "cancelled"
  PROVE  taskStatus'[t] \in {"cancelled", "completed", "needs_revision"}
<1>1. taskStatus \in [Task -> TaskStatus]  BY DEF Base, CallsFit, FlowTypes
<1>2. pc[x] # "submit"  BY DEF DeliveryInv, GraphInv, Knows
<1>3. ASSUME NEW e \in Execution, NodeStep(x, e) PROVE taskStatus'[t] = "cancelled"
  BY <1>3 DEF NodeStep, NodeReturns, NodeParks, NodeDefers, NodeRejected, NodeAdmitted,
              WriteOutcome, taskVars
<1>4. CASE CreateReview(x) \/ Review(x) \/ EndSuperstep(x) \/ Raised(x) \/ Returned(x)
            \/ Resume(x) \/ Drain(x)
  BY <1>4 DEF CreateReview, Review, EndSuperstep, Raised, Returned, Resume, Drain, taskVars
<1>5. CASE Finish(x)  BY <1>1, <1>5 DEF Finish, SetTask
<1>. QED
  BY <1>2, <1>3, <1>4, <1>5
     DEF ThreadStep, SubmissionWaits, SubmissionCompletes, SubmissionFails

\* The steps that leave the graph for a drain leave the task waiting or closed.
LEMMA ToDrain ==
  ASSUME SteadyInv, Base, DeliveryInv, NEW x \in Thread, ThreadStep(x),
         NEW t \in Task, t = Serves(x), pc[x] \in {"resume"} \cup Within, ~Lost(x),
         pc'[x] = "drain"
  PROVE  /\ ~IsApi(x) /\ completing = x /\ completing' = x
         /\ taskStatus'[t] \in {"waiting", "cancelled", "completed", "needs_revision"}
<1>1. pc \in [Thread -> Place] /\ taskStatus \in [Task -> TaskStatus]
  BY DEF Base, CallsFit, FlowTypes
<1>2. ~(\E e \in Execution : NodeStep(x, e)) /\ ~CreateReview(x) /\ ~Review(x) /\ ~EndSuperstep(x)
      /\ ~SubmissionWaits(x) /\ ~SubmissionCompletes(x) /\ ~SubmissionFails(x)
  BY NodePlaces DEF InGraph
<1>3. ASSUME Leave(x)
      PROVE  ~IsApi(x) /\ completing = x /\ completing' = x
  <2>1. ~IsApi(x)  BY <1>1, <1>3 DEF Leave, GoTo
  <2>. QED  BY <1>3, <2>1 DEF Leave, SteadyInv, Stands
<1>4. ~IsApi(x) => taskStatus[t] \in {"waiting", "cancelled"}
  BY DEF SteadyInv, Stands
<1>5. CASE Returned(x)
  <2>1. Leave(x) /\ UNCHANGED taskStatus  BY <1>1, <1>5 DEF Returned, GoTo, taskVars
  <2>. QED  BY <1>3, <1>4, <2>1
<1>6. CASE Finish(x)
  <2>1. taskStatus'[t] \in {"completed", "needs_revision"}  BY <1>1, <1>6 DEF Finish, SetTask
  <2>. QED  BY <1>3, <1>6, <2>1 DEF Finish
<1>7. CASE Resume(x)
  <2>1. /\ pc[x] = "resume" /\ ~IsApi(x) /\ t = TaskOf(job[x]) /\ UNCHANGED taskStatus
    BY <1>7 DEF Resume, Base, CallsFit, Fits, Serves, taskVars
  <2>2. job[x] \in checkpoint[t].parked \/ taskStatus[t] = "cancelled"
    BY <2>1 DEF SteadyInv, Stands
  <2>3. Leave(x)
    BY <1>1, <1>7, <2>1, <2>2 DEF Resume, Terminal, GoTo
  <2>. QED  BY <1>3, <1>4, <2>1, <2>3
<1>. QED
  BY <1>2, <1>5, <1>6, <1>7 DEF ThreadStep, Raised, Drain, Within, InGraph, Lost

LEMMA ThreadDrains ==
  ASSUME Alone, Calm, SteadyInv, SteadyInv', Base, DeliveryInv, QueueInv, NothingToPick,
         NEW x \in Thread, ThreadStep(x), NEW t \in Task, NEW z \in Thread, pc'[z] = "drain"
  PROVE  Drained(t, z)'
<1>1. pc \in [Thread -> Place] /\ taskStatus \in [Task -> TaskStatus]
  BY DEF Base, CallsFit, FlowTypes
<1>2. z # x => pc[z] = "drain"  BY ThreadFrame
<1>3. pc[x] \in {"resume", "raised", "drain"} \cup Within
  <2>1. CASE (\E e \in Execution : NodeStep(x, e)) \/ CreateReview(x) \/ Review(x)
               \/ EndSuperstep(x) \/ SubmissionWaits(x) \/ SubmissionCompletes(x)
               \/ SubmissionFails(x)
    BY <2>1, NodePlaces DEF Within
  <2>2. CASE Raised(x) \/ Returned(x) \/ Finish(x) \/ Resume(x) \/ Drain(x)
    BY <2>2 DEF Raised, Returned, Finish, Resume, Drain, Within
  <2>. QED  BY <2>1, <2>2 DEF ThreadStep
<1>4. CASE pc[x] \in {"resume"} \cup Within /\ ~Lost(x)
  <2>1. t = Serves(x) /\ x \in Serving(t)
    BY <1>4, WithinServes DEF Alone
  <2>2. CASE taskStatus[t] = "cancelled"
    BY <2>1, <2>2, CancelledOn DEF Drained
  <2>3. CASE taskStatus[t] # "cancelled"
    <3>1. z = x  BY <1>2, <1>4, <2>1, <2>3, NoDrainNow
    <3>2. /\ ~IsApi(x) /\ completing = x /\ completing' = x
          /\ taskStatus'[t] \in {"waiting", "cancelled", "completed", "needs_revision"}
      BY <1>4, <2>1, <3>1, ToDrain
    <3>3. ~Calling(t)
      <4>1. Serving(t) = {x}  BY <2>1, OneServes
      <4>2. Calling(t) => Serving(t) \subseteq {Api(t)}  BY DEF SteadyInv, Reaches
      <4>. QED  BY <3>2, <4>1, <4>2, ApiNames
    <3>4. pc'[Api(t)] = pc[Api(t)]
      <4>1. Api(t) \in Thread \ {x}  BY <3>2, ApiNames
      <4>. QED  BY <4>1, ThreadFrame
    <3>5. taskStatus'[t] = "waiting" => ~Calling(t)'
      BY <3>3, <3>4 DEF Calling
    <3>. QED  BY <3>1, <3>2, <3>5 DEF Drained
  <2>. QED  BY <2>2, <2>3
<1>5. CASE Lost(x)
  <2>1. x \notin draining /\ pc[x] \in {"raised", "nodes"}
    BY <1>5 DEF SteadyInv, Stands, Lost
  <2>2. (call[x].todo = {} /\ call[x].fresh = {}) \/ pc[x] = "raised"
    BY <1>5, <2>1 DEF SteadyInv, Stands, InGraph
  <2>3. EndSuperstep(x) \/ Raised(x)
    BY <2>1, <2>2
       DEF ThreadStep, NodeStep, NodeReturns, NodeParks, NodeDefers, NodeRejected, NodeAdmitted,
           WriteOutcome, RunsNode, CreateReview, Review, SubmissionWaits, SubmissionCompletes,
           SubmissionFails, Returned, Finish, Resume, Drain
  <2>4. UNCHANGED taskStatus  BY <2>3 DEF EndSuperstep, Raised, taskVars
  <2>5. pc'[x] # "drain" /\ (completing = z /\ z # x => completing' = z)
    <3>1. CASE EndSuperstep(x)  BY <3>1, NodePlaces DEF InGraph, EndSuperstep, locks
    <3>2. CASE Raised(x)
      BY <1>1, <2>1, <3>2 DEF Raised, LeaveRaised, GoTo, ReleaseSupervisor
    <3>. QED  BY <2>3, <3>1, <3>2
  <2>6. z # x  BY <2>5
  <2>7. taskStatus[t] = "waiting" /\ Calling(t)' => Calling(t)
    <3>1. CASE x = Api(t)
      BY <2>1, <3>1 DEF Calling, Within, InGraph
    <3>2. CASE x # Api(t)
      <4>1. pc'[Api(t)] = pc[Api(t)]  BY <3>2, ApiNames, ThreadFrame
      <4>. QED  BY <2>4, <4>1 DEF Calling
    <3>. QED  BY <3>1, <3>2
  <2>. QED  BY <1>2, <2>4, <2>5, <2>6, <2>7, DrainsOn
<1>6. CASE pc[x] = "drain"
  <2>1. Drain(x)
    BY <1>6 DEF ThreadStep, NodeStep, NodeReturns, NodeParks, NodeDefers, NodeRejected, NodeAdmitted,
           WriteOutcome, RunsNode, CreateReview, Review, SubmissionWaits, SubmissionCompletes,
           SubmissionFails, Returned, Finish, Resume, Raised, EndSuperstep
  <2>2. GoTo(x, "idle") /\ ReleaseSupervisor(x) /\ UNCHANGED taskStatus
    BY <1>6, <2>1 DEF Drain, Pick, NothingToPick, taskVars
  <2>3. pc'[x] = "idle" /\ z # x  BY <1>1, <2>2 DEF GoTo
  <2>4. completing = z => completing' = z  BY <2>2, <2>3 DEF ReleaseSupervisor
  <2>5. Calling(t)' => Calling(t)
    <3>1. x # Api(t)
      BY <1>6, ApiNames DEF Base, CallsFit, Fits
    <3>2. pc'[Api(t)] = pc[Api(t)]  BY <3>1, ApiNames, ThreadFrame
    <3>. QED  BY <2>2, <3>2 DEF Calling
  <2>. QED  BY <1>2, <2>2, <2>3, <2>4, <2>5, DrainsOn
<1>7. CASE pc[x] = "raised"  BY <1>5, <1>7 DEF Lost
<1>. QED  BY <1>3, <1>4, <1>5, <1>6, <1>7

\* A client's call starts a graph that no drain goes on beside.
LEMMA ClientDrains ==
  ASSUME Alone, SteadyInv, Base, DeliveryInv, QueueInv, NEW u \in Task,
         Submit(u) \/ RetryTask(u) \/ ApiStep(u),
         NEW t \in Task, NEW z \in Thread, pc'[z] = "drain"
  PROVE  Drained(t, z)'
<1>1. pc \in [Thread -> Place] /\ taskStatus \in [Task -> TaskStatus] /\ t = u
  BY DEF Base, CallsFit, FlowTypes, Alone
<1>2. PICK place \in {"load", "prepare", "invoke", "idle", "returned", "nodes"} : GoTo(Api(t), place)
  BY <1>1 DEF Submit, RetryTask, ApiStep, LoadTask, PrepareAssignments, Invoke
<1>3. z # Api(t) /\ pc[z] = "drain" /\ pc'[Api(t)] = place
  BY <1>1, <1>2, ApiNames DEF GoTo
<1>4. UNCHANGED completing
  BY <1>1 DEF Submit, RetryTask, ApiStep, LoadTask, PrepareAssignments, Invoke, locks
<1>5. taskStatus[t] \notin {"created", "running", "failed"}
  BY <1>3, NoDrainNow
<1>6. CASE Submit(t)
  <2>1. pc'[Api(t)] = "load" /\ UNCHANGED taskStatus
    BY <1>1, <1>6, ApiNames DEF Submit, GoTo, taskVars
  <2>. QED  BY <1>3, <1>4, <1>5, <2>1, DrainsOn DEF Calling, Within, InGraph
<1>7. ~RetryTask(t)  BY <1>5 DEF RetryTask
<1>8. CASE LoadTask(t)
  <2>1. UNCHANGED taskStatus /\ pc'[Api(t)] = "idle"
    BY <1>1, <1>5, <1>8, ApiNames DEF LoadTask, GoTo, taskVars
  <2>. QED  BY <1>3, <1>4, <2>1, DrainsOn DEF Calling, Within, InGraph
<1>9. CASE PrepareAssignments(t)
  <2>1. pc[Api(t)] = "prepare"  BY <1>9 DEF PrepareAssignments
  <2>2. taskStatus[t] = "cancelled"
    BY <1>5, <2>1, ApiNames DEF SteadyInv, Stands
  <2>. QED  BY <2>1, <2>2 DEF QueueInv, DeliveryInv, GraphInv, Graph
<1>10. CASE Invoke(t)
  <2>1. pc[Api(t)] = "invoke" /\ UNCHANGED taskStatus  BY <1>10 DEF Invoke, taskVars
  <2>2. Calling(t)  BY <2>1 DEF Calling
  <2>. QED  BY <1>3, <1>4, <2>1, <2>2, DrainsOn
<1>. QED  BY <1>1, <1>6, <1>7, <1>8, <1>9, <1>10 DEF ApiStep

-----------------------------------------------------------------------------
(* Every step keeps the queue served.                                      *)

\* A step that ends no Turn: whoever queues now queued before, or found the
\* slots full; and whoever was about to be asked again still is, or is asked.
LEMMA QueueOn ==
  ASSUME Base, QueueInv, NEW x \in Thread, NEW f \in DeferredSet',
         Full => Full', f \in DeferredSet \/ Full',
         \A y \in Thread \ {x} : pc'[y] = pc[y] /\ call'[y] = call[y] /\ job'[y] = job[y],
         /\ f \in DeferredSet
         /\ x \in Serving(TaskOf(f)) /\ pc[x] \in {"resume"} \cup InGraph
         /\ pc[x] = "resume" \/ f \in call[x].todo
         => Full' \/ Attended(f)'
  PROVE  Full' \/ Attended(f)'
<1>1. f \in Execution  BY DEF DeferredSet
<1>. SUFFICES ASSUME f \in DeferredSet, ~Full' PROVE Attended(f)'
  OBVIOUS
<1>2. Attended(f)  BY DEF QueueInv
<1>. QED  BY <1>1, <1>2, AttendedKept

LEMMA ClientQueue ==
  ASSUME Base, QueueInv, \A e \in Execution : status[e] = "running" => submitting = e,
         NEW t \in Task, Submit(t) \/ RetryTask(t) \/ ApiStep(t), NEW f \in DeferredSet'
  PROVE  Full' \/ Attended(f)'
<1>. DEFINE x == Api(t)
<1>1. x \in Thread  BY ApiNames
<1>2. /\ pc \in [Thread -> Place] /\ call \in [Thread -> Call]
  BY DEF Base, CallsFit, FlowTypes
<1>3. /\ pc[x] \in {"idle", "load", "prepare", "invoke"}
      /\ \E place : GoTo(x, place)
      /\ job' = job
      /\ UNCHANGED call \/ \E c, given : Enter(x, t, c, given)
  BY DEF Submit, RetryTask, ApiStep, LoadTask, PrepareAssignments, Invoke, graphVars
<1>4. \/ UNCHANGED controlVars
      \/ \E S \in SUBSET Execution : Create(S) \/ Retry(S)
  <2>1. ExecutionsOf(t) \subseteq Execution /\ SpecialistSet(t) \subseteq Execution
    BY MembersType, Roles
  <2>2. CASE RetryTask(t)
    <3>1. PICK S \in SUBSET ExecutionsOf(t) : Retry(S)  BY <2>2 DEF RetryTask
    <3>. QED  BY <2>1, <3>1
  <2>3. CASE PrepareAssignments(t)  BY <2>1, <2>3 DEF PrepareAssignments
  <2>4. CASE Submit(t) \/ LoadTask(t) \/ Invoke(t)
    BY <2>4 DEF Submit, LoadTask, Invoke
  <2>. QED  BY <2>2, <2>3, <2>4 DEF ApiStep
<1>. HIDE DEF x
<1>5. \A y \in Thread \ {x} : pc'[y] = pc[y] /\ call'[y] = call[y] /\ job'[y] = job[y]
  BY <1>1, <1>2, <1>3 DEF GoTo, Enter
<1>6. (Full => Full') /\ (f \in DeferredSet \/ Full')  BY <1>4, SlotsKept
<1>7. pc[x] \notin {"resume"} \cup InGraph  BY <1>3 DEF InGraph
<1>. QED  BY <1>1, <1>5, <1>6, <1>7, QueueOn

LEMMA ThreadQueue ==
  ASSUME Calm, SteadyInv, SteadyInv', Base, DeliveryInv, QueueInv,
         \A e \in Execution : status[e] = "running" => submitting = e,
         NEW x \in Thread, ThreadStep(x), NEW f \in DeferredSet'
  PROVE  Full' \/ Attended(f)'
<1>1. \/ UNCHANGED controlVars
      \/ \E S \in SUBSET Execution : Create(S) \/ Retry(S)
      \/ \E e \in Execution :
            \/ Admit(e) \/ Defer(e) \/ Reject(e) \/ Pick(e) \/ SubmitWaiting(e)
            \/ \E usage \in Usage \cup {None} : SubmitCompleted(e, usage)
  <2>1. ASSUME NEW e \in Execution, NodeStep(x, e)
        PROVE  UNCHANGED controlVars \/ Admit(e) \/ Defer(e) \/ Reject(e)
    BY <2>1 DEF NodeStep, NodeReturns, NodeParks, NodeDefers, NodeRejected, NodeAdmitted,
                WriteOutcome
  <2>2. CASE CreateReview(x)
    <3>1. Serves(x) \in Task  BY <2>2, ServesType DEF CreateReview, RunsNode, Base
    <3>2. {Lead[Serves(x)]} \in SUBSET Execution  BY <3>1, Roles
    <3>. QED  BY <2>2, <3>2 DEF CreateReview
  <2>3. CASE SubmissionWaits(x) \/ SubmissionCompletes(x) \/ SubmissionFails(x)
    <3>1. submitting \in Execution
      BY <2>3 DEF SubmissionWaits, SubmissionCompletes, SubmissionFails, Base, SubmitInv
    <3>2. CASE SubmissionWaits(x)  BY <3>1, <3>2 DEF SubmissionWaits
    <3>3. CASE SubmissionCompletes(x)  BY <3>1, <3>3 DEF SubmissionCompletes
    <3>4. ~SubmissionFails(x)  BY DEF SubmissionFails, Calm
    <3>. QED  BY <2>3, <3>2, <3>3, <3>4
  <2>4. CASE Drain(x)
    <3>1. UNCHANGED controlVars \/ \E e \in Eligible : Pick(e)  BY <2>4 DEF Drain
    <3>. QED  BY <3>1 DEF Eligible, DeferredSet
  <2>5. CASE Review(x) \/ EndSuperstep(x) \/ Raised(x) \/ Returned(x) \/ Finish(x) \/ Resume(x)
    BY <2>5 DEF Review, EndSuperstep, Raised, Returned, Finish, Resume
  <2>. QED  BY <2>1, <2>2, <2>3, <2>4, <2>5 DEF ThreadStep
<1>2. (Full => Full') /\ (f \in DeferredSet \/ Full')  BY <1>1, SlotsKept
<1>3. \A y \in Thread \ {x} : pc'[y] = pc[y] /\ call'[y] = call[y] /\ job'[y] = job[y]
  BY ThreadFrame
<1>4. f \in Execution  BY DEF DeferredSet
<1>5. ASSUME f \in DeferredSet, x \in Serving(TaskOf(f)), pc[x] \in {"resume"} \cup InGraph,
             pc[x] = "resume" \/ f \in call[x].todo
      PROVE  Full' \/ Attended(f)'
  BY <1>4, <1>5, AskedKept
<1>. QED  BY <1>2, <1>3, <1>5, QueueOn

\* The end of a Turn frees its slot: its worker resumes the task, or the task
\* is cancelled.
LEMMA ReportQueue ==
  ASSUME Alone, Calm, SteadyInv, Base, DeliveryInv, QueueInv, NEW e \in Execution, ReportStep(e)
  PROVE  /\ \A f \in DeferredSet' : Attended(f)'
         /\ \A t \in Task : checkpoint[t].stage = "none" => taskStatus'[t] # "cancelled"
         /\ \A t \in Task, z \in Thread : pc'[z] = "drain" => Drained(t, z)'
<1>1. PICK t \in Task : t = TaskOf(e) /\ e \in ExecutionsOf(t)  BY TaskOfType
<1>2. \A u \in Task : u = t  BY DEF Alone
<1>3. PICK x \in Thread : x = Worker(e) /\ ~IsApi(x)  BY ApiNames
<1>4. /\ pc \in [Thread -> Place] /\ job \in [Thread -> Execution \cup {None}]
      /\ taskStatus \in [Task -> TaskStatus]
  BY DEF Base, CallsFit, FlowTypes
<1>5. e \in watched /\ pc[x] = "idle"
  BY <1>3 DEF ReportStep, TurnCompletes, TurnFails, TurnInterrupted
<1>6. taskStatus[t] = "waiting" /\ e \in checkpoint[t].parked
  BY <1>1, <1>5 DEF SteadyInv, Waits, Turn
<1>7. CASE TurnCompletes(e)
  <2>1. /\ completing = None /\ UNCHANGED taskStatus
        /\ GoTo(x, "resume") /\ job' = [job EXCEPT ![x] = e]
    BY <1>1, <1>3, <1>6, <1>7 DEF TurnCompletes, Terminal
  <2>2. pc'[x] = "resume" /\ job'[x] = e  BY <1>4, <2>1 DEF GoTo
  <2>3. x \in Serving(t)'
    <3>1. ~Lost(x)'  BY <2>2 DEF Lost, InGraph
    <3>2. TaskOf(job[x])' = t  BY <1>1, <2>2 DEF TaskOf
    <3>. QED  BY <1>3, <2>2, <3>1, <3>2 DEF Serving, IsApi
  <2>4. ASSUME NEW f \in DeferredSet' PROVE Attended(f)'
    <3>1. f \in Execution  BY DEF DeferredSet
    <3>2. TaskOf(f)' = t  BY <1>2, <3>1, TaskOfType DEF TaskOf
    <3>. QED  BY <2>2, <2>3, <3>2 DEF Attended
  <2>5. \A z \in Thread : pc'[z] # "drain"
    <3>1. SUFFICES ASSUME NEW z \in Thread, pc'[z] = "drain" PROVE FALSE
      OBVIOUS
    <3>2. pc[z] = "drain"  BY <1>4, <2>1, <2>2, <3>1 DEF GoTo
    <3>. QED  BY <1>6, <2>1, <3>2, ThreadAssumption DEF QueueInv
  <2>. QED  BY <1>2, <1>6, <2>1, <2>4, <2>5
<1>8. CASE TurnInterrupted(e)
  <2>1. CancelTask(t)  BY <1>1, <1>6, <1>8 DEF TurnInterrupted, Terminal
  <2>2. taskStatus'[t] = "cancelled"  BY <1>4, <2>1 DEF CancelTask, SetTask
  <2>3. checkpoint[t].stage # "none"
    BY <1>6 DEF DeliveryInv, GraphInv, Graph
  <2>4. ASSUME NEW f \in DeferredSet' PROVE FALSE
    <3>1. f \in Execution /\ status'[f] = "waiting"  BY DEF DeferredSet
    <3>2. f \in ExecutionsOf(t)  BY <1>2, <3>1, TaskOfType
    <3>. QED  BY <2>1, <3>1, <3>2 DEF CancelTask, Cancel
  <2>. QED  BY <1>2, <2>2, <2>3, <2>4 DEF Drained
<1>9. ~TurnFails(e)  BY DEF TurnFails, Calm
<1>. QED  BY <1>7, <1>8, <1>9 DEF ReportStep

\* A graph that started does not start again, and no thread cancels its task.
LEMMA StartedOn ==
  ASSUME Calm, Base, NEW t \in Task, checkpoint'[t].stage = "none",
         \/ \E u \in Task : Submit(u) \/ RetryTask(u) \/ ApiStep(u)
         \/ \E x \in Thread : ThreadStep(x)
  PROVE  /\ checkpoint[t].stage = "none"
         /\ taskStatus'[t] = "cancelled" => taskStatus[t] = "cancelled"
<1>1. checkpoint \in [Task -> Checkpoint] /\ taskStatus \in [Task -> TaskStatus]
  BY DEF Base, CallsFit, FlowTypes
<1>2. ASSUME NEW u \in Task, NEW s \in TaskStatus \ {"cancelled"},
             UNCHANGED taskStatus \/ SetTask(u, s)
      PROVE  taskStatus'[t] = "cancelled" => taskStatus[t] = "cancelled"
  BY <1>1, <1>2 DEF SetTask
<1>3. ASSUME NEW u \in Task, Submit(u) \/ RetryTask(u) \/ ApiStep(u)
      PROVE  /\ checkpoint[t].stage = "none"
             /\ taskStatus'[t] = "cancelled" => taskStatus[t] = "cancelled"
  <2>1. UNCHANGED taskStatus \/ SetTask(u, "running")
    BY <1>3 DEF Submit, RetryTask, ApiStep, LoadTask, PrepareAssignments, Invoke, taskVars
  <2>2. checkpoint[t].stage = "none"
    <3>1. CASE UNCHANGED checkpoint  BY <3>1
    <3>2. CASE Invoke(u)  BY <1>1, <3>2 DEF Invoke
    <3>. QED
      BY <1>3, <3>1, <3>2 DEF Submit, RetryTask, ApiStep, LoadTask, PrepareAssignments, graphVars
  <2>. QED  BY <1>2, <2>1, <2>2 DEF TaskStatus
<1>4. ASSUME NEW x \in Thread, ThreadStep(x)
      PROVE  /\ checkpoint[t].stage = "none"
             /\ taskStatus'[t] = "cancelled" => taskStatus[t] = "cancelled"
  <2>1. \/ UNCHANGED taskStatus
        \/ \E s \in TaskStatus \ {"cancelled"} : SetTask(Serves(x), s)
    <3>1. ASSUME NEW e \in Execution, NodeStep(x, e)
          PROVE  UNCHANGED taskStatus \/ SetTask(Serves(x), "waiting") \/ SetTask(Serves(x), "failed")
      BY <3>1 DEF NodeStep, NodeReturns, NodeParks, NodeDefers, NodeRejected, NodeAdmitted,
                  WriteOutcome, taskVars
    <3>2. CASE Finish(x)  BY <3>2 DEF Finish, TaskStatus, Terminal
    <3>3. CASE SubmissionWaits(x) \/ SubmissionCompletes(x) \/ SubmissionFails(x) \/ Review(x)
      BY <3>3 DEF SubmissionWaits, SubmissionCompletes, SubmissionFails, Review, TaskStatus, Terminal
    <3>4. CASE CreateReview(x) \/ EndSuperstep(x) \/ Raised(x) \/ Returned(x) \/ Resume(x) \/ Drain(x)
      BY <3>4 DEF CreateReview, EndSuperstep, Raised, Returned, Resume, Drain, taskVars
    <3>. QED  BY <1>4, <3>1, <3>2, <3>3, <3>4 DEF ThreadStep, TaskStatus, Terminal
  <2>2. taskStatus'[t] = "cancelled" => taskStatus[t] = "cancelled"
    BY <1>1, <2>1 DEF SetTask
  <2>3. checkpoint[t].stage = "none"
    <3>1. CASE UNCHANGED checkpoint  BY <3>1
    <3>2. ASSUME NEW e \in Execution, WriteOutcome(x, e) PROVE checkpoint[t].stage = "none"
      <4>1. \/ checkpoint' = checkpoint
            \/ checkpoint' = [checkpoint EXCEPT ![Serves(x)].parked = @ \cup {e}]
            \/ checkpoint' = [checkpoint EXCEPT ![Serves(x)].done = @ \cup {e}]
        BY <3>2 DEF WriteOutcome
      <4>. QED  BY <1>1, <4>1 DEF Checkpoint
    <3>3. CASE EndSuperstep(x)
      <4>1. \/ UNCHANGED checkpoint
            \/ checkpoint' = [checkpoint EXCEPT ![Serves(x)] =
                   [stage |-> NextStage(call[x].stage), by |-> x, done |-> {}, parked |-> {}]]
        BY <3>3 DEF EndSuperstep, graphVars
      <4>. QED  BY <1>1, <4>1 DEF NextStage
    <3>. QED
      BY <1>4, <3>1, <3>2, <3>3
         DEF ThreadStep, NodeStep, NodeReturns, NodeParks, NodeDefers, NodeRejected, NodeAdmitted,
             CreateReview, SubmissionWaits, SubmissionCompletes, SubmissionFails, Review, Raised,
             Returned, Finish, Resume, Drain, NodeFrame, graphVars
  <2>. QED  BY <2>2, <2>3
<1>. QED  BY <1>3, <1>4

LEMMA QueueStep ==
  ASSUME Alone, Calm, SteadyInv, SteadyInv', Base, DeliveryInv, QueueInv,
         \A e \in Execution : status[e] = "running" => submitting = e,
         [FlowNext]_vars
  PROVE  QueueInv'
<1>1. NothingToPick  BY QueueNothing
<1>2. CASE UNCHANGED vars
  <2>1. /\ UNCHANGED <<status, capacityWait, submitting, taskStatus, checkpoint, call>>
        /\ UNCHANGED <<pc, job, completing>>
    BY <1>2 DEF vars, controlVars, flowVars, taskVars, graphVars, threadVars, locks
  <2>2. /\ \A x : Lost(x)' <=> Lost(x)
        /\ \A t : Calling(t)' <=> Calling(t)
        /\ ActiveSet' = ActiveSet /\ DeferredSet' = DeferredSet
    BY <2>1 DEF Lost, Calling, ActiveSet, Active, DeferredSet
  <2>3. \A t : Serving(t)' = Serving(t)  BY <2>1, <2>2 DEF Serving
  <2>4. (Full' <=> Full) /\ \A f : Attended(f)' <=> Attended(f)
    BY <2>1, <2>2, <2>3 DEF Full, Attended
  <2>. QED  BY <2>1, <2>2, <2>4 DEF QueueInv
<1>3. ASSUME NEW e \in Execution, ReportStep(e)
      PROVE  QueueInv'
  <2>1. UNCHANGED checkpoint
    BY <1>3 DEF ReportStep, TurnCompletes, TurnFails, TurnInterrupted, graphVars
  <2>. QED  BY <1>3, <2>1, ReportQueue DEF QueueInv, Drained
<1>4. ASSUME NEW t \in Task, Submit(t) \/ RetryTask(t) \/ ApiStep(t)
      PROVE  QueueInv'
  <2>1. \A f \in DeferredSet' : Full' \/ Attended(f)'  BY <1>4, ClientQueue
  <2>2. \A u \in Task, z \in Thread : pc'[z] = "drain" => Drained(u, z)'
    BY <1>4, ClientDrains
  <2>3. \A u \in Task : taskStatus'[u] = "cancelled" => checkpoint'[u].stage # "none"
    BY <1>4, StartedOn DEF QueueInv
  <2>. QED  BY <2>1, <2>2, <2>3 DEF QueueInv, Drained
<1>5. ASSUME NEW x \in Thread, ThreadStep(x)
      PROVE  QueueInv'
  <2>1. \A f \in DeferredSet' : Full' \/ Attended(f)'  BY <1>5, ThreadQueue
  <2>2. \A u \in Task, z \in Thread : pc'[z] = "drain" => Drained(u, z)'
    BY <1>1, <1>5, ThreadDrains
  <2>3. \A u \in Task : taskStatus'[u] = "cancelled" => checkpoint'[u].stage # "none"
    BY <1>5, StartedOn DEF QueueInv
  <2>. QED  BY <2>1, <2>2, <2>3 DEF QueueInv, Drained
<1>6. \A t \in Task : ~UserCancels(t)  BY DEF UserCancels, Alone
<1>. QED  BY <1>2, <1>3, <1>4, <1>5, <1>6 DEF FlowNext

LEMMA QueueInit == FlowInit => QueueInv /\ DeferredSet = {}
<1>. SUFFICES ASSUME FlowInit PROVE QueueInv /\ DeferredSet = {}
  OBVIOUS
<1>1. DeferredSet = {}  BY DEF FlowInit, ControlInit, DeferredSet
<1>. QED  BY <1>1 DEF FlowInit, QueueInv

-----------------------------------------------------------------------------
(* What is left when nothing is going on.                                  *)

\* Nobody serves a task then, so whoever waits is waited for.
LEMMA QuietWatched ==
  ASSUME SteadyInv, Quiet
  PROVE  /\ \A e \in Execution : Turn(e) => e \in watched
         /\ \A t \in Task : taskStatus[t] = "waiting" =>
              \E e \in ExecutionsOf(t) : status[e] = "waiting"
<1>1. \A t \in Task : Serving(t) = {}
  BY ApiNames DEF Quiet, Serving, Calling, Within, InGraph
<1>2. ASSUME NEW e \in Execution, Turn(e) PROVE e \in watched
  <2>1. PICK t \in Task : e \in ExecutionsOf(t)  BY TaskOfType
  <2>. QED  BY <1>1, <1>2, <2>1 DEF SteadyInv, Waits
<1>. QED  BY <1>1, <1>2 DEF SteadyInv, Reaches

\* What the handlers of a steady flow keep, beside FlowInv.
SteadyQueue ==
  /\ SteadyInv
  /\ Roomy => DeferredSet = {}
  /\ Alone => QueueInv

LEMMA SteadyQueueHolds ==
  ASSUME Calm, Roomy \/ Alone
  PROVE  FlowSpec => [](FlowInv /\ SteadyQueue)
<1>1. FlowInit => SteadyQueue  BY SteadyInit, QueueInit DEF SteadyQueue
<1>2. FlowInv /\ ControlInv /\ SteadyQueue /\ [FlowNext]_vars => SteadyQueue'
  <2>. SUFFICES ASSUME FlowInv, ControlInv, SteadyQueue, [FlowNext]_vars
                PROVE  SteadyQueue'
    OBVIOUS
  <2>1. Base /\ DeliveryInv  BY DEF FlowInv
  <2>2. NothingToPick
    <3>1. CASE Roomy  BY <3>1 DEF SteadyQueue, NothingToPick, Eligible
    <3>2. CASE Alone  BY <2>1, <3>2, QueueNothing DEF SteadyQueue
    <3>. QED  BY <3>1, <3>2
  <2>3. SteadyInv'  BY <2>1, <2>2, SteadyStep DEF SteadyQueue
  <2>4. Roomy => DeferredSet' = {}  BY <2>1, RoomyStep DEF SteadyQueue
  <2>5. \A e \in Execution : status[e] = "running" => submitting = e
    BY DEF ControlInv, LedgerInv
  <2>6. Alone => QueueInv'  BY <2>1, <2>3, <2>5, QueueStep DEF SteadyQueue
  <2>. QED  BY <2>3, <2>4, <2>6 DEF SteadyQueue
<1>. QED
  BY <1>1, <1>2, FlowInvariant, FlowImplementsControl, ControlInvariant, PTL DEF FlowSpec

\* When nothing is going on, every Turn has a worker of the supervisor that
\* waits for its end, whichever of run, resume and drain returned last.
THEOREM EveryTurnIsWatched ==
  ASSUME Calm, Roomy \/ Alone
  PROVE  FlowSpec => []TurnsAreWatched
<1>1. FlowInv /\ SteadyQueue => TurnsAreWatched
  BY QuietWatched DEF SteadyQueue, TurnsAreWatched, Turn
<1>. QED  BY <1>1, SteadyQueueHolds, PTL

\* A task that says it waits has an execution that does: a Turn or a place in
\* the queue.
THEOREM WaitingTasksWait ==
  ASSUME Calm, Roomy \/ Alone
  PROVE  FlowSpec => []WaitingForSomething
<1>1. FlowInv /\ SteadyQueue => WaitingForSomething
  BY QuietWatched DEF SteadyQueue, WaitingForSomething
<1>. QED  BY <1>1, SteadyQueueHolds, PTL

\* No slot is left free over a queue: the resume after a Turn runs every node
\* of the stage that was interrupted, those that queue among them.
THEOREM SlotsAreUsed ==
  ASSUME Calm, Roomy \/ Alone
  PROVE  FlowSpec => []NoIdleSlot
<1>1. FlowInv /\ SteadyQueue => NoIdleSlot
  <2>. SUFFICES ASSUME FlowInv, SteadyQueue, Quiet, NEW f \in Eligible
                PROVE  ~SlotFree
    BY DEF NoIdleSlot
  <2>1. f \in DeferredSet  BY DEF Eligible
  <2>2. QueueInv /\ SteadyInv  BY <2>1 DEF SteadyQueue
  <2>3. Serving(TaskOf(f)) = {}
    <3>1. TaskOf(f) \in Task  BY <2>1, TaskOfType DEF DeferredSet
    <3>. QED  BY <3>1, ApiNames DEF Quiet, Serving, Calling, Within, InGraph
  <2>4. Full  BY <2>1, <2>2, <2>3 DEF QueueInv, Attended
  <2>5. /\ IsFiniteSet(ActiveSet) /\ Cardinality(ActiveSet \ {submitting}) \in Nat
        /\ Cardinality(ActiveSet) \in Nat
        /\ Cardinality(ActiveSet \ {submitting}) <= Cardinality(ActiveSet)
    BY ActiveFinite, FS_Subset, FS_CardinalityType
  <2>. QED  BY <2>4, <2>5, ConstantsAssumption DEF Full, SlotFree, ConstantsAssumption
<1>. QED  BY <1>1, SteadyQueueHolds, PTL
=============================================================================
