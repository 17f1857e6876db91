----------------------------- MODULE RestartProofs -----------------------------
(***************************************************************************)
(* The tasks over any number of stops of the process: what is true of      *)
(* TaskFlow stays true through a stop at any point, the startup that       *)
(* reattaches or fails what it finds, and the workers beside it.           *)
(*                                                                         *)
(* The invariant is FlowInv of TaskDeliveryProofs.  A stop forgets the     *)
(* threads and keeps the rows and the checkpoints, of which FlowInv says   *)
(* nothing that needs a thread; a step of the startup moves a thread that  *)
(* is idle.  To the ledger a stop is a lost submission, or nothing.        *)
(***************************************************************************)
EXTENDS Restart, TaskDeliveryProofs

-----------------------------------------------------------------------------
(* The steps that are not steps of TaskFlow.                               *)

\* The startup runs as a thread that is no client's.
LEMMA StarterType ==
  Starter \in Thread /\ ~IsApi(Starter) /\ \A t \in Task : Starter # Api(t)
<1>1. PICK t \in Task : Starter = Stopper(t)
  BY RestartAssumption DEF RestartAssumption, Starter
<1>. QED  BY <1>1, ThreadNames DEF Stopper, Api, IsApi

\* A stop: the rows and the checkpoints stay, the threads go.
LEMMA CrashKeeps ==
  ASSUME FlowInv, Crash
  PROVE  FlowInv' /\ [CrashNext]_controlVars /\ UNCHANGED status
<1>. USE DEF FlowInv
<1>1. /\ SubmissionLost \/ UNCHANGED controlVars
      /\ submitting' = None
      /\ UNCHANGED <<taskVars, checkpoint, created, calls, status, capacityWait>>
  BY DEF Crash, SubmissionLost, controlVars
<1>2. /\ call' = [x \in Thread |-> NoCall]
      /\ pc' = [x \in Thread |-> "idle"] /\ job' = [x \in Thread |-> None]
      /\ draining' = {} /\ graphLock' = None /\ completing' = None /\ watched' = {}
  BY DEF Crash
<1>3. [CrashNext]_controlVars  BY <1>1 DEF CrashNext
<1>4. HoldInv'  BY <1>3, HoldStep DEF Base
<1>5. SubmitInv'  BY <1>1, <1>2 DEF SubmitInv, Place
<1>6. CallsFit'
  <2>1. FlowTypes'
    BY <1>1, <1>2, NoCallType DEF Base, CallsFit, FlowTypes, Place, taskVars
  <2>2. \A x \in Thread : Fits(x)'
    BY <1>2, NoCallType DEF Fits, InGraph
  <2>. QED  BY <2>1, <2>2 DEF CallsFit
<1>7. CancelledIsQuiet'
  BY <1>1 DEF Base, CancelledIsQuiet, Active, taskVars
<1>8. HolderInv'
  BY <1>1, <1>2, ThreadAssumption
     DEF Base, HolderInv, DataTypes, LockTypes, Holds, taskVars
<1>9. RowsInv' /\ CompletedOnAcceptance'
  BY <1>1 DEF DeliveryInv, RowsInv, Rows, Delivered, CompletedOnAcceptance, taskVars
<1>10. GraphInv'
  <2>1. \A t \in Task : Past(t) => Past(t)'  BY <1>1 DEF Past, Settled, taskVars
  <2>2. \A t \in Task : Graph(t)'
    BY <1>1, <1>2, <2>1, ThreadNames DEF DeliveryInv, GraphInv, Graph, Settled, taskVars
  <2>3. \A x \in Thread : Knows(x)'  BY <1>2 DEF Knows, InGraph
  <2>. QED  BY <2>2, <2>3 DEF GraphInv
<1>. QED
  BY <1>1, <1>3, <1>4, <1>5, <1>6, <1>7, <1>8, <1>9, <1>10 DEF Base, DeliveryInv

\* A Turn that is reattached is watched again.
LEMMA ReattachKeeps ==
  ASSUME FlowInv, NEW e \in Execution, Reattach(e)
  PROVE  FlowInv' /\ [CrashNext]_controlVars /\ UNCHANGED status
<1>1. /\ UNCHANGED controlVars /\ UNCHANGED taskVars /\ UNCHANGED graphVars
      /\ UNCHANGED threadVars /\ UNCHANGED <<created, calls>>
      /\ watched' = watched \cup {e}
  BY DEF Reattach
<1>2. UNCHANGED <<status, capacityWait, reserved, settled, tokensReserved, tokensConsumed,
                  submitting, taskStatus, verdict, badReview, checkpoint, call, pc, job,
                  draining, graphLock, completing>>
  BY <1>1 DEF controlVars, ledger, taskVars, graphVars, threadVars, locks
<1>3. CallsFit' /\ SubmitInv' /\ HoldInv' /\ CancelledIsQuiet'
  BY <1>2 DEF FlowInv, Base, CallsFit, FlowTypes, Fits, Serves, SubmitInv, HoldInv, TypeOK,
              SubmittingRuns, CancelledIsQuiet, Active
<1>4. HolderInv'
  BY <1>1, <1>2 DEF FlowInv, Base, HolderInv, DataTypes, LockTypes, Holds
<1>5. RowsInv' /\ CompletedOnAcceptance'
  BY <1>2 DEF FlowInv, DeliveryInv, RowsInv, Rows, Delivered, CompletedOnAcceptance
<1>6. GraphInv'
  <2>1. Firm /\ Orderly  BY <1>2 DEF Firm, Settled, Orderly
  <2>2. ASSUME NEW y \in Thread PROVE Knows(y)'
    BY <1>2, <2>1, KnowsStill DEF FlowInv
  <2>3. ASSUME NEW t \in Task PROVE Graph(t)'
    BY <1>2, <2>1, GraphStill DEF FlowInv
  <2>. QED  BY <2>2, <2>3 DEF GraphInv
<1>. QED
  BY <1>1, <1>2, <1>3, <1>4, <1>5, <1>6 DEF FlowInv, Base, DeliveryInv

\* The startup begins to drain, perhaps after it failed an execution whose task is
\* not cancelled.
LEMMA StarterDrains ==
  ASSUME FlowInv, StarterIdle, GoTo(Starter, "drain"),
         draining' = draining \cup {Starter},
         \/ UNCHANGED controlVars /\ UNCHANGED taskStatus
         \/ \E e \in Execution : /\ Fail(e) /\ SetTask(TaskOf(e), "failed")
                                 /\ taskStatus[TaskOf(e)] # "cancelled",
         UNCHANGED <<verdict, badReview, graphVars, job, locks, watched, created, calls>>
  PROVE  FlowInv' /\ [CrashNext]_controlVars
         /\ \A e \in Execution : status[e] = "completed" => status'[e] = "completed"
<1>. USE DEF FlowInv
<1>. DEFINE z == Starter
<1>1. z \in Thread /\ ~IsApi(z) /\ (\A t \in Task : z # Api(t)) /\ pc[z] = "idle"
  BY StarterType DEF StarterIdle
<1>2. pc' = [pc EXCEPT ![z] = "drain"] /\ GoTo(z, "drain")  BY DEF GoTo
<1>3. UNCHANGED <<checkpoint, call, job, graphLock, completing>>
  BY DEF graphVars, locks
<1>. HIDE DEF z
<1>4. pc \in [Thread -> Place] /\ taskStatus \in [Task -> TaskStatus]
      /\ job \in [Thread -> Execution \cup {None}] /\ checkpoint \in [Task -> Checkpoint]
  BY DEF Base, CallsFit, FlowTypes
<1>5. ASSUME NEW e \in Execution PROVE TaskOf(e) \in Task
  BY TaskOfType
<1>6. Plain /\ [CrashNext]_controlVars /\ UNCHANGED submitting
  BY DEF Plain, CrashNext, ControlNext, Fail, controlVars
<1>7. HoldInv'  BY <1>6, HoldStep DEF Base
<1>8. SubmitInv'  BY <1>1, <1>2, <1>6, MoveKeeps DEF Base, Place
<1>9. /\ taskStatus' \in [Task -> TaskStatus]
      /\ \A t \in Task : taskStatus'[t] = "cancelled" => taskStatus[t] = "cancelled"
  BY <1>4, <1>5, TaskSet DEF TaskStatus, Terminal, Base
<1>10. CallsFit'
  <2>1. call[z].todo = {}  BY <1>1, IdleFits DEF InGraph, Base
  <2>2. \A y \in Thread \ {z} : y \in draining' <=> y \in draining  BY DEF z
  <2>. QED
    BY <1>1, <1>2, <1>3, <1>4, <1>9, <2>1, <2>2, MovesOutside DEF Base, Place, InGraph
<1>11. CancelledIsQuiet'
  <2>1. \A e \in Execution : Active(e)' => Active(e)
    <3>1. CASE UNCHANGED controlVars  BY <3>1 DEF controlVars, Active
    <3>2. ASSUME NEW e \in Execution, Fail(e)
          PROVE  \A f \in Execution : Active(f)' => Active(f)
      <4>1. ActiveSet' = ActiveSet \ {e}
        BY <3>2, OutcomeLeaves DEF Base, HoldInv
      <4>. QED  BY <4>1 DEF ActiveSet
    <3>. QED  BY <3>1, <3>2
  <2>. QED  BY <1>9, <2>1, MembersType DEF Base, CancelledIsQuiet
<1>12. HolderInv'
  <2>1. DataTypes'  BY DEF Base, HolderInv, DataTypes
  <2>2. Holds(z)'  BY <1>1, <1>2, <1>3, <1>4 DEF Base, HolderInv, Holds
  <2>3. draining' \subseteq draining \cup {z}  BY DEF z
  <2>4. LockTypes' /\ \A y \in Thread : Holds(y)'
    BY <1>1, <1>2, <1>3, <1>4, <2>2, <2>3, OneHolds DEF Base, HolderInv
  <2>. QED  BY <2>1, <2>4 DEF HolderInv
<1>13. Firm /\ RowsInv' /\ Orderly
  BY <1>5, <1>6, PlainRows DEF DeliveryInv, TaskStatus, Terminal
<1>14. GraphInv'
  <2>1. Knows(z)'  BY <1>1, <1>2, <1>4 DEF Knows, InGraph
  <2>. QED  BY <1>1, <1>2, <1>3, <1>4, <1>13, <2>1, OneKnows
<1>15. \A e \in Execution : status[e] = "completed" => status'[e] = "completed"
  BY <1>6, PlainKeeps DEF Base
<1>16. CompletedOnAcceptance'
  <2>1. \A t \in Task : taskStatus'[t] = "completed" => taskStatus[t] = "completed"
    BY <1>4, <1>5, OneTaskSet DEF TaskStatus, Terminal
  <2>. QED  BY <1>15, <2>1, MembersType DEF CompletedOnAcceptance
<1>. QED
  BY <1>6, <1>7, <1>8, <1>10, <1>11, <1>12, <1>13, <1>14, <1>15, <1>16
     DEF Base, DeliveryInv

-----------------------------------------------------------------------------
(* The theorems.                                                           *)

\* What every step of a process that is stopped and started keeps.
LEMMA RestartStep ==
  ASSUME FlowInv, [RestartNext]_restartVars
  PROVE  /\ FlowInv' /\ [CrashNext]_controlVars
         /\ \/ [FlowNext]_vars
            \/ \A e \in Execution : status[e] = "completed" => status'[e] = "completed"
<1>1. CASE [FlowNext]_vars
  <2>1. [ControlNext]_controlVars  BY <1>1, FlowStep DEF FlowInv, Base, Sound
  <2>. QED  BY <1>1, <2>1, FlowInvStep DEF CrashNext
<1>2. CASE UNCHANGED restartVars  BY <1>1, <1>2 DEF restartVars
<1>3. CASE StartupStep  BY <1>1, <1>3 DEF StartupStep, FlowNext
<1>4. CASE Crash  BY <1>4, CrashKeeps
<1>5. CASE Start \/ Serve  BY <1>1, <1>5 DEF Start, Serve
<1>6. CASE ResumeQueue
  <2>1. UNCHANGED controlVars /\ UNCHANGED taskStatus
        /\ UNCHANGED <<verdict, badReview, graphVars, job, locks, watched, created, calls>>
    BY <1>6 DEF ResumeQueue, taskVars
  <2>. QED  BY <1>6, <2>1, StarterDrains DEF ResumeQueue
<1>7. ASSUME NEW e \in Execution, Reattach(e) \/ OrphanFails(e)
      PROVE  /\ FlowInv' /\ [CrashNext]_controlVars
             /\ \/ [FlowNext]_vars
                \/ \A f \in Execution : status[f] = "completed" => status'[f] = "completed"
  <2>1. CASE Reattach(e)  BY <2>1, ReattachKeeps
  <2>2. CASE OrphanFails(e) /\ taskStatus[TaskOf(e)] = "cancelled"
    <3>1. UNCHANGED vars
      BY <2>2 DEF OrphanFails, vars, flowVars, taskVars, threadVars
    <3>. QED  BY <1>1, <3>1
  <2>3. CASE OrphanFails(e) /\ taskStatus[TaskOf(e)] # "cancelled"
    <3>1. /\ StarterIdle /\ Fail(e) /\ SetTask(TaskOf(e), "failed")
          /\ GoTo(Starter, "drain") /\ draining' = draining \cup {Starter}
          /\ UNCHANGED <<verdict, badReview, graphVars, job, locks, watched, created, calls>>
      BY <2>3 DEF OrphanFails
    <3>. QED  BY <2>3, <3>1, StarterDrains
  <2>. QED  BY <1>7, <2>1, <2>2, <2>3
<1>. QED
  BY <1>1, <1>2, <1>3, <1>4, <1>5, <1>6, <1>7 DEF RestartNext

LEMMA RestartInvariant == RestartSpec => []FlowInv
<1>1. RestartInit => FlowInv  BY FlowInvInit DEF RestartInit
<1>2. FlowInv /\ [RestartNext]_restartVars => FlowInv'  BY RestartStep
<1>. QED  BY <1>1, <1>2, PTL DEF RestartSpec

\* To the admission control, whatever a process that is stopped and started does is
\* one of its transactions or a lost submission.
THEOREM RestartImplementsCrash == RestartSpec => CrashSpec
<1>1. RestartInit => ControlInit  BY DEF RestartInit, FlowInit
<1>2. FlowInv /\ [RestartNext]_restartVars => [CrashNext]_controlVars  BY RestartStep
<1>. QED  BY <1>1, <1>2, RestartInvariant, PTL DEF RestartSpec, CrashSpec

\* So stops at any point never cost a slot too many, never hide a reservation and
\* never let the owner pass the budget.
THEOREM RestartIsBounded == RestartSpec => [](ConcurrencyBound /\ LedgerCovers /\ BudgetEdge)
BY RestartImplementsCrash, ConcurrencyBounded, LedgerAlwaysCovers,
   BudgetHoldsOverLosses, PTL

\* What holds of the tasks holds over stops: no startup revives a cancelled task, and
\* no checkpoint that survives its process takes a task past undelivered work.
THEOREM RestartKeepsTasks ==
  RestartSpec => [](CancelledIsQuiet /\ ReviewAfterDelivery /\ CompletedOnAcceptance)
<1>1. FlowInv => CancelledIsQuiet /\ ReviewAfterDelivery /\ CompletedOnAcceptance
  BY RowsReview DEF FlowInv, Base, DeliveryInv
<1>. QED  BY <1>1, RestartInvariant, PTL

\* No startup does delivered work again.
THEOREM RestartKeepsDelivered == RestartSpec => DeliveredStays
<1>1. FlowInv /\ [RestartNext]_restartVars =>
        [\A e \in Execution : status[e] = "completed" /\ status'[e] # "completed" =>
           e = Lead[TaskOf(e)] /\ badReview[TaskOf(e)]]_vars
  BY RestartStep, CompletedKept, Roles DEF FlowInv
<1>. QED  BY <1>1, RestartInvariant, PTL DEF RestartSpec, DeliveredStays
=============================================================================
