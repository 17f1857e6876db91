------------------------------ MODULE Restart ------------------------------
(***************************************************************************)
(* TaskFlow in a process that stops and is started again (the lifespan of  *)
(* main.py).  A stop takes the threads, the locks and the workers of the   *)
(* supervisor with it; what was committed, and the checkpoints of the      *)
(* graphs, stay.  The startup reattaches or fails, one after the other,    *)
(* the executions whose Turn lost its owner, then it resumes the capacity  *)
(* queue, and only then a client is served.  Workers of reattached Turns   *)
(* run meanwhile.                                                          *)
(***************************************************************************)
EXTENDS TaskFlow

CONSTANTS
  Endpoint,   \* whether an App Server outlives the process, so that Turns reattach
  MaxCrashes  \* bound on stops

ASSUME RestartAssumption ==
  Endpoint \in BOOLEAN /\ MaxCrashes \in Nat /\ Task # {}

VARIABLES
  boot,     \* "up", "down", "recovers" or "resumes"
  orphans,  \* what recover_orphaned_runtime_executions still has to look at
  crashes

bootVars == <<boot, orphans, crashes>>
restartVars == <<vars, bootVars>>

RestartInit ==
  /\ FlowInit
  /\ boot = "up" /\ orphans = {} /\ crashes = 0

-----------------------------------------------------------------------------

\* The process stops, perhaps inside a submission.
Crash ==
  /\ boot # "down" /\ crashes < MaxCrashes
  /\ crashes' = crashes + 1
  /\ boot' = "down" /\ orphans' = {}
  /\ SubmissionLost \/ (submitting = None /\ UNCHANGED controlVars)
  /\ call' = [x \in Thread |-> NoCall]
  /\ pc' = [x \in Thread |-> "idle"] /\ job' = [x \in Thread |-> None]
  /\ draining' = {} /\ graphLock' = None /\ completing' = None
  /\ watched' = {}
  /\ UNCHANGED <<taskVars, checkpoint, created, calls>>

\* recover_orphaned_runtime_executions reads what waits on the Runtime.
Start ==
  /\ boot = "down"
  /\ boot' = "recovers"
  /\ orphans' = {e \in Execution : status[e] = "waiting" /\ ~capacityWait[e]}
  /\ UNCHANGED <<vars, crashes>>

\* The main thread, while it starts the process: a cancelling client's, as no
\* client is served before the startup is over.
Starter == Stopper(CHOOSE t \in Task : TRUE)

StarterIdle == pc[Starter] = "idle"

\* The Turn is still there: the adapter owns it again, and it is watched.
Reattach(e) ==
  /\ boot = "recovers" /\ StarterIdle /\ e \in orphans /\ Endpoint
  /\ completing = None
  /\ orphans' = orphans \ {e}
  /\ watched' = watched \cup {e}
  /\ UNCHANGED <<controlVars, taskVars, graphVars, threadVars, created, calls, boot,
                 crashes>>

\* It is not, or it waited for an approval: the execution fails, and the startup
\* drains the queue.  A cancellation that came first is left alone.
OrphanFails(e) ==
  /\ boot = "recovers" /\ StarterIdle /\ e \in orphans
  /\ orphans' = orphans \ {e}
  /\ IF taskStatus[TaskOf(e)] = "cancelled"
     THEN LockFree /\ UNCHANGED <<controlVars, taskStatus, pc, draining>>
     ELSE /\ Fail(e) /\ SetTask(TaskOf(e), "failed")
          /\ GoTo(Starter, "drain") /\ draining' = draining \cup {Starter}
  /\ UNCHANGED <<verdict, badReview, graphVars, job, locks, watched, created, calls, boot,
                 crashes>>

\* Mutant of ResumeQueue: the startup does not look at the queue.
ResumeQueueNever ==
  /\ boot = "recovers" /\ StarterIdle /\ orphans = {}
  /\ boot' = "resumes"
  /\ UNCHANGED <<vars, orphans, crashes>>

\* resume_deferred_runtime_executions.
ResumeQueue ==
  /\ boot = "recovers" /\ StarterIdle /\ orphans = {}
  /\ boot' = "resumes"
  /\ GoTo(Starter, "drain") /\ draining' = draining \cup {Starter}
  /\ UNCHANGED <<controlVars, taskVars, graphVars, job, locks, watched, created, calls,
                 orphans, crashes>>

Serve ==
  /\ boot = "resumes" /\ StarterIdle
  /\ boot' = "up"
  /\ UNCHANGED <<vars, orphans, crashes>>

-----------------------------------------------------------------------------

\* Before clients are served only the startup and the workers run.
StartupStep ==
  \/ \E x \in Thread : ThreadStep(x)
  \/ \E e \in Execution : ReportStep(e)

RestartNext ==
  \/ boot = "up" /\ FlowNext /\ UNCHANGED bootVars
  \/ boot \in {"recovers", "resumes"} /\ StartupStep /\ UNCHANGED bootVars
  \/ Crash \/ Start \/ ResumeQueue \/ Serve
  \/ \E e \in Execution : Reattach(e) \/ OrphanFails(e)

RestartSpec == RestartInit /\ [][RestartNext]_restartVars

-----------------------------------------------------------------------------
(* Properties; LedgerCovers of RuntimeControls is checked over restarts    *)
(* too.                                                                    *)

\* The process stopped after a node committed that it waits, before LangGraph wrote
\* its interrupt: no resume finds it, and the one that looks for it raises.
Severed(t) ==
  /\ crashes > 0 /\ taskStatus[t] = "waiting"
  /\ ExecutionsOf(t) \cap checkpoint[t].parked = {}

\* Once clients are served and nothing is going on, no slot is free while somebody
\* queues for one: neither a cancellation nor a startup may forget the queue.  Only
\* the resume of a severed task does, as it raises before the drain.
NoIdleSlotServing == boot = "up" /\ (\A t \in Task : ~Severed(t)) => NoIdleSlot

=============================================================================
