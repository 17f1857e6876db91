---------------------------- MODULE RuntimeTurns ----------------------------
(***************************************************************************)
(* The Turns of one task: the Codex adapter that starts, reattaches and    *)
(* interrupts them, the App Server session each has, the supervisor's      *)
(* worker that waits for its end, the approvals it asks a user for, and    *)
(* the end of it all: failure, retry, cancellation, shutdown, crash.       *)
(*                                                                         *)
(* What the orchestrator does with a result is TaskFlow's and PlanFlow's   *)
(* matter: here an execution is waiting or not.  The App Server behind a   *)
(* session is modelled from how the code uses it.  A step is a section     *)
(* under one lock, a database transaction or one message; a session is     *)
(* named by its Turn.                                                      *)
(***************************************************************************)
EXTENDS Naturals, Sequences, FiniteSets

CONSTANTS
  Execution,
  None,
  Client,      \* the caller of TaskOrchestrator.cancel
  Endpoints,   \* whether the App Server outlives the backend: a set of BOOLEAN
  Endings,     \* how a Turn may end by itself
  Refusals,    \* whether a completed delivery may be refused
  MaxTurns,    \* bound on the Turns of an execution
  MaxLosses,   \* bound on lost connections
  MaxCrashes   \* bound on crashes and shutdowns of the backend

Turn == 1..MaxTurns
Worker == Execution \X Turn
Caller == {Client} \cup Worker

ASSUME TurnsAssumption ==
  /\ None \notin Execution \cup ({"waiting", "completed"} \X Turn) \cup 0..MaxTurns
  /\ Client \notin Worker
  /\ Endpoints \subseteq BOOLEAN /\ Refusals \in BOOLEAN
  /\ Endings \subseteq {"completed", "silent", "failed"}
  /\ MaxTurns \in Nat \ {0} /\ MaxLosses \in Nat /\ MaxCrashes \in Nat

VARIABLES
  task,        \* Task.status
  exec,        \* RuntimeExecution.status
  turn,        \* RuntimeExecution.turn_id, 0 for none
  refused,     \* executions whose delivery was refused
  spent,       \* the Turn an execution had when it was retried last
  failures,    \* the Turns in runtime.execution_failed events
  approval,    \* ApprovalRequest.status of each Turn
  unconfirmed, \* executions with a runtime.execution_cancel_failed event
  server,      \* each Turn in the App Server
  session,     \* the connection of each Turn
  active,      \* CodexRuntimeAdapter._active: the Turn owned, 0 for none
  submitting,  \* the node that holds the execution lock over execute
  returned,    \* what execute returned to it
  threads,     \* CodexRuntimeSupervisor._threads: the Turn watched last
  worker,      \* where the worker of each Turn is
  waiters,     \* RuntimeApprovalCoordinator._waiters
  woken,       \* the events among them that are set
  cancelling,  \* where each call of cancel is
  closing,     \* how far shutdown got
  up,          \* the backend finished its startup
  orphans,     \* waiting executions startup has yet to look at
  endpoint,    \* app_server_endpoint is set
  losses, crashes

product == <<task, exec, turn, refused, spent, failures, approval, unconfirmed>>
adapter == <<session, active>>
node == <<submitting, returned>>
watching == <<threads, worker>>
asking == <<waiters, woken>>
backend == <<closing, up, orphans, endpoint>>
bounds == <<losses, crashes>>
vars == <<product, server, adapter, node, watching, asking, cancelling, backend,
          bounds>>

\* A prompt is orphaned when recover_orphaned_approvals cancels it.
Decisions == {"accept", "decline", "cancel", "orphaned"}
ServerStatus == {"none", "running", "asking", "completed", "silent", "failed",
                 "interrupted", "lost"}
Ended == {"completed", "silent", "failed", "interrupted"}
Live == {"running", "asking"}
Places == {"none", "starts", "waits", "asks", "reads", "sleeps", "answers",
           "completes", "resumes", "lost", "fails", "persists", "cancels", "errors",
           "closes", "ended"}

\* inbox: messages the reader thread queued; ack: cancellation_acknowledged;
\* done: the completion kept by the adapter.
NoSession == [open |-> FALSE, inbox |-> <<>>, ack |-> FALSE, done |-> FALSE]
NoCancel == [at |-> "none", targets |-> {}, sent |-> None]

\* A worker of Turn 0 was started when the adapter owned no Turn.
TurnTypeOK ==
  /\ task \in {"waiting", "failed", "cancelled"}
  /\ exec \in [Execution -> {"submitted", "running", "waiting", "completed",
                             "failed", "cancelled"}]
  /\ turn \in [Execution -> 0..MaxTurns] /\ spent \in [Execution -> 0..MaxTurns]
  /\ refused \subseteq Execution /\ unconfirmed \subseteq Execution /\ failures \subseteq Worker
  /\ approval \in [Execution -> [Turn -> Decisions \cup {"none", "pending"}]]
  /\ server \in [Execution -> [Turn -> ServerStatus]]
  /\ \A e \in Execution, t \in Turn :
       /\ session[e][t].open \in BOOLEAN /\ session[e][t].ack \in BOOLEAN
       /\ session[e][t].done \in BOOLEAN
       /\ session[e][t].inbox \in {<<>>, <<"ask">>, <<"end">>, <<"ask", "end">>}
  /\ active \in [Execution -> 0..MaxTurns]
  /\ submitting \in Execution \cup {None}
  /\ returned \in {None} \cup ({"waiting", "completed"} \X Turn)
  /\ threads \in [Execution -> {None} \cup 0..MaxTurns]
  /\ worker \in [Execution -> [0..MaxTurns -> Places]]
  /\ waiters \subseteq Execution \X Turn /\ woken \subseteq waiters
  /\ \A c \in Caller :
       /\ cancelling[c].at \in {"none", "dispatch", "refused", "accepted", "records"}
       /\ cancelling[c].targets \subseteq Execution
  /\ closing \in {"no", "approvals", "supervisor"}
  /\ up \in BOOLEAN /\ endpoint \in BOOLEAN /\ orphans \subseteq Execution
  /\ losses \in 0..MaxLosses /\ crashes \in 0..MaxCrashes

TurnInit ==
  /\ task = "waiting" /\ exec = [e \in Execution |-> "submitted"]
  /\ turn = [e \in Execution |-> 0] /\ spent = [e \in Execution |-> 0]
  /\ refused = {} /\ unconfirmed = {} /\ failures = {}
  /\ approval = [e \in Execution |-> [t \in Turn |-> "none"]]
  /\ server = [e \in Execution |-> [t \in Turn |-> "none"]]
  /\ session = [e \in Execution |-> [t \in Turn |-> NoSession]]
  /\ active = [e \in Execution |-> 0] /\ submitting = None /\ returned = None
  /\ threads = [e \in Execution |-> None]
  /\ worker = [e \in Execution |-> [t \in 0..MaxTurns |-> "none"]]
  /\ waiters = {} /\ woken = {}
  /\ cancelling = [c \in Caller |-> NoCancel]
  /\ closing = "no" /\ up = TRUE /\ orphans = {} /\ endpoint \in Endpoints
  /\ losses = 0 /\ crashes = 0

-----------------------------------------------------------------------------
(* Shared steps.                                                           *)

\* The product's mutation lock.
Unlocked == submitting = None

GoTo(e, t, place) == worker' = [worker EXCEPT ![e][t] = place]

\* CodexAppServerSession.close: a process that the session owns dies with it.
Dies(e, t) == IF ~endpoint /\ server[e][t] \in Live THEN "lost" ELSE server[e][t]

Hangs(e, t) ==
  /\ session' = [session EXCEPT ![e][t].open = FALSE]
  /\ server' = [server EXCEPT ![e][t] = Dies(e, t)]

\* Mutant of CloseExecution: whatever is active is closed.
CloseExecutionAny(e, t) ==
  IF active[e] # 0
  THEN Hangs(e, active[e]) /\ active' = [active EXCEPT ![e] = 0]
  ELSE UNCHANGED <<adapter, server>>

\* close_execution: a newer Turn of the execution is left alone.
CloseExecution(e, t) ==
  IF active[e] # 0 /\ t \in {0, active[e]}
  THEN Hangs(e, active[e]) /\ active' = [active EXCEPT ![e] = 0]
  ELSE UNCHANGED <<adapter, server>>

\* What the reader thread queues for the worker.
Says(e, t, message) ==
  IF session[e][t].open
  THEN session' = [session EXCEPT ![e][t].inbox = Append(@, message)]
  ELSE UNCHANGED session

Heard(e, t) == session' = [session EXCEPT ![e][t].inbox = Tail(@)]
Hears(e, t, message) ==
  session[e][t].inbox # <<>> /\ Head(session[e][t].inbox) = message

\* The error of a lost connection, and of one whose interrupt was accepted.
Loses(e, t) == GoTo(e, t, IF session[e][t].ack THEN "cancels" ELSE "lost")

FailExecution(e) ==
  exec' = [exec EXCEPT ![e] = "failed"] /\ task' = "failed"

\* fail_runtime_execution: the event names the Turn; a task that was cancelled, and
\* an execution that does not wait, stay as they are.
FailTurn(e, t) ==
  IF exec[e] = "waiting" /\ task # "cancelled"
  THEN FailExecution(e) /\ failures' = failures \cup {<<e, t>>}
  ELSE UNCHANGED <<exec, task, failures>>

-----------------------------------------------------------------------------
(* Submission: _execute_assignment calls execute under its lock.           *)

Started(e) == Cardinality({t \in Turn : server[e][t] # "none"})

\* The node commits running; one that a crash cut off after that is entered again.
\* It returns at once for a cancelled task only: a sibling's failure does not stop it.
Submit(e) ==
  /\ up /\ closing # "supervisor" /\ Unlocked
  /\ task # "cancelled" /\ exec[e] \in {"submitted", "running"}
  /\ active[e] # 0 \/ Started(e) < MaxTurns
  /\ exec' = [exec EXCEPT ![e] = "running"]
  /\ submitting' = e
  /\ UNCHANGED <<task, turn, refused, spent, failures, approval, unconfirmed, server, adapter,
                 returned, watching, asking, cancelling, backend, bounds>>

\* execute: the Turn that is active already, or a new one.
Execute(e) ==
  /\ submitting = e /\ returned = None
  /\ \/ /\ active[e] # 0
        /\ returned' = <<IF session[e][active[e]].done THEN "completed" ELSE "waiting",
                         active[e]>>
        /\ UNCHANGED <<server, adapter>>
     \/ /\ active[e] = 0 /\ Started(e) < MaxTurns
        /\ LET t == Started(e) + 1 IN
           /\ server' = [server EXCEPT ![e][t] = "running"]
           /\ session' = [session EXCEPT ![e][t].open = TRUE]
           /\ active' = [active EXCEPT ![e] = t]
           /\ returned' = <<"waiting", t>>
  /\ UNCHANGED <<product, submitting, watching, asking, cancelling, backend, bounds>>

\* execute raised: no connection, or the answer was refused.
ExecuteFails(e) ==
  /\ submitting = e /\ returned = None /\ active[e] = 0
  /\ FailExecution(e)
  /\ submitting' = None
  /\ UNCHANGED <<turn, refused, spent, failures, approval, unconfirmed, server, adapter,
                 returned, watching, asking, cancelling, backend, bounds>>

\* The node commits what it got; a Turn to wait for makes the task wait again,
\* whatever failed meanwhile.
Commit(e) ==
  /\ submitting = e /\ returned # None
  /\ exec' = [exec EXCEPT ![e] = returned[1]]
  /\ task' = IF returned[1] = "waiting" THEN "waiting" ELSE task
  /\ turn' = [turn EXCEPT ![e] = returned[2]]
  /\ submitting' = None /\ returned' = None
  /\ UNCHANGED <<refused, spent, failures, approval, unconfirmed, server, adapter,
                 watching, asking, cancelling, backend, bounds>>

\* retry: every failed assignment.
Retry ==
  LET again == {e \in Execution : exec[e] = "failed"} \cup refused IN
  /\ up /\ closing = "no" /\ Unlocked /\ task = "failed" /\ again # {}
  /\ task' = "waiting" /\ refused' = {}
  /\ exec' = [e \in Execution |-> IF e \in again THEN "submitted" ELSE exec[e]]
  /\ spent' = [e \in Execution |-> IF e \in again THEN turn[e] ELSE spent[e]]
  /\ turn' = [e \in Execution |-> IF e \in again THEN 0 ELSE turn[e]]
  /\ UNCHANGED <<failures, approval, unconfirmed, server, adapter, node, watching, asking,
                 cancelling, backend, bounds>>

-----------------------------------------------------------------------------
(* The App Server.                                                         *)

ServerAsks(e, t) ==
  /\ server[e][t] = "running" /\ approval[e][t] = "none" /\ session[e][t].open
  /\ server' = [server EXCEPT ![e][t] = "asking"]
  /\ Says(e, t, "ask")
  /\ UNCHANGED <<product, active, node, watching, asking, cancelling, backend, bounds>>

ServerEnds(e, t) ==
  /\ server[e][t] = "running"
  /\ \E how \in Endings : server' = [server EXCEPT ![e][t] = how]
  /\ Says(e, t, "end")
  /\ UNCHANGED <<product, active, node, watching, asking, cancelling, backend, bounds>>

\* The process exits, or the socket breaks.
ConnectionLost(e, t) ==
  /\ session[e][t].open /\ losses < MaxLosses /\ losses' = losses + 1
  /\ Hangs(e, t)
  /\ UNCHANGED <<product, active, node, watching, asking, cancelling, backend, crashes>>

-----------------------------------------------------------------------------
(* CodexRuntimeSupervisor and wait_for_completion.                         *)

\* Mutant of Watch: one worker per execution.
WatchOnce(e) ==
  /\ threads[e] = None
  /\ threads' = [threads EXCEPT ![e] = active[e]]
  /\ GoTo(e, active[e], "starts")

\* watch: at most one worker per Turn.
Watch(e) ==
  /\ threads[e] = None \/ (active[e] # 0 /\ threads[e] # active[e])
  /\ threads' = [threads EXCEPT ![e] = active[e]]
  /\ GoTo(e, active[e], "starts")

\* _watch_waiting_executions after a parked node or a replay.
WatchWaiting(e) ==
  /\ up /\ closing # "supervisor" /\ task = "waiting"
  /\ exec[e] = "waiting" /\ turn[e] # 0
  /\ Watch(e)
  /\ UNCHANGED <<product, server, adapter, node, asking, cancelling, backend, bounds>>

WorkerFrame == UNCHANGED <<node, threads, cancelling, backend, bounds>>

\* The worker looks its Turn up.
WorkerStarts(e, t) ==
  /\ worker[e][t] = "starts"
  /\ GoTo(e, t, IF active[e] # 0 /\ t \in {0, active[e]} THEN "waits" ELSE "errors")
  /\ WorkerFrame /\ UNCHANGED <<product, server, adapter, asking>>

\* The terminal notification; a Turn without a message of the agent raises.
WorkerHearsEnd(e, t) ==
  /\ worker[e][t] = "waits" /\ Hears(e, t, "end")
  /\ session' = [session EXCEPT ![e][t].inbox = Tail(@),
                                ![e][t].done = (server[e][t] = "completed")]
  /\ GoTo(e, t, CASE server[e][t] = "completed" -> "completes"
                  [] server[e][t] = "silent" -> "errors"
                  [] server[e][t] = "interrupted" -> "cancels"
                  [] OTHER -> "fails")
  /\ WorkerFrame /\ UNCHANGED <<product, server, active, asking>>

WorkerLoses(e, t) ==
  /\ worker[e][t] = "waits" /\ session[e][t].inbox = <<>> /\ ~session[e][t].open
  /\ Loses(e, t)
  /\ WorkerFrame /\ UNCHANGED <<product, server, adapter, asking>>

Closed == closing = "supervisor"

\* complete_runtime_execution.
WorkerCompletes(e, t) ==
  LET late == Closed \/ exec[e] = "cancelled" \/ task = "cancelled" IN
  /\ worker[e][t] = "completes" /\ Unlocked
  /\ exec' = IF ~late /\ exec[e] = "waiting" THEN [exec EXCEPT ![e] = "completed"] ELSE exec
  /\ GoTo(e, t, CASE late -> "closes"
                  [] ~late /\ exec[e] = "waiting" -> "resumes"
                  [] OTHER -> "errors")
  /\ WorkerFrame
  /\ UNCHANGED <<task, turn, refused, spent, failures, approval, unconfirmed, server, adapter,
                 asking>>

\* The graph goes on; it may refuse the delivery.
WorkerResumes(e, t) ==
  /\ worker[e][t] = "resumes"
  /\ \/ UNCHANGED <<task, refused>>
     \/ /\ Refusals /\ Unlocked /\ task = "waiting"
        /\ task' = "failed" /\ refused' = refused \cup {e}
  /\ GoTo(e, t, "closes")
  /\ WorkerFrame
  /\ UNCHANGED <<exec, turn, spent, failures, approval, unconfirmed, server, adapter, asking>>

\* A Turn lost by shutdown is left to the next startup.
WorkerLost(e, t) ==
  /\ worker[e][t] = "lost"
  /\ GoTo(e, t, IF Closed THEN "closes" ELSE "fails")
  /\ WorkerFrame /\ UNCHANGED <<product, server, adapter, asking>>

\* Mutant of WorkerFails: the failure is persisted before the Turn is closed.
WorkerFailsOpen(e, t) ==
  /\ worker[e][t] = "fails"
  /\ GoTo(e, t, "persists")
  /\ WorkerFrame /\ UNCHANGED <<product, server, adapter, asking>>

\* _record_runtime_failure closes first, so that a retry starts a new Turn.
WorkerFails(e, t) ==
  /\ worker[e][t] = "fails"
  /\ CloseExecution(e, t)
  /\ GoTo(e, t, "persists")
  /\ WorkerFrame /\ UNCHANGED <<product, asking>>

WorkerPersists(e, t) ==
  /\ worker[e][t] = "persists" /\ Unlocked
  /\ FailTurn(e, t)
  /\ GoTo(e, t, "closes")
  /\ WorkerFrame
  /\ UNCHANGED <<turn, refused, spent, approval, unconfirmed, server, adapter, asking>>

\* record_runtime_watch_error: an event, and the execution stays as it is.
WorkerErrs(e, t) ==
  /\ worker[e][t] = "errors" /\ Unlocked
  /\ GoTo(e, t, "closes")
  /\ WorkerFrame /\ UNCHANGED <<product, server, adapter, asking>>

WorkerCloses(e, t) ==
  /\ worker[e][t] = "closes"
  /\ CloseExecution(e, t)
  /\ GoTo(e, t, "ended")
  /\ WorkerFrame /\ UNCHANGED <<product, asking>>


-----------------------------------------------------------------------------
(* Approvals: the worker asks and sleeps, a user decides.                  *)

Decided(e, t) == approval[e][t] \in Decisions

\* Mutant of Leaves: the event stays set for whoever comes next.
LeavesWoken(e, t) == waiters' = waiters \ {<<e, t>>} /\ UNCHANGED woken

Leaves(e, t) == waiters' = waiters \ {<<e, t>>} /\ woken' = woken \ {<<e, t>>}

WorkerHearsAsk(e, t) ==
  /\ worker[e][t] = "waits" /\ Hears(e, t, "ask")
  /\ Heard(e, t)
  /\ GoTo(e, t, "asks")
  /\ WorkerFrame /\ UNCHANGED <<product, server, active, asking>>

\* Mutant of WorkerAsks: the state of the task is not read again.
WorkerAsksUnchecked(e, t) ==
  /\ worker[e][t] = "asks" /\ Unlocked
  /\ approval' = [approval EXCEPT ![e][t] = IF @ = "none" THEN "pending" ELSE @]
  /\ waiters' = waiters \cup {<<e, t>>} /\ UNCHANGED woken
  /\ GoTo(e, t, "reads")
  /\ WorkerFrame
  /\ UNCHANGED <<task, exec, turn, refused, spent, failures, unconfirmed, server, adapter>>

\* request_approval: a cancelled task answers for its user.
WorkerAsks(e, t) ==
  /\ worker[e][t] = "asks" /\ Unlocked
  /\ LET mine == exec[e] = "waiting" /\ turn[e] = t IN
     \/ /\ closing # "no" \/ (task # "cancelled" /\ ~mine)
        /\ GoTo(e, t, "errors") /\ UNCHANGED <<approval, waiters>>
     \/ /\ closing = "no"
        /\ task = "cancelled" \/ (mine /\ Decided(e, t))
        /\ GoTo(e, t, "answers") /\ UNCHANGED <<approval, waiters>>
     \/ /\ closing = "no" /\ task # "cancelled" /\ mine /\ ~Decided(e, t)
        /\ approval' = [approval EXCEPT ![e][t] = "pending"]
        /\ waiters' = waiters \cup {<<e, t>>}
        /\ GoTo(e, t, "reads")
  /\ UNCHANGED woken
  /\ WorkerFrame
  /\ UNCHANGED <<task, exec, turn, refused, spent, failures, unconfirmed, server, adapter>>

\* The loop of request_approval: it reads, sleeps, and is woken to read again.
WorkerReads(e, t) ==
  /\ worker[e][t] = "reads"
  /\ IF Decided(e, t)
     THEN GoTo(e, t, "answers") /\ Leaves(e, t)
     ELSE GoTo(e, t, "sleeps") /\ UNCHANGED asking
  /\ WorkerFrame /\ UNCHANGED <<product, server, adapter>>

WorkerWakes(e, t) ==
  /\ worker[e][t] = "sleeps" /\ <<e, t>> \in woken
  /\ woken' = woken \ {<<e, t>>} /\ UNCHANGED waiters
  /\ GoTo(e, t, "reads")
  /\ WorkerFrame /\ UNCHANGED <<product, server, adapter>>

\* respond_server_request; to cancel a prompt is to interrupt its Turn.
WorkerAnswers(e, t) ==
  /\ worker[e][t] = "answers"
  /\ IF ~session[e][t].open
     THEN Loses(e, t) /\ UNCHANGED <<server, session>>
     ELSE /\ GoTo(e, t, "waits")
          /\ IF server[e][t] # "asking"
             THEN UNCHANGED <<server, session>>
             ELSE IF approval[e][t] \in {"accept", "decline"}
             THEN server' = [server EXCEPT ![e][t] = "running"] /\ UNCHANGED session
             ELSE server' = [server EXCEPT ![e][t] = "interrupted"] /\ Says(e, t, "end")
  /\ WorkerFrame /\ UNCHANGED <<product, active, asking>>

\* decide.
Decide(e, t) ==
  /\ up /\ closing = "no" /\ Unlocked
  /\ approval[e][t] = "pending" /\ <<e, t>> \in waiters /\ exec[e] = "waiting"
  /\ \E d \in Decisions \ {"orphaned"} : approval' = [approval EXCEPT ![e][t] = d]
  /\ woken' = woken \cup {<<e, t>>} /\ UNCHANGED waiters
  /\ UNCHANGED <<task, exec, turn, refused, spent, failures, unconfirmed, server, adapter, node,
                 watching, cancelling, backend, bounds>>

-----------------------------------------------------------------------------
(* Cancellation, by a client or by a worker whose Turn was interrupted.    *)

Pends(e, t) == approval[e][t] = "pending"
Resolve(which, decision) ==
  approval' = [e \in Execution |-> [t \in Turn |->
                 IF Pends(e, t) /\ <<e, t>> \in which THEN decision ELSE approval[e][t]]]
Withdraw(which) == Resolve(which, "cancel")

\* _persist_task_cancellation: what runs is to be interrupted, ender excepted.
CancelExecutions(ender) ==
  /\ exec' = [e \in Execution |->
                IF exec[e] = "completed" THEN "completed" ELSE "cancelled"]
  /\ task' = "cancelled"
  /\ unconfirmed' = unconfirmed \ ender

\* Mutant of Interrupted: an interrupted Turn ends nothing but itself.
InterruptedAlone(ender) ==
  IF task = "cancelled" \/ ender # {} THEN {}
  ELSE {e \in Execution : exec[e] \in {"running", "waiting"}}

Interrupted(ender) ==
  IF task = "cancelled" THEN {}
  ELSE {e \in Execution : exec[e] \in {"running", "waiting"}} \ ender

Cancels(c, targets) ==
  cancelling' = [cancelling EXCEPT ![c].at = "dispatch", ![c].targets = targets]

\* cancel: a repeated call asks again for what was not confirmed.
Cancel ==
  /\ up /\ closing = "no" /\ Unlocked
  /\ cancelling[Client].at = "none" /\ task # "failed"
  /\ task = "cancelled" => unconfirmed # {}
  /\ CancelExecutions({})
  /\ Cancels(Client, IF task = "cancelled" THEN unconfirmed ELSE Interrupted({}))
  /\ UNCHANGED <<turn, refused, spent, failures, approval, server, adapter, node, watching,
                 asking, backend, bounds>>

\* cancel_runtime_execution; a failed task stays as it is.
WorkerCancels(e, t) ==
  /\ worker[e][t] = "cancels" /\ cancelling[<<e, t>>].at = "none"
  /\ \/ /\ Closed
        /\ GoTo(e, t, "closes") /\ UNCHANGED <<task, exec, unconfirmed, cancelling>>
     \/ /\ ~Closed /\ Unlocked /\ task = "failed"
        /\ Cancels(<<e, t>>, {})
        /\ UNCHANGED <<task, exec, unconfirmed, worker>>
     \/ /\ ~Closed /\ Unlocked /\ task # "failed"
        /\ CancelExecutions({e})
        /\ Cancels(<<e, t>>, Interrupted({e}))
        /\ UNCHANGED worker
  /\ UNCHANGED <<turn, refused, spent, failures, approval, server, adapter, node, threads, asking,
                 backend, bounds>>

\* adapter.cancel: the App Server accepts it for a Turn that still runs.
Dispatch(c) ==
  /\ cancelling[c].at = "dispatch"
  /\ \E e \in cancelling[c].targets :
       LET t == active[e]
           ok == t # 0 /\ session[e][t].open /\ server[e][t] \in Live IN
       /\ cancelling' = [cancelling EXCEPT
                           ![c].at = IF ok THEN "accepted" ELSE "refused",
                           ![c].targets = @ \ {e}, ![c].sent = <<e, t>>]
       /\ IF ok
          THEN server' = [server EXCEPT ![e][t] = "interrupted"] /\ Says(e, t, "end")
          ELSE UNCHANGED <<server, session>>
  /\ UNCHANGED <<product, active, node, watching, asking, backend, bounds>>

\* Only the Turn that was interrupted is marked.
Acknowledged(c) ==
  LET e == cancelling[c].sent[1]
      t == cancelling[c].sent[2] IN
  /\ cancelling[c].at = "accepted"
  /\ session' = IF active[e] = t THEN [session EXCEPT ![e][t].ack = TRUE] ELSE session
  /\ cancelling' = [cancelling EXCEPT ![c].at = "records"]
  /\ UNCHANGED <<product, server, active, node, watching, asking, backend, bounds>>

\* _record_runtime_cancel_dispatch.
RecordDispatch(c) ==
  LET e == cancelling[c].sent[1] IN
  /\ cancelling[c].at \in {"refused", "records"} /\ Unlocked
  /\ unconfirmed' = IF cancelling[c].at = "refused"
                    THEN unconfirmed \cup {e} ELSE unconfirmed \ {e}
  /\ cancelling' = [cancelling EXCEPT ![c].at = "dispatch", ![c].sent = None]
  /\ UNCHANGED <<task, exec, turn, refused, spent, failures, approval, server, adapter, node,
                 watching, asking, backend, bounds>>

CancelEnds(c) ==
  /\ cancelling' = [cancelling EXCEPT ![c] = NoCancel]
  /\ IF c = Client THEN UNCHANGED worker ELSE GoTo(c[1], c[2], "closes")
  /\ UNCHANGED <<task, exec, turn, refused, spent, failures, unconfirmed, server, adapter, node,
                 threads, backend, bounds>>

\* Mutant of CancelApprovals: the sleeping workers are not woken.
CancelApprovalsQuietly(c) ==
  /\ cancelling[c].at = "dispatch" /\ cancelling[c].targets = {} /\ Unlocked
  /\ Withdraw(Worker)
  /\ UNCHANGED asking
  /\ CancelEnds(c)

\* RuntimeApprovalCoordinator.cancel_task.
CancelApprovals(c) ==
  /\ cancelling[c].at = "dispatch" /\ cancelling[c].targets = {} /\ Unlocked
  /\ Withdraw(Worker)
  /\ woken' = woken \cup {w \in waiters : Pends(w[1], w[2])} /\ UNCHANGED waiters
  /\ CancelEnds(c)

-----------------------------------------------------------------------------
(* Shutdown, crash and startup.                                            *)

CloseApprovals ==
  /\ up /\ closing = "no" /\ crashes < MaxCrashes
  /\ Unlocked /\ cancelling[Client].at = "none"
  /\ closing' = "approvals"
  /\ Withdraw(waiters) /\ woken' = waiters
  /\ UNCHANGED <<task, exec, turn, refused, spent, failures, unconfirmed, server, adapter, node,
                 watching, waiters, cancelling, up, orphans, endpoint, bounds>>

\* CodexRuntimeSupervisor.close; a completion holds its lock to the end.
CloseSupervisor ==
  /\ closing = "approvals"
  /\ \A e \in Execution, t \in 0..MaxTurns : worker[e][t] # "resumes"
  /\ closing' = "supervisor"
  /\ session' = [e \in Execution |-> [t \in Turn |->
                    IF t = active[e] THEN [session[e][t] EXCEPT !.open = FALSE]
                    ELSE session[e][t]]]
  /\ server' = [e \in Execution |-> [t \in Turn |->
                   IF t = active[e] THEN Dies(e, t) ELSE server[e][t]]]
  /\ active' = [e \in Execution |-> 0]
  /\ UNCHANGED <<product, node, watching, asking, cancelling, up, orphans, endpoint,
                 bounds>>

\* All that was in memory is gone, the processes behind pipes with it.
Stop ==
  /\ server' = [e \in Execution |-> [t \in Turn |-> Dies(e, t)]]
  /\ session' = [e \in Execution |-> [t \in Turn |-> NoSession]]
  /\ active' = [e \in Execution |-> 0] /\ submitting' = None /\ returned' = None
  /\ threads' = [e \in Execution |-> None]
  /\ worker' = [e \in Execution |-> [t \in 0..MaxTurns |-> "none"]]
  /\ waiters' = {} /\ woken' = {}
  /\ cancelling' = [c \in Caller |-> NoCancel]
  /\ closing' = "no" /\ up' = FALSE
  /\ orphans' = {e \in Execution : exec[e] = "waiting" /\ turn[e] # 0}
  /\ crashes' = crashes + 1
  /\ UNCHANGED <<product, endpoint, losses>>

Crash == up /\ closing # "supervisor" /\ crashes < MaxCrashes /\ Stop
Exit == closing = "supervisor" /\ Stop

\* CodexRuntimeAdapter.recover and the watch of what it reattached.
Reattach(e) ==
  LET t == turn[e] IN
  /\ ~up /\ e \in orphans /\ endpoint /\ ~Pends(e, t) /\ server[e][t] # "lost"
  /\ orphans' = orphans \ {e}
  /\ session' = [session EXCEPT ![e][t] =
                    [open |-> TRUE, ack |-> FALSE, done |-> FALSE,
                     inbox |-> CASE server[e][t] \in Ended -> <<"end">>
                                 [] server[e][t] = "asking" -> <<"ask">>
                                 [] OTHER -> <<>>]]
  /\ active' = [active EXCEPT ![e] = t]
  /\ threads' = [threads EXCEPT ![e] = t] /\ GoTo(e, t, "starts")
  /\ UNCHANGED <<product, server, node, asking, cancelling, closing, up, endpoint, bounds>>

\* Pending approvals, no endpoint, or an endpoint that does not know the Turn.
Orphaned(e) ==
  /\ ~up /\ e \in orphans /\ Unlocked
  /\ orphans' = orphans \ {e}
  /\ FailTurn(e, turn[e])
  /\ UNCHANGED <<turn, refused, spent, approval, unconfirmed, server, adapter, node,
                 watching, asking, cancelling, closing, up, endpoint, bounds>>

\* recover_orphaned_approvals ends the startup, and wakes nobody: workers that were
\* reattached may ask, and cancel the task, before it.
Startup ==
  /\ ~up /\ orphans = {} /\ Unlocked
  /\ Resolve({w \in Worker : exec[w[1]] # "waiting"}, "orphaned")
  /\ up' = TRUE
  /\ UNCHANGED <<task, exec, turn, refused, spent, failures, unconfirmed, server, adapter, node,
                 watching, asking, cancelling, closing, orphans, endpoint, bounds>>

-----------------------------------------------------------------------------
NodeSteps(e) == Submit(e) \/ Execute(e) \/ ExecuteFails(e) \/ Commit(e) \/ WatchWaiting(e)

AskSteps(e, t) ==
  \/ WorkerHearsAsk(e, t) \/ WorkerAsks(e, t) \/ WorkerReads(e, t) \/ WorkerWakes(e, t)
  \/ WorkerAnswers(e, t)

TurnSteps(e, t) ==
  \/ WorkerHearsEnd(e, t) \/ WorkerLoses(e, t) \/ WorkerCancels(e, t) \/ AskSteps(e, t)

WorkerSteps(e, t) ==
  \/ WorkerStarts(e, t) \/ WorkerCompletes(e, t) \/ WorkerResumes(e, t)
  \/ WorkerLost(e, t) \/ WorkerFails(e, t) \/ WorkerPersists(e, t) \/ WorkerErrs(e, t)
  \/ WorkerCloses(e, t)

CancelSteps(c) ==
  Dispatch(c) \/ Acknowledged(c) \/ RecordDispatch(c) \/ CancelApprovals(c)

ServerSteps(e, t) == ServerAsks(e, t) \/ ServerEnds(e, t) \/ ConnectionLost(e, t)

StopSteps == CloseSupervisor \/ Exit

StartSteps == (\E e \in Execution : Reattach(e) \/ Orphaned(e)) \/ Startup

Next ==
  \/ \E e \in Execution :
       \/ NodeSteps(e)
       \/ \E t \in Turn : ServerSteps(e, t) \/ Decide(e, t) \/ TurnSteps(e, t)
       \/ \E t \in 0..MaxTurns : WorkerSteps(e, t)
  \/ \E c \in Caller : CancelSteps(c)
  \/ Retry \/ Cancel \/ CloseApprovals \/ Crash \/ StopSteps \/ StartSteps

Spec == TurnInit /\ [][Next]_vars

\* A worker that a user keeps waiting is scheduled.
PromptSpec == Spec /\ \A e \in Execution, t \in Turn : WF_vars(AskSteps(e, t))

\* Threads are scheduled, a shutdown and a startup come to their end, and a graph
\* whose only node parks returns to run or resume, which watch its Turn; a model, a
\* user and a connection may be idle for ever.
FairSpec ==
  /\ Spec
  /\ \A e \in Execution : WF_vars(Execute(e)) /\ WF_vars(Commit(e)) /\ WF_vars(WatchWaiting(e))
  /\ \A e \in Execution, t \in Turn : WF_vars(TurnSteps(e, t))
  /\ \A e \in Execution, t \in 0..MaxTurns : WF_vars(WorkerSteps(e, t))
  /\ \A c \in Caller : WF_vars(CancelSteps(c))
  /\ WF_vars(StopSteps) /\ WF_vars(StartSteps)

-----------------------------------------------------------------------------
(* Properties.                                                             *)

Reporting == {"starts", "waits", "asks", "reads", "sleeps", "answers", "completes",
              "resumes", "lost", "fails", "persists", "cancels"}

\* A waiting execution belongs to somebody while the backend serves: the adapter
\* owns its Turn, or the worker of that Turn has yet to report its end.  A worker
\* that closes an execution must therefore not close a newer Turn of it.  Two
\* ends leave it waiting in the code: a Turn that completed without a message of
\* the agent, and one interrupted in a task that failed already.
WaitingIsOwned ==
  \A e \in Execution :
    LET t == turn[e] IN
    (/\ up /\ closing = "no" /\ exec[e] = "waiting"
     /\ server[e][t] \notin {"silent", "interrupted"})
      => active[e] = t \/ worker[e][t] \in Reporting

\* What a retried execution waits for or ends with is a Turn begun after the
\* retry, never an answer of the Turn that failed.
FreshAnswers ==
  \A e \in Execution : exec[e] \in {"waiting", "completed"} => turn[e] > spent[e]

\* Once a cancellation is over no prompt of the task is left for a user, however
\* late a worker came to ask and whatever a crash cut off.
CancelledHasNoPrompts ==
  (up /\ task = "cancelled" /\ \A c \in Caller : cancelling[c].at = "none")
    => \A e \in Execution, t \in Turn : ~Pends(e, t)

\* While nothing crashed, every Turn that runs on after the cancellation of its
\* task is on record: its interrupt is unconfirmed, so that a repeated cancellation
\* asks again, or its execution failed with it, by a lost connection.  The latter
\* nobody interrupts, when the task waits again for a sibling or was retried.
CancelCovers ==
  \A e \in Execution, t \in Turn :
    (/\ crashes = 0 /\ task = "cancelled" /\ server[e][t] \in Live
     /\ \A c \in Caller : cancelling[c].at = "none")
      => e \in unconfirmed \/ <<e, t>> \in failures

\* A worker that sleeps on a prompt is woken once the prompt is resolved, by the
\* user, a cancellation or a shutdown; not by the startup, which sets no event.
SleepersWake ==
  \A e \in Execution, t \in Turn :
    (worker[e][t] = "sleeps" /\ Decided(e, t) /\ approval[e][t] # "orphaned")
      ~> worker[e][t] # "sleeps"

\* The end of a Turn reaches its execution, through lost connections, shutdowns,
\* crashes and what startup finds, unless its worker waits for a user.  For a task
\* with one execution: a Turn that is interrupted after a sibling failed the task is
\* reported to nobody.
TurnsAreReported ==
  \A e \in Execution :
    (/\ task = "waiting" /\ exec[e] = "waiting" /\ ~Pends(e, turn[e])
     /\ server[e][turn[e]] \in {"completed", "failed", "interrupted", "lost"})
      ~> (exec[e] # "waiting" \/ task # "waiting" \/ Pends(e, turn[e]))

\* A Turn that completed is reported as every other end of a Turn is.
EveryEndReported ==
  \A e \in Execution :
    (task = "waiting" /\ exec[e] = "waiting" /\ server[e][turn[e]] \in Ended)
      ~> (exec[e] # "waiting" \/ task # "waiting")
=============================================================================
