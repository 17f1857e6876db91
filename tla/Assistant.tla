------------------------------ MODULE Assistant ------------------------------
(***************************************************************************)
(* The platform assistant: one conversation, its Turns, the Actions they   *)
(* propose and a user decides, and the pool of threads that runs them.     *)
(*                                                                         *)
(* Most of this service runs without a lock.  What orders it is the number *)
(* of a conversation's events: a session adds one to the number it loaded, *)
(* and (conversation_id, sequence) is unique, so that a commit fails when  *)
(* somebody appended an event since.  The number itself is abstracted to   *)
(* the set of sessions whose copy is current.  A load and the commit that  *)
(* follows it at once are one step; the long work between the two (a call  *)
(* of the Runtime, a wait for a lock) separates steps.                     *)
(***************************************************************************)
EXTENDS Naturals, FiniteSets

CONSTANTS
  None,
  MaxTurns,    \* bound on the messages of the conversation
  MaxActions,  \* bound on the Actions proposed
  Payload,     \* what an Action would do
  Repeats,     \* what of it counts again when it is executed again
  Workers,     \* threads of the pool
  Endpoints,   \* whether the App Server outlives the backend: a set of BOOLEAN
  MaxLosses,   \* bound on broken connections
  MaxStops     \* bound on crashes and shutdowns

Turn == 1..MaxTurns
Action == 1..MaxActions

ASSUME AssistantAssumption ==
  /\ MaxTurns \in Nat /\ MaxActions \in Nat /\ MaxStops \in Nat /\ MaxLosses \in Nat
  /\ None \notin Payload \cup ({"act"} \X Action) \cup ({"cancel"} \X Turn)
  /\ Workers \in Nat \ {0} /\ Endpoints \subseteq BOOLEAN
  /\ Repeats \subseteq Payload

VARIABLES
  conversation, \* AssistantConversation.status
  thread,       \* runtime_thread_id, 0 for none
  generation,   \* runtime_thread_generation
  turn,         \* AssistantTurn.status
  turnThread,   \* AssistantTurn.runtime_thread_id
  turnGeneration,
  action,       \* AssistantAction.status
  payload,      \* AssistantAction.payload
  source,       \* AssistantAction.source_turn_id
  effect,       \* how often an Action took effect: 2 for more than once
  current,      \* sessions whose copy of the conversation is current
  job,          \* the pool's job for each Turn
  runs,         \* the Thread a job started or resumed
  proposing,    \* the payload of the tool call it handles
  queued,       \* jobs waiting to execute each Action
  acting,       \* where the job that executes an Action is
  lock,         \* who holds the mutation lock across steps
  server,       \* each Turn in the App Server
  connection,   \* the adapter's connection for each Turn
  closing, up, endpoint, losses, stops

talk == <<conversation, thread, generation>>
turns == <<turn, turnThread, turnGeneration>>
actions == <<action, payload, source, effect>>
jobs == <<job, runs, proposing>>
acts == <<queued, acting>>
runtime == <<server, connection>>
backend == <<closing, up, endpoint, losses, stops>>
vars == <<talk, turns, actions, current, jobs, acts, lock, runtime, backend>>

InFlight == {"queued", "submitted", "waiting"}
TurnEnds == {"completed", "failed", "cancelled"}
Active == {"proposed", "confirmed", "executing"}
ActionEnds == {"completed", "declined", "failed"}

Run(t) == <<"run", t>>
Tool(t) == <<"tool", t>>
Act(a) == <<"act", a>>
Sessions == ({"run", "tool"} \X Turn) \cup ({"act"} \X Action)

AssistantTypeOK ==
  /\ conversation \in {"active", "archived"}
  /\ thread \in 0..MaxTurns /\ generation \in 0..MaxTurns
  /\ turn \in [Turn -> InFlight \cup TurnEnds \cup {"none"}]
  /\ turnThread \in [Turn -> 0..MaxTurns] /\ turnGeneration \in [Turn -> 0..MaxTurns]
  /\ action \in [Action -> Active \cup ActionEnds \cup {"none"}]
  /\ payload \in [Action -> Payload \cup {None}] /\ source \in [Action -> 0..MaxTurns]
  /\ \A a \in Action : action[a] # "none" => payload[a] # None /\ source[a] # 0
  /\ effect \in [Action -> 0..2]
  /\ current \subseteq Sessions
  /\ job \in [Turn -> {"none", "queued", "executes", "executed", "awaits", "waits",
                       "proposes", "inserts", "fails"}]
  /\ runs \in [Turn -> 0..MaxTurns] /\ proposing \in [Turn -> Payload \cup {None}]
  /\ queued \in [Action -> 0..2]
  /\ acting \in [Action -> {"none", "acts", "acted", "refused"}]
  /\ lock \in {None} \cup ({"act"} \X Action) \cup ({"cancel"} \X Turn)
  /\ server \in [Turn -> {"none", "running", "done", "failed", "interrupted", "lost"}]
  /\ connection \in [Turn -> {"none", "open"}]
  /\ closing \in BOOLEAN /\ up \in BOOLEAN /\ endpoint \in BOOLEAN
  /\ losses \in 0..MaxLosses /\ stops \in 0..MaxStops

AssistantInit ==
  /\ conversation = "active" /\ thread = 0 /\ generation = 0
  /\ turn = [t \in Turn |-> "none"] /\ turnThread = [t \in Turn |-> 0]
  /\ turnGeneration = [t \in Turn |-> 0]
  /\ action = [a \in Action |-> "none"] /\ payload = [a \in Action |-> None]
  /\ source = [a \in Action |-> 0] /\ effect = [a \in Action |-> 0]
  /\ current = {}
  /\ job = [t \in Turn |-> "none"] /\ runs = [t \in Turn |-> 0]
  /\ proposing = [t \in Turn |-> None]
  /\ queued = [a \in Action |-> 0] /\ acting = [a \in Action |-> "none"]
  /\ lock = None
  /\ server = [t \in Turn |-> "none"] /\ connection = [t \in Turn |-> "none"]
  /\ closing = FALSE /\ up = TRUE /\ endpoint \in Endpoints
  /\ losses = 0 /\ stops = 0

-----------------------------------------------------------------------------
(* Shared steps.                                                           *)

Serving == up /\ ~closing
Unlocked == lock = None

\* A session loads the conversation; one that appends an event makes every other
\* copy stale.
Loads(s) == current' = current \cup {s}
Appends(s) == current' = {s}
AppendsAlone == current' = {}

\* Mutant of Fresh: (conversation_id, sequence) is not unique.
NeverStale(s) == TRUE

Fresh(s) == s \in current

Goes(t, place) == job' = [job EXCEPT ![t] = place]

Busy ==
  Cardinality({t \in Turn : job[t] \notin {"none", "queued", "awaits"}})
    + Cardinality({a \in Action : acting[a] # "none"})
FreeWorker == Busy < Workers

Hangs(t) ==
  /\ connection' = [connection EXCEPT ![t] = "none"]
  /\ server' = [server EXCEPT ![t] = IF ~endpoint /\ @ = "running" THEN "lost" ELSE @]

\* The job of a Turn is over.  What the App Server still does for a Turn that ended
\* is not followed.
Leaves(t) ==
  /\ job' = [job EXCEPT ![t] = "none"] /\ runs' = [runs EXCEPT ![t] = 0]
  /\ proposing' = [proposing EXCEPT ![t] = None]
  /\ connection' = [connection EXCEPT ![t] = "none"]
  /\ server' = [server EXCEPT ![t] =
                  IF turn'[t] \in TurnEnds \/ (~endpoint /\ @ = "running") THEN "lost" ELSE @]

-----------------------------------------------------------------------------
(* Messages and the conversation.                                          *)

\* submit_message.
SubmitMessage(t) ==
  /\ Serving /\ Unlocked /\ conversation = "active"
  /\ turn[t] = "none" /\ \A u \in Turn : u < t => turn[u] # "none"
  /\ \A u \in Turn : turn[u] \notin InFlight
  /\ turn' = [turn EXCEPT ![t] = "queued"]
  /\ turnGeneration' = [turnGeneration EXCEPT ![t] = generation]
  /\ AppendsAlone
  /\ Goes(t, "queued")
  /\ UNCHANGED <<talk, turnThread, actions, runs, proposing, acts, lock, runtime, backend>>

ArchiveConversation ==
  /\ Serving /\ conversation = "active"
  /\ conversation' = "archived"
  /\ AppendsAlone
  /\ UNCHANGED <<thread, generation, turns, actions, jobs, acts, lock, runtime,
                 backend>>

-----------------------------------------------------------------------------
(* _run_turn: one pool thread starts the Turn.                             *)

\* A Thread whose prompt or tools are old, or that was compacted too often, is
\* given up here.
RunStarts(t) ==
  /\ up /\ job[t] = "queued" /\ FreeWorker
  /\ turn' = [turn EXCEPT ![t] = "submitted"]
  /\ \/ Loads(Run(t)) /\ UNCHANGED thread
     \/ thread # 0 /\ thread' = 0 /\ Appends(Run(t))
  /\ runs' = [runs EXCEPT ![t] = thread']
  /\ Goes(t, "executes")
  /\ UNCHANGED <<conversation, generation, turnThread, turnGeneration, actions,
                 proposing, acts, lock, runtime, backend>>

\* The adapter starts a Thread, or resumes the one that was recorded.
RunExecutes(t) ==
  /\ job[t] = "executes"
  /\ server' = [server EXCEPT ![t] = "running"]
  /\ connection' = [connection EXCEPT ![t] = "open"]
  /\ runs' = [runs EXCEPT ![t] = IF @ = 0 THEN t ELSE @]
  /\ Goes(t, "executed")
  /\ UNCHANGED <<talk, turns, actions, current, proposing, acts, lock, backend>>

RunBreaks(t) ==
  /\ job[t] = "executes"
  /\ Goes(t, "fails")
  /\ UNCHANGED <<talk, turns, actions, current, runs, proposing, acts, lock,
                 runtime, backend>>

\* _record_submitted_runtime: the identities of the Runtime, if nobody appended an
\* event while it was called.
RunCommits(t) ==
  /\ job[t] = "executed"
  /\ IF Fresh(Run(t))
     THEN LET g == IF thread = 0 THEN turnGeneration[t] + 1 ELSE generation IN
          /\ thread' = runs[t] /\ generation' = IF g > generation THEN g ELSE generation
          /\ turn' = [turn EXCEPT ![t] = "waiting"]
          /\ turnThread' = [turnThread EXCEPT ![t] = runs[t]]
          /\ turnGeneration' = [turnGeneration EXCEPT ![t] = generation']
          /\ AppendsAlone
          /\ Goes(t, "awaits")
     ELSE /\ Goes(t, "fails")
          /\ current' = current \ {Run(t)}
          /\ UNCHANGED <<thread, generation, turn, turnThread, turnGeneration>>
  /\ runs' = [runs EXCEPT ![t] = 0]
  /\ UNCHANGED <<conversation, actions, proposing, acts, lock, runtime,
                 backend>>

\* _fail_turn and the close after it; a cancelled Turn, and one that a shutdown cut
\* off, stay as they are.
TurnFails(t) ==
  /\ job[t] = "fails"
  /\ IF ~closing /\ turn[t] # "cancelled"
     THEN /\ turn' = [turn EXCEPT ![t] = "failed"]
          /\ AppendsAlone
     ELSE UNCHANGED turn /\ current' = current \ {Run(t)}
  /\ Leaves(t)
  /\ UNCHANGED <<talk, turnThread, turnGeneration, actions, acts, lock,
                 backend>>

-----------------------------------------------------------------------------
(* The App Server.                                                         *)

ServerEnds(t) ==
  /\ server[t] = "running" /\ job[t] \notin {"proposes", "inserts"}
  /\ \E how \in {"done", "failed"} : server' = [server EXCEPT ![t] = how]
  /\ UNCHANGED <<talk, turns, actions, current, jobs, acts, lock, connection,
                 backend>>

-----------------------------------------------------------------------------
(* _await_turn: one pool thread waits for the Turn and handles its tools.  *)

AwaitStarts(t) ==
  /\ up /\ job[t] = "awaits" /\ FreeWorker
  /\ Goes(t, IF connection[t] = "none" THEN "fails" ELSE "waits")
  /\ UNCHANGED <<talk, turns, actions, current, runs, proposing, acts, lock,
                 runtime, backend>>

Owns(t) == \E a \in Action : source[a] = t
Duplicate(p) == \E a \in Action : payload[a] = p /\ action[a] \in Active
NextAction == Cardinality({a \in Action : action[a] # "none"}) + 1

\* Mutant of Inserts: the Action is not recorded as the one of the Turn.
InsertsUnowned(t, p) ==
  /\ action' = [action EXCEPT ![NextAction] = "proposed"]
  /\ payload' = [payload EXCEPT ![NextAction] = p]
  /\ UNCHANGED <<source, effect>>

\* _create_action_locked: the first Action of a Turn is the one it keeps, and one
\* that is still open is not proposed again.
Inserts(t, p) ==
  /\ action' = [action EXCEPT ![NextAction] = "proposed"]
  /\ payload' = [payload EXCEPT ![NextAction] = p]
  /\ source' = [source EXCEPT ![NextAction] = t]
  /\ UNCHANGED effect

\* The call is in the worker's queue even when the Turn was interrupted after it.
ToolCalls(t) ==
  /\ job[t] = "waits" /\ connection[t] = "open"
  /\ server[t] \in {"running", "interrupted"} /\ NextAction \in Action
  /\ proposing[t] = None
  /\ \E p \in Payload : proposing' = [proposing EXCEPT ![t] = p]
  /\ Loads(Tool(t))
  /\ Goes(t, "proposes")
  /\ UNCHANGED <<talk, turns, actions, runs, acts, lock, runtime, backend>>

ToolChecks(t) ==
  /\ job[t] = "proposes" /\ Unlocked
  /\ IF Owns(t) \/ Duplicate(proposing[t])
     THEN Goes(t, "waits") /\ current' = current \ {Tool(t)}
     ELSE Goes(t, "inserts") /\ UNCHANGED current
  /\ UNCHANGED <<talk, turns, actions, runs, proposing, acts, lock,
                 runtime, backend>>

ToolInserts(t) ==
  /\ job[t] = "inserts"
  /\ IF Fresh(Tool(t)) /\ NextAction \in Action
     THEN Inserts(t, proposing[t]) /\ AppendsAlone
     ELSE current' = current \ {Tool(t)} /\ UNCHANGED actions
  /\ Goes(t, "waits")
  /\ UNCHANGED <<talk, turns, runs, proposing, acts, lock, runtime, backend>>

\* _finish_turn: the reply, and the Action of the last message.
AwaitFinishes(t) ==
  /\ job[t] = "waits" /\ connection[t] = "open" /\ server[t] = "done"
  /\ IF turn[t] = "cancelled"
     THEN UNCHANGED <<turn, actions, current>>
     ELSE /\ turn' = [turn EXCEPT ![t] = "completed"]
          /\ \/ UNCHANGED actions
             \/ /\ Unlocked /\ NextAction \in Action /\ ~Owns(t)
                /\ \E p \in Payload : ~Duplicate(p) /\ Inserts(t, p)
          /\ AppendsAlone
  /\ Leaves(t)
  /\ UNCHANGED <<talk, turnThread, turnGeneration, acts, lock, backend>>

\* The Turn failed or was interrupted, its answer cannot be read or committed, the
\* connection was closed, or it broke.
AwaitBreaks(t) ==
  /\ job[t] = "waits"
  /\ IF connection[t] = "none" \/ server[t] # "running"
     THEN UNCHANGED losses
     ELSE losses < MaxLosses /\ losses' = losses + 1
  /\ Goes(t, "fails")
  /\ UNCHANGED <<talk, turns, actions, current, runs, proposing, acts, lock,
                 runtime, closing, up, endpoint, stops>>

\* cancel_turn holds the lock from the interrupt to its commit.
CancelAsks(t) ==
  /\ Serving /\ Unlocked /\ turn[t] \in InFlight
  /\ connection[t] = "open" /\ server[t] = "running"
  /\ server' = [server EXCEPT ![t] = "interrupted"]
  /\ lock' = <<"cancel", t>>
  /\ UNCHANGED <<talk, turns, actions, current, jobs, acts, connection, backend>>

CancelCommits(t) ==
  /\ lock = <<"cancel", t>>
  /\ turn' = [turn EXCEPT ![t] = "cancelled"]
  /\ AppendsAlone
  /\ lock' = None
  /\ UNCHANGED <<talk, turnThread, turnGeneration, actions, jobs, acts,
                 runtime, backend>>

-----------------------------------------------------------------------------
(* Actions: a user decides, a pool thread executes under the lock.         *)

\* decide_action: a confirmation may be repeated until the Action ended.
Confirm(a) ==
  /\ Serving /\ Unlocked /\ action[a] \in Active /\ queued[a] < 2
  /\ IF action[a] = "proposed"
     THEN action' = [action EXCEPT ![a] = "confirmed"] /\ AppendsAlone
     ELSE UNCHANGED <<action, current>>
  /\ queued' = [queued EXCEPT ![a] = @ + 1]
  /\ UNCHANGED <<talk, turns, payload, source, effect, jobs, acting, lock,
                 runtime, backend>>

Decline(a) ==
  /\ Serving /\ Unlocked /\ action[a] = "proposed"
  /\ action' = [action EXCEPT ![a] = "declined"]
  /\ AppendsAlone
  /\ UNCHANGED <<talk, turns, payload, source, effect, jobs, acts, lock, runtime,
                 backend>>

\* _execute_action_worker: an Action that ended is left alone.
ActStarts(a) ==
  /\ up /\ queued[a] > 0 /\ FreeWorker /\ Unlocked
  /\ queued' = [queued EXCEPT ![a] = @ - 1]
  /\ IF action[a] \in ActionEnds
     THEN UNCHANGED <<action, acting, lock, current>>
     ELSE /\ action' = [action EXCEPT ![a] = "executing"]
          /\ acting' = [acting EXCEPT ![a] = "acts"]
          /\ lock' = Act(a) /\ Loads(Act(a))
  /\ UNCHANGED <<talk, turns, payload, source, effect, jobs, runtime, backend>>

\* Mutant of Effect: a Task gets a key of its own for every attempt.
EffectAnew(a) == IF effect[a] > 0 THEN 2 ELSE 1

\* create_task returns the Task it has for the key of the Action, and what is confirmed,
\* published, cancelled or decided is found so; a Task that failed again is retried again.
Effect(a) == IF payload[a] \in Repeats /\ effect[a] > 0 THEN 2 ELSE 1

\* _execute_action does it, or raises.  An Action on a Task loads the conversation again
\* after it, and may raise after its effect was committed (run, retry); no other does.
ActRuns(a) ==
  /\ acting[a] = "acts"
  /\ \/ /\ effect' = [effect EXCEPT ![a] = Effect(a)]
        /\ acting' = [acting EXCEPT ![a] = "acted"]
        /\ Loads(Act(a)) \/ UNCHANGED current
     \/ /\ acting' = [acting EXCEPT ![a] = "refused"]
        /\ UNCHANGED effect \/ effect' = [effect EXCEPT ![a] = Effect(a)]
        /\ UNCHANGED current
  /\ UNCHANGED <<talk, turns, action, payload, source, jobs, queued, lock, runtime,
                 backend>>

\* A stale copy of the conversation makes the commit fail, and the Action with it.
ActEnds(a) ==
  /\ acting[a] = "acted"
  /\ action' = [action EXCEPT ![a] = IF Fresh(Act(a)) THEN "completed" ELSE "failed"]
  /\ AppendsAlone
  /\ acting' = [acting EXCEPT ![a] = "none"] /\ lock' = None
  /\ UNCHANGED <<talk, turns, payload, source, effect, jobs, queued, runtime, backend>>

\* The failure is written with the same copy: when it is stale the error goes up
\* and the Action stays executing.
ActRefused(a) ==
  /\ acting[a] = "refused"
  /\ IF Fresh(Act(a))
     THEN action' = [action EXCEPT ![a] = "failed"] /\ AppendsAlone
     ELSE current' = current \ {Act(a)} /\ UNCHANGED action
  /\ acting' = [acting EXCEPT ![a] = "none"] /\ lock' = None
  /\ UNCHANGED <<talk, turns, payload, source, effect, jobs, queued, runtime,
                 backend>>

-----------------------------------------------------------------------------
(* Shutdown, crash and startup.                                            *)

Close ==
  /\ Serving /\ stops < MaxStops
  /\ \A t \in Turn : lock # <<"cancel", t>>
  /\ closing' = TRUE
  /\ UNCHANGED <<talk, turns, actions, current, jobs, acts, lock, runtime, up,
                 endpoint, losses, stops>>

CloseTurn(t) ==
  /\ closing /\ turn[t] \in {"submitted", "waiting"} /\ connection[t] # "none"
  /\ Hangs(t)
  /\ UNCHANGED <<talk, turns, actions, current, jobs, acts, lock, backend>>

Stop ==
  /\ current' = {}
  /\ job' = [t \in Turn |-> "none"] /\ runs' = [t \in Turn |-> 0]
  /\ proposing' = [t \in Turn |-> None]
  /\ queued' = [a \in Action |-> 0] /\ acting' = [a \in Action |-> "none"]
  /\ lock' = None
  /\ connection' = [t \in Turn |-> "none"]
  /\ server' = [t \in Turn |-> IF ~endpoint /\ server[t] = "running" THEN "lost"
                               ELSE server[t]]
  /\ closing' = FALSE /\ up' = FALSE /\ stops' = stops + 1
  /\ UNCHANGED <<talk, turns, actions, endpoint, losses>>

Crash == Serving /\ stops < MaxStops /\ Stop

\* shutdown waits for the threads that work and cancels what is queued.
Exit == closing /\ Busy = 0 /\ Stop

\* Mutant of Resumed: what was executing is thought to have ended.
ResumedConfirmed == {a \in Action : action[a] = "executing"}

\* recover_incomplete_actions.
Resumed == {a \in Action : action[a] \in {"confirmed", "executing"}}

\* recover_incomplete_turns: a queued Turn is run, a waiting one is reattached if
\* the endpoint can be reached; one without identities is left.
Startup ==
  /\ ~up /\ up' = TRUE
  /\ queued' = [a \in Action |-> IF a \in Resumed THEN 1 ELSE 0]
  /\ \E found \in SUBSET {t \in Turn : turn[t] = "waiting" /\ endpoint
                                       /\ server[t] # "lost"} :
       /\ connection' = [t \in Turn |-> IF t \in found THEN "open" ELSE "none"]
       /\ job' = [t \in Turn |-> IF turn[t] = "queued" THEN "queued"
                                 ELSE IF t \in found THEN "awaits" ELSE "none"]
  /\ UNCHANGED <<talk, turns, actions, current, runs, proposing, acting, lock,
                 server, closing, endpoint, losses, stops>>

-----------------------------------------------------------------------------

TurnSteps(t) ==
  \/ RunStarts(t) \/ RunExecutes(t) \/ RunBreaks(t) \/ RunCommits(t) \/ TurnFails(t)
  \/ AwaitStarts(t) \/ ToolChecks(t) \/ ToolInserts(t) \/ AwaitFinishes(t)
  \/ AwaitBreaks(t) \/ CancelCommits(t)
ActSteps(a) == ActStarts(a) \/ ActRuns(a) \/ ActEnds(a) \/ ActRefused(a)

Next ==
  \/ \E t \in Turn : \/ SubmitMessage(t) \/ TurnSteps(t) \/ ServerEnds(t)
                     \/ ToolCalls(t) \/ CancelAsks(t)
                     \/ CloseTurn(t)
  \/ \E a \in Action : Confirm(a) \/ Decline(a) \/ ActSteps(a)
  \/ ArchiveConversation \/ Close \/ Crash \/ Exit \/ Startup

Spec == AssistantInit /\ [][Next]_vars

-----------------------------------------------------------------------------
(* Properties.                                                             *)

\* A user never waits for two answers at once: the check of submit_message and the
\* commits of the pool that write a status leave one Turn of the conversation in
\* flight, whatever is cancelled, fails or restarts meanwhile.
OneTurnInFlight == Cardinality({t \in Turn : turn[t] \in InFlight}) <= 1

\* A cancelled Turn stays cancelled: neither the thread that submits it, nor the one
\* that waits for it, nor a restart puts another status over it.
CancelledStays ==
  [][\A t \in Turn : turn[t] = "cancelled" => turn'[t] = "cancelled"]_turn

\* A conversation never has two open Actions that would do the same, although the
\* tool call of a cancelled Turn and that of its successor may both find none.
ActiveActionsDistinct ==
  \A a, b \in Action :
    action[a] \in Active /\ action[b] \in Active /\ payload[a] = payload[b] => a = b

\* What the user confirmed is done once, however often it was confirmed and however
\* many processes died while doing it, unless it is a retry; what he declined, or did
\* not decide, is never done.
OneEffect ==
  \A a \in Action :
    /\ payload[a] \notin Repeats => effect[a] <= 1
    /\ effect[a] > 0 => action[a] \in {"executing", "completed", "failed"}

\* What the user confirmed is never forgotten: while the process serves, an Action
\* that is confirmed has a job that will execute it, after a crash or a shutdown too.
ConfirmedIsQueued ==
  \A a \in Action : up /\ action[a] = "confirmed" => queued[a] > 0

==============================================================================
