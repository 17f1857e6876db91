----------------------------- MODULE LockOrder -----------------------------
(***************************************************************************)
(* The order in which the threads of the backend take its reentrant locks. *)
(*                                                                         *)
(*   "product"  product_mutation_lock, one object shared by TaskOrchestrator,*)
(*              PlatformAssistantService and RuntimeApprovalCoordinator    *)
(*   "graph"    TaskOrchestrator._graph_resume_lock                        *)
(*   "watch"    CodexRuntimeSupervisor._lock                               *)
(*   "waiter"   RuntimeApprovalCoordinator._waiter_lock                    *)
(*                                                                         *)
(* A handler is the sequence of its locked sections along its longest path:*)
(* every call it makes that locks is in it, in order.  What a section does *)
(* is in the other modules.                                                *)
(***************************************************************************)
EXTENDS Naturals, Sequences, FiniteSets

CONSTANTS
  Thread,    \* API threads, supervisor workers, Action workers
  Mixes,     \* sets of names of handlers: those that run together
  FanOut,    \* a graph has more than one node to run at a time
  None

Lock == {"product", "graph", "watch", "waiter"}

-----------------------------------------------------------------------------
(* Sections.                                                               *)

\* with lock: body, for a body that takes other locks.
Within(l, body) == <<[op |-> "take", lock |-> l]>> \o body
                   \o <<[op |-> "give", lock |-> l]>>

\* with lock: a body that takes no other lock.
Section(l) == <<[op |-> "use", lock |-> l]>>

\* graph.invoke: LangGraph runs a single node in the calling thread and
\* several nodes in threads of a pool, which the caller waits for.  Every node
\* is a transaction under the product lock.
GraphInvoke ==
  IF FanOut THEN <<[op |-> "pool", lock |-> "product"]>> ELSE Section("product")

-----------------------------------------------------------------------------
(* Handlers.                                                               *)

\* run, and retry after its first transaction: invoke, then watch the Turns.
RunTask == GraphInvoke \o Section("watch")

RetryTask == Section("product") \o RunTask

\* plan holds the product lock over its one-node graph and the watch.
PlanTask == Within("product", Section("product") \o Section("watch"))

\* _resume_runtime_interrupt.
ResumeGraph == Within("graph", GraphInvoke \o Section("watch"))

\* _drain_capacity_waiters, with one waiter to resume.
DrainWaiters == Section("product") \o ResumeGraph \o Section("product")

\* cancel, after its approvals are cancelled by cancel_task.
CancelTask == Section("product") \o Within("waiter", Section("product"))
              \o DrainWaiters

\* Mutant of DecideApproval: the locks are taken the other way round.
DecideProductFirst == Within("product", Section("waiter"))

\* decide, request_approval and recover_orphaned_approvals.
DecideApproval == Within("waiter", Section("product"))

\* The ends of a Turn in _wait_and_resume.
TurnCompletes ==
  Within("watch", Section("product") \o ResumeGraph \o DrainWaiters)

TurnFails == Section("watch") \o Section("product") \o DrainWaiters

TurnInterrupted == Section("watch") \o CancelTask

\* _execute_action_worker holds the product lock over the Action.
Action(steps) == Within("product", Section("product") \o steps)

Program(h) ==
  CASE h = "run" -> RunTask
    [] h = "retry" -> RetryTask
    [] h = "plan" -> PlanTask
    [] h = "cancel" -> CancelTask
    [] h = "decide" -> DecideApproval
    [] h = "completed" -> TurnCompletes
    [] h = "failed" -> TurnFails
    [] h = "interrupted" -> TurnInterrupted
    [] h = "action submit" -> Action(RunTask)
    [] h = "action plan" -> Action(PlanTask)
    [] h = "action retry" -> Action(RetryTask)
    [] h = "action cancel" -> Action(CancelTask)
    [] h = "action decide" -> Action(DecideApproval)

HandlerNames == {"run", "retry", "plan", "cancel", "decide", "completed",
                 "failed", "interrupted", "action submit", "action plan",
                 "action retry", "action cancel", "action decide"}

ASSUME LockAssumption ==
  /\ IsFiniteSet(Thread)
  /\ Mixes \subseteq SUBSET HandlerNames
  /\ FanOut \in BOOLEAN
  /\ None \notin Thread

-----------------------------------------------------------------------------
VARIABLES
  mix,    \* the handlers of this behavior
  rest,   \* what each thread has still to do
  owner,  \* who holds each lock
  depth   \* how many times

lockVars == <<mix, rest, owner, depth>>

LockInit ==
  /\ mix \in Mixes
  /\ rest = [x \in Thread |-> <<>>]
  /\ owner = [l \in Lock |-> None]
  /\ depth = [l \in Lock |-> 0]

Busy(x) == rest[x] # <<>>
Step(x) == Head(rest[x])
Advance(x) == rest' = [rest EXCEPT ![x] = Tail(@)] /\ UNCHANGED mix

\* An RLock admits its owner again.
Admits(l, x) == owner[l] \in {None, x}

Begin(x, h) ==
  /\ ~Busy(x)
  /\ rest' = [rest EXCEPT ![x] = Program(h)]
  /\ UNCHANGED <<mix, owner, depth>>

Take(x) ==
  LET l == Step(x).lock IN
  /\ Busy(x) /\ Step(x).op = "take" /\ Admits(l, x)
  /\ owner' = [owner EXCEPT ![l] = x]
  /\ depth' = [depth EXCEPT ![l] = @ + 1]
  /\ Advance(x)

\* Mutant of Give: a reentrant lock is never given back.
GiveOnce(x) ==
  LET l == Step(x).lock IN
  /\ Busy(x) /\ Step(x).op = "give"
  /\ depth' = [depth EXCEPT ![l] = @ - 1]
  /\ Advance(x)
  /\ UNCHANGED owner

Give(x) ==
  LET l == Step(x).lock IN
  /\ Busy(x) /\ Step(x).op = "give"
  /\ depth' = [depth EXCEPT ![l] = @ - 1]
  /\ owner' = [owner EXCEPT ![l] = IF depth[l] = 1 THEN None ELSE @]
  /\ Advance(x)

Use(x) ==
  /\ Busy(x) /\ Step(x).op = "use" /\ Admits(Step(x).lock, x)
  /\ Advance(x)
  /\ UNCHANGED <<owner, depth>>

\* The pool's threads take the lock, whoever waits for them.
Pool(x) ==
  /\ Busy(x) /\ Step(x).op = "pool" /\ owner[Step(x).lock] = None
  /\ Advance(x)
  /\ UNCHANGED <<owner, depth>>

LockNext ==
  \E x \in Thread :
    \/ \E h \in mix : Begin(x, h)
    \/ Take(x) \/ Give(x) \/ Use(x) \/ Pool(x)

LockSpec == LockInit /\ [][LockNext]_lockVars

-----------------------------------------------------------------------------
(* Properties.                                                             *)

\* Types; a lock is held by somebody who is going to give it back.
LockTypeOK ==
  /\ mix \in Mixes
  /\ DOMAIN rest = Thread
  /\ owner \in [Lock -> Thread \cup {None}]
  /\ depth \in [Lock -> Nat]
  /\ \A l \in Lock :
       /\ owner[l] = None <=> depth[l] = 0
       /\ owner[l] # None =>
            Cardinality({i \in DOMAIN rest[owner[l]] :
                           rest[owner[l]][i] = [op |-> "give", lock |-> l]})
              >= depth[l]

\* x can go on only after y has given a lock back.
WaitsFor(x, y) ==
  /\ Busy(x) /\ Step(x).op # "give"
  /\ owner[Step(x).lock] = y
  /\ x # y \/ Step(x).op = "pool"

\* No thread ever waits for itself, nor several threads for one another.
NoCircularWait ==
  \A ring \in (SUBSET Thread) \ {{}} :
    \E x \in ring : \A y \in ring : ~WaitsFor(x, y)
=============================================================================
