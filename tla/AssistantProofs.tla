--------------------------- MODULE AssistantProofs ---------------------------
(***************************************************************************)
(* The platform assistant: one Turn in flight, a cancellation that stays,  *)
(* open Actions that differ, and a decision that is carried out, for any   *)
(* number of Turns, Actions, pool threads, lost connections and stops.     *)
(*                                                                         *)
(* The invariant says what a session may still rely on.  A job that wrote  *)
(* nothing yet knows the status of its Turn while its copy of the          *)
(* conversation is current, a tool call knows that no open Action is like  *)
(* its own while its copy is, and whatever is executed is locked.          *)
(***************************************************************************)
EXTENDS Assistant, FiniteSetTheorems, TLAPS

-----------------------------------------------------------------------------
(* The inductive invariant.                                                *)

\* One Turn in flight, without its cardinality.
OneInFlight ==
  \A t, u \in Turn : turn[t] \in InFlight /\ turn[u] \in InFlight => t = u

\* The messages are numbered in the order in which they come, and so are the Actions.
TurnsInOrder == \A t, u \in Turn : u < t /\ turn[t] # "none" => turn[u] # "none"
ActionsInOrder ==
  \A a, b \in Action : b < a /\ action[a] # "none" => action[b] # "none"

\* A Thread has at most one generation for each message that was answered.
Generations ==
  /\ \A t \in Turn : turn[t] \in {"none", "queued", "submitted"} => generation < t
  /\ \A t \in Turn : turn[t] \in {"queued", "submitted"} => turnGeneration[t] < t

\* How far a job and its Turn are from one another.  The copy of a job that executed
\* its Turn is current only while nobody wrote over the status it read.
JobFits(t) ==
  /\ turn[t] = "none" => job[t] = "none"
  /\ turn[t] \in {"none", "queued"} => connection[t] = "none"
  /\ job[t] = "queued" => turn[t] = "queued"
  /\ job[t] = "executes" => turn[t] = "submitted" /\ connection[t] = "none"
  /\ job[t] = "executed" /\ Fresh(Run(t)) => turn[t] = "submitted"
  /\ lock = <<"cancel", t>> => turn[t] \notin {"none", "queued"} /\ job[t] # "executes"
JobsFit == \A t \in Turn : JobFits(t)

\* A tool call found no open Action like its own, and while its copy is current
\* there is none.
ToolsFit ==
  \A t \in Turn :
    /\ job[t] \in {"proposes", "inserts"} => proposing[t] # None
    /\ job[t] = "inserts" /\ Fresh(Tool(t)) => ~Duplicate(proposing[t])

\* What is executed is locked, and was decided.
ActsFit ==
  \A a \in Action :
    /\ acting[a] # "none" => lock = Act(a) /\ action[a] = "executing"
    /\ queued[a] > 0 => action[a] # "none"

\* A shutdown begins in a process that serves; one that is down holds no lock.
StopsFit ==
  /\ closing => up /\ stops < MaxStops
  /\ ~up => lock = None

TurnsInv == OneInFlight /\ TurnsInOrder /\ Generations /\ JobsFit
ActionsInv ==
  /\ ActionsInOrder /\ ToolsFit /\ ActsFit
  /\ ActiveActionsDistinct /\ OneEffect /\ ConfirmedIsQueued
AssistantInv == AssistantTypeOK /\ StopsFit /\ TurnsInv /\ ActionsInv

-----------------------------------------------------------------------------
(* Names and numbers.                                                      *)

\* The numbers of Turns and of generations fit where they are stored.
LEMMA Numbers ==
  /\ MaxTurns \in Nat /\ MaxStops \in Nat /\ MaxLosses \in Nat
  /\ \A t \in Turn : t \in 0..MaxTurns /\ t \in Nat /\ t # 0
  /\ \A a \in Action : a \in Nat
BY AssistantAssumption DEF AssistantAssumption, Turn, Action

\* The sessions of jobs and Actions, and the holders of the lock.
LEMMA SessionNames ==
  /\ \A t \in Turn : Run(t) \in Sessions /\ Tool(t) \in Sessions
  /\ \A a \in Action : Act(a) \in Sessions /\ Act(a) \in {"act"} \X Action
BY DEF Run, Tool, Act, Sessions

\* They are distinct, and none of them is nobody.
LEMMA SessionsDiffer ==
  /\ \A t, u \in Turn : Run(t) # Tool(u)
  /\ \A t \in Turn, a \in Action :
       Run(t) # Act(a) /\ Tool(t) # Act(a) /\ <<"cancel", t>> # Act(a)
  /\ \A a \in Action : Act(a) # None
  /\ \A t \in Turn : <<"cancel", t>> # None
  /\ \A t, u \in Turn : Run(t) = Run(u) \/ Tool(t) = Tool(u) => t = u
  /\ \A a, b \in Action : Act(a) = Act(b) => a = b
  /\ \A t, u \in Turn : <<"cancel", t>> = <<"cancel", u>> => t = u
BY AssistantAssumption DEF AssistantAssumption, Run, Tool, Act

-----------------------------------------------------------------------------
(* The Actions are numbered without a gap, so that the next number is new. *)

\* In a conversation whose Actions are numbered in order, the number after the last
\* one is of no Action, and every smaller one is.
LEMMA NextActionIsNew ==
  ASSUME AssistantTypeOK, ActionsInOrder, NextAction \in Action
  PROVE  /\ action[NextAction] = "none"
         /\ \A a \in Action : a < NextAction => action[a] # "none"
<1>. DEFINE used == {a \in Action : action[a] # "none"}
            k == Cardinality(used)
<1>1. IsFiniteSet(Action)  BY AssistantAssumption, FS_Interval DEF AssistantAssumption, Action
<1>2. IsFiniteSet(used)  BY <1>1, FS_Subset
<1>3. k \in Nat  BY <1>2, FS_CardinalityType
<1>4. ASSUME NEW a \in used  PROVE a <= k
  <2>1. 1..a \subseteq used
    BY <1>4, AssistantAssumption DEF AssistantAssumption, Action, ActionsInOrder
  <2>2. Cardinality(1..a) = a
    BY FS_Interval, AssistantAssumption DEF AssistantAssumption, Action
  <2>. QED  BY <1>2, <2>1, <2>2, FS_Subset
<1>5. used \subseteq 1..k  BY <1>3, <1>4, AssistantAssumption DEF AssistantAssumption, Action
<1>6. used = 1..k
  <2>1. IsFiniteSet(1..k) /\ Cardinality(1..k) = k  BY <1>3, FS_Interval
  <2>. QED  BY <1>5, <2>1, FS_Subset
<1>7. NextAction = k + 1  BY DEF NextAction
<1>8. NextAction \notin used /\ \A a \in Action : a < NextAction => a \in used
  <2>1. \A a \in Action : a \in Nat /\ a > 0
    BY AssistantAssumption DEF AssistantAssumption, Action
  <2>2. \A a \in Action : a < k + 1 => a \in 1..k  BY <1>3, <2>1
  <2>3. k + 1 \notin 1..k  BY <1>3
  <2>. QED  BY <1>6, <1>7, <2>2, <2>3
<1>. QED  BY <1>8

\* A message or a tool call adds an Action that is new, open and like no other one.
LEMMA InsertsOne ==
  ASSUME AssistantTypeOK, ActionsInv, NEW t \in Turn, NEW p \in Payload,
         NextAction \in Action, ~Duplicate(p), Inserts(t, p)
  PROVE  /\ ActionsInOrder' /\ ActiveActionsDistinct'
         /\ action' \in [Action -> Active \cup ActionEnds \cup {"none"}]
         /\ payload' \in [Action -> Payload \cup {None}] /\ source' \in [Action -> 0..MaxTurns]
         /\ \A a \in Action : action'[a] # "none" => payload'[a] # None /\ source'[a] # 0
         /\ \A a \in Action : action[a] # "none" =>
                             action'[a] = action[a] /\ payload'[a] = payload[a]
         /\ \A a \in Action : action[a] = "none" => action'[a] \in {"none", "proposed"}
         /\ effect' = effect
<1>1. PICK n \in Action : n = NextAction  OBVIOUS
<1>2. action[n] = "none" /\ \A a \in Action : a < n => action[a] # "none"
  BY <1>1, NextActionIsNew DEF ActionsInv
<1>3. /\ action' = [action EXCEPT ![n] = "proposed"]
      /\ payload' = [payload EXCEPT ![n] = p]
      /\ source' = [source EXCEPT ![n] = t]
      /\ effect' = effect
  BY <1>1 DEF Inserts
<1>4. ActionsInOrder'
  BY <1>2, <1>3, AssistantAssumption
     DEF AssistantAssumption, ActionsInv, ActionsInOrder, AssistantTypeOK, Action
<1>5. ActiveActionsDistinct'
  BY <1>2, <1>3 DEF ActionsInv, ActiveActionsDistinct, AssistantTypeOK, Duplicate, Active
<1>6. /\ action' \in [Action -> Active \cup ActionEnds \cup {"none"}]
      /\ payload' \in [Action -> Payload \cup {None}]
      /\ source' \in [Action -> 0..MaxTurns]
  BY <1>3, Numbers DEF AssistantTypeOK, Active
<1>7. \A a \in Action : action'[a] # "none" => payload'[a] # None /\ source'[a] # 0
  BY <1>2, <1>3, AssistantAssumption, Numbers DEF AssistantAssumption, AssistantTypeOK
<1>8. /\ \A a \in Action : action[a] # "none" =>
                          action'[a] = action[a] /\ payload'[a] = payload[a]
      /\ \A a \in Action : action[a] = "none" => action'[a] \in {"none", "proposed"}
  BY <1>2, <1>3 DEF AssistantTypeOK
<1>. QED  BY <1>3, <1>4, <1>5, <1>6, <1>7, <1>8

-----------------------------------------------------------------------------
(* The steps keep the invariant, part by part.                             *)

\* The invariant holds at first.
LEMMA AssistantStart == AssistantInit => AssistantInv
<1>. SUFFICES ASSUME AssistantInit  PROVE AssistantInv  OBVIOUS
<1>. USE DEF AssistantInit
<1>1. AssistantTypeOK
  <2>1. 0 \in 0..MaxTurns /\ 0 \in 0..MaxLosses /\ 0 \in 0..MaxStops  BY Numbers
  <2>2. /\ turn \in [Turn -> InFlight \cup TurnEnds \cup {"none"}]
        /\ turnThread \in [Turn -> 0..MaxTurns] /\ turnGeneration \in [Turn -> 0..MaxTurns]
        /\ runs \in [Turn -> 0..MaxTurns] /\ proposing \in [Turn -> Payload \cup {None}]
    BY <2>1
  <2>3. /\ action \in [Action -> Active \cup ActionEnds \cup {"none"}]
        /\ payload \in [Action -> Payload \cup {None}] /\ source \in [Action -> 0..MaxTurns]
        /\ \A a \in Action : action[a] = "none"
        /\ effect \in [Action -> 0..2] /\ queued \in [Action -> 0..2]
    BY <2>1
  <2>4. endpoint \in BOOLEAN  BY AssistantAssumption DEF AssistantAssumption
  <2>. QED  BY <2>1, <2>2, <2>3, <2>4 DEF AssistantTypeOK
<1>2. StopsFit  BY DEF StopsFit
<1>3. TurnsInv
  BY AssistantAssumption, Numbers
     DEF AssistantAssumption, TurnsInv, OneInFlight, TurnsInOrder, Generations, JobsFit,
         JobFits, InFlight, Turn
<1>4. ActionsInv
  BY DEF ActionsInv, ActionsInOrder, ToolsFit, ActsFit, ActiveActionsDistinct, OneEffect,
         ConfirmedIsQueued, Active
<1>. QED  BY <1>1, <1>2, <1>3, <1>4 DEF AssistantInv

\* A stop keeps the types, when one more is possible.
LEMMA StopTypes == AssistantTypeOK /\ Stop /\ stops < MaxStops => AssistantTypeOK'
<1>. SUFFICES ASSUME AssistantTypeOK, Stop, stops < MaxStops  PROVE AssistantTypeOK'
  OBVIOUS
<1>1. server' \in [Turn -> {"none", "running", "done", "failed", "interrupted", "lost"}]
  BY DEF Stop, AssistantTypeOK
<1>2. /\ job' = [t \in Turn |-> "none"] /\ runs' = [t \in Turn |-> 0]
      /\ proposing' = [t \in Turn |-> None] /\ connection' = [t \in Turn |-> "none"]
      /\ queued' = [a \in Action |-> 0] /\ acting' = [a \in Action |-> "none"]
  BY DEF Stop
<1>3. /\ runs' \in [Turn -> 0..MaxTurns] /\ queued' \in [Action -> 0..2]
      /\ stops' \in 0..MaxStops
  BY <1>2, Numbers DEF Stop, AssistantTypeOK
<1>4. /\ current' = {} /\ lock' = None /\ closing' = FALSE /\ up' = FALSE
      /\ UNCHANGED <<talk, turns, actions, endpoint, losses>>
  BY DEF Stop
<1>. QED
  BY <1>1, <1>2, <1>3, <1>4, Numbers DEF AssistantTypeOK, talk, turns, actions

\* Every step keeps the types.
LEMMA TypeStep == AssistantInv /\ [Next]_vars => AssistantTypeOK'
<1>. SUFFICES ASSUME AssistantInv, [Next]_vars  PROVE AssistantTypeOK'  OBVIOUS
<1>. USE Numbers, SessionNames
         DEF AssistantInv, AssistantTypeOK, InFlight, TurnEnds, Active, ActionEnds
<1>. USE DEF talk, turns, actions, jobs, acts, runtime, backend
<1>1. ASSUME NEW t \in Turn, SubmitMessage(t)  PROVE AssistantTypeOK'
  BY <1>1 DEF SubmitMessage, AppendsAlone, Goes
<1>2. ASSUME NEW t \in Turn, RunStarts(t)  PROVE AssistantTypeOK'
  BY <1>2 DEF RunStarts, Loads, Appends, Goes
<1>3. ASSUME NEW t \in Turn, RunExecutes(t)  PROVE AssistantTypeOK'
  BY <1>3 DEF RunExecutes, Goes
<1>4. ASSUME NEW t \in Turn, RunBreaks(t)  PROVE AssistantTypeOK'
  BY <1>4 DEF RunBreaks, Goes
<1>5. ASSUME NEW t \in Turn, RunCommits(t)  PROVE AssistantTypeOK'
  <2>1. CASE ~Fresh(Run(t))  BY <1>5, <2>1 DEF RunCommits, Goes
  <2>2. CASE Fresh(Run(t))
    <3>1. generation < t /\ turnGeneration[t] < t
      BY <1>5, <2>2 DEF RunCommits, TurnsInv, JobsFit, JobFits, Generations
    <3>2. generation' \in 0..MaxTurns
      BY <1>5, <2>2, <3>1 DEF RunCommits
    <3>. QED  BY <1>5, <2>2, <3>2 DEF RunCommits, Goes, AppendsAlone
  <2>. QED  BY <2>1, <2>2
<1>6. ASSUME NEW t \in Turn, TurnFails(t)  PROVE AssistantTypeOK'
  BY <1>6 DEF TurnFails, AppendsAlone, Leaves
<1>7. ASSUME NEW t \in Turn, ServerEnds(t)  PROVE AssistantTypeOK'
  BY <1>7 DEF ServerEnds
<1>8. ASSUME NEW t \in Turn, AwaitStarts(t)  PROVE AssistantTypeOK'
  BY <1>8 DEF AwaitStarts, Goes
<1>9. ASSUME NEW t \in Turn, ToolCalls(t)  PROVE AssistantTypeOK'
  BY <1>9 DEF ToolCalls, Loads, Goes
<1>10. ASSUME NEW t \in Turn, ToolChecks(t)  PROVE AssistantTypeOK'
  BY <1>10 DEF ToolChecks, Goes
<1>11. ASSUME NEW t \in Turn, ToolInserts(t)  PROVE AssistantTypeOK'
  <2>1. CASE Fresh(Tool(t)) /\ NextAction \in Action
    <3>1. proposing[t] \in Payload /\ ~Duplicate(proposing[t]) /\ Inserts(t, proposing[t])
      BY <1>11, <2>1 DEF ToolInserts, ActionsInv, ToolsFit
    <3>. QED  BY <1>11, <2>1, <3>1, InsertsOne DEF ToolInserts, AppendsAlone, Goes
  <2>2. CASE ~(Fresh(Tool(t)) /\ NextAction \in Action)
    BY <1>11, <2>2 DEF ToolInserts, Goes
  <2>. QED  BY <2>1, <2>2
<1>12. ASSUME NEW t \in Turn, AwaitFinishes(t)  PROVE AssistantTypeOK'
  <2>1. CASE UNCHANGED actions
    BY <1>12, <2>1 DEF AwaitFinishes, AppendsAlone, Leaves
  <2>2. ASSUME NextAction \in Action, NEW p \in Payload, ~Duplicate(p), Inserts(t, p)
        PROVE  AssistantTypeOK'
    BY <1>12, <2>2, InsertsOne DEF AwaitFinishes, AppendsAlone, Leaves
  <2>. QED  BY <1>12, <2>1, <2>2 DEF AwaitFinishes
<1>13. ASSUME NEW t \in Turn, AwaitBreaks(t)  PROVE AssistantTypeOK'
  BY <1>13 DEF AwaitBreaks, Goes
<1>14. ASSUME NEW t \in Turn, CancelAsks(t)  PROVE AssistantTypeOK'
  BY <1>14 DEF CancelAsks
<1>15. ASSUME NEW t \in Turn, CancelCommits(t)  PROVE AssistantTypeOK'
  BY <1>15 DEF CancelCommits, AppendsAlone
<1>16. ASSUME NEW t \in Turn, CloseTurn(t)  PROVE AssistantTypeOK'
  BY <1>16 DEF CloseTurn, Hangs
<1>17. ASSUME NEW a \in Action, Confirm(a)  PROVE AssistantTypeOK'
  BY <1>17 DEF Confirm, AppendsAlone
<1>18. ASSUME NEW a \in Action, Decline(a)  PROVE AssistantTypeOK'
  BY <1>18 DEF Decline, AppendsAlone
<1>19. ASSUME NEW a \in Action, ActStarts(a)  PROVE AssistantTypeOK'
  <2>1. action[a] # "none"  BY <1>19 DEF ActStarts, ActionsInv, ActsFit
  <2>. QED  BY <1>19, <2>1 DEF ActStarts, Loads
<1>20. ASSUME NEW a \in Action, ActRuns(a)  PROVE AssistantTypeOK'
  BY <1>20 DEF ActRuns, Loads, Effect
<1>21. ASSUME NEW a \in Action, ActEnds(a)  PROVE AssistantTypeOK'
  <2>1. action[a] # "none"  BY <1>21 DEF ActEnds, ActionsInv, ActsFit
  <2>. QED  BY <1>21, <2>1 DEF ActEnds, AppendsAlone
<1>22. ASSUME NEW a \in Action, ActRefused(a)  PROVE AssistantTypeOK'
  <2>1. action[a] # "none"  BY <1>22 DEF ActRefused, ActionsInv, ActsFit
  <2>. QED  BY <1>22, <2>1 DEF ActRefused, AppendsAlone
<1>23. ASSUME ArchiveConversation  PROVE AssistantTypeOK'
  BY <1>23 DEF ArchiveConversation, AppendsAlone
<1>24. ASSUME Close  PROVE AssistantTypeOK'
  BY <1>24 DEF Close
<1>25. ASSUME Crash  PROVE AssistantTypeOK'
  BY <1>25, StopTypes DEF Crash, Serving
<1>26. ASSUME Exit  PROVE AssistantTypeOK'
  BY <1>26, StopTypes DEF Exit, StopsFit
<1>27. ASSUME Startup  PROVE AssistantTypeOK'
  BY <1>27 DEF Startup, Resumed
<1>28. CASE UNCHANGED vars
  BY <1>28 DEF vars
<1>. QED
  BY <1>1, <1>2, <1>3, <1>4, <1>5, <1>6, <1>7, <1>8, <1>9, <1>10,
     <1>11, <1>12, <1>13, <1>14, <1>15, <1>16, <1>17, <1>18, <1>19, <1>20,
     <1>21, <1>22, <1>23, <1>24, <1>25, <1>26, <1>27, <1>28
     DEF Next, TurnSteps, ActSteps

\* A job that is over, with the Turn it ended or left as it is.
LEMMA TurnLeaves ==
  ASSUME AssistantTypeOK, TurnsInv, NEW t \in Turn, turn[t] # "none",
         turn' = turn \/ \E end \in TurnEnds : turn' = [turn EXCEPT ![t] = end],
         job' = [job EXCEPT ![t] = "none"], connection' = [connection EXCEPT ![t] = "none"],
         current' \subseteq current, UNCHANGED <<generation, turnGeneration, lock>>
  PROVE  TurnsInv'
<1>. USE DEF AssistantTypeOK, TurnsInv, InFlight, TurnEnds
<1>1. \A u \in Turn :
        \/ turn'[u] = turn[u]
        \/ u = t /\ turn'[u] \in TurnEnds
  OBVIOUS
<1>2. OneInFlight' /\ TurnsInOrder' /\ Generations'
  BY <1>1 DEF OneInFlight, TurnsInOrder, Generations
<1>3. \A u \in Turn : JobFits(u)'
  BY <1>1 DEF JobsFit, JobFits, Fresh
<1>. QED  BY <1>2, <1>3 DEF JobsFit

\* Every step keeps what jobs and Turns know of one another.
LEMMA TurnsStep == AssistantInv /\ [Next]_vars => TurnsInv'
<1>. SUFFICES ASSUME AssistantInv, [Next]_vars  PROVE TurnsInv'  OBVIOUS
<1>. USE Numbers, SessionsDiffer DEF AssistantInv, AssistantTypeOK, StopsFit, TurnsInv,
         OneInFlight, TurnsInOrder, Generations, JobsFit, JobFits, InFlight, TurnEnds, Fresh
<1>. USE DEF talk, turns, actions, jobs, acts, runtime, backend
<1>1. ASSUME NEW t \in Turn, SubmitMessage(t)  PROVE TurnsInv'
  BY <1>1 DEF SubmitMessage, AppendsAlone, Goes
<1>2. ASSUME NEW t \in Turn, RunStarts(t)  PROVE TurnsInv'
  BY <1>2 DEF RunStarts, Loads, Appends, Goes
<1>3. ASSUME NEW t \in Turn, RunExecutes(t)  PROVE TurnsInv'
  BY <1>3 DEF RunExecutes, Goes
<1>4. ASSUME NEW t \in Turn, RunBreaks(t)  PROVE TurnsInv'
  BY <1>4 DEF RunBreaks, Goes
<1>5. ASSUME NEW t \in Turn, RunCommits(t)  PROVE TurnsInv'
  <2>1. CASE ~Fresh(Run(t))  BY <1>5, <2>1 DEF RunCommits, Goes
  <2>2. CASE Fresh(Run(t))
    <3>1. turn[t] = "submitted" /\ generation < t /\ turnGeneration[t] < t
      BY <1>5, <2>2 DEF RunCommits
    <3>2. /\ turn' = [turn EXCEPT ![t] = "waiting"] /\ job' = [job EXCEPT ![t] = "awaits"]
          /\ generation' <= t /\ turnGeneration' = [turnGeneration EXCEPT ![t] = generation']
          /\ current' = {} /\ UNCHANGED <<connection, lock>>
      BY <1>5, <2>2, <3>1 DEF RunCommits, AppendsAlone, Goes
    <3>3. \A u \in Turn : turn'[u] \in {"none", "queued", "submitted"} => t < u
      <4>1. SUFFICES ASSUME NEW u \in Turn, turn'[u] \in {"none", "queued", "submitted"}
                     PROVE  t < u
        OBVIOUS
      <4>2. u # t /\ turn'[u] = turn[u]  BY <3>2, <4>1
      <4>3. turn[u] = "none"  BY <3>1, <4>1, <4>2
      <4>4. ~(u < t)  BY <3>1, <4>3
      <4>5. t \in Nat /\ u \in Nat  OBVIOUS
      <4>. QED  BY ONLY <4>2, <4>4, <4>5
    <3>4. Generations'  BY <3>2, <3>3, TypeStep
    <3>. QED  BY <3>1, <3>2, <3>4
  <2>. QED  BY <2>1, <2>2
<1>6. ASSUME NEW t \in Turn, TurnFails(t)  PROVE TurnsInv'
  <2>1. turn[t] # "none"  BY <1>6 DEF TurnFails
  <2>. QED  BY <1>6, <2>1, TurnLeaves DEF TurnFails, AppendsAlone, Leaves
<1>7. ASSUME NEW t \in Turn, ServerEnds(t)  PROVE TurnsInv'
  BY <1>7 DEF ServerEnds
<1>8. ASSUME NEW t \in Turn, AwaitStarts(t)  PROVE TurnsInv'
  BY <1>8 DEF AwaitStarts, Goes
<1>9. ASSUME NEW t \in Turn, ToolCalls(t)  PROVE TurnsInv'
  BY <1>9 DEF ToolCalls, Loads, Goes
<1>10. ASSUME NEW t \in Turn, ToolChecks(t)  PROVE TurnsInv'
  BY <1>10 DEF ToolChecks, Goes
<1>11. ASSUME NEW t \in Turn, ToolInserts(t)  PROVE TurnsInv'
  BY <1>11 DEF ToolInserts, Inserts, AppendsAlone, Goes
<1>12. ASSUME NEW t \in Turn, AwaitFinishes(t)  PROVE TurnsInv'
  <2>1. turn[t] # "none"  BY <1>12 DEF AwaitFinishes
  <2>. QED  BY <1>12, <2>1, TurnLeaves DEF AwaitFinishes, AppendsAlone, Leaves
<1>13. ASSUME NEW t \in Turn, AwaitBreaks(t)  PROVE TurnsInv'
  BY <1>13 DEF AwaitBreaks, Goes
<1>14. ASSUME NEW t \in Turn, CancelAsks(t)  PROVE TurnsInv'
  BY <1>14 DEF CancelAsks
<1>15. ASSUME NEW t \in Turn, CancelCommits(t)  PROVE TurnsInv'
  BY <1>15 DEF CancelCommits, AppendsAlone
<1>16. ASSUME NEW t \in Turn, CloseTurn(t)  PROVE TurnsInv'
  BY <1>16 DEF CloseTurn, Hangs
<1>17. ASSUME NEW a \in Action, Confirm(a)  PROVE TurnsInv'
  BY <1>17 DEF Confirm, AppendsAlone
<1>18. ASSUME NEW a \in Action, Decline(a)  PROVE TurnsInv'
  BY <1>18 DEF Decline, AppendsAlone
<1>19. ASSUME NEW a \in Action, ActStarts(a)  PROVE TurnsInv'
  BY <1>19 DEF ActStarts, Loads
<1>20. ASSUME NEW a \in Action, ActRuns(a)  PROVE TurnsInv'
  BY <1>20 DEF ActRuns, Loads, Effect
<1>21. ASSUME NEW a \in Action, ActEnds(a)  PROVE TurnsInv'
  BY <1>21 DEF ActEnds, AppendsAlone
<1>22. ASSUME NEW a \in Action, ActRefused(a)  PROVE TurnsInv'
  BY <1>22 DEF ActRefused, AppendsAlone
<1>23. ASSUME ArchiveConversation  PROVE TurnsInv'
  BY <1>23 DEF ArchiveConversation, AppendsAlone
<1>24. ASSUME Close  PROVE TurnsInv'
  BY <1>24 DEF Close
<1>25. ASSUME Crash  PROVE TurnsInv'
  BY <1>25 DEF Crash, Stop
<1>26. ASSUME Exit  PROVE TurnsInv'
  BY <1>26 DEF Exit, Stop
<1>27. ASSUME Startup  PROVE TurnsInv'
  BY <1>27 DEF Startup, Resumed
<1>28. CASE UNCHANGED vars
  BY <1>28 DEF vars
<1>. QED
  BY <1>1, <1>2, <1>3, <1>4, <1>5, <1>6, <1>7, <1>8, <1>9, <1>10,
     <1>11, <1>12, <1>13, <1>14, <1>15, <1>16, <1>17, <1>18, <1>19, <1>20,
     <1>21, <1>22, <1>23, <1>24, <1>25, <1>26, <1>27, <1>28
     DEF Next, TurnSteps, ActSteps

\* An Action that is added leaves what is known of the others, and every tool call
\* must look again.
LEMMA InsertKeeps ==
  ASSUME AssistantTypeOK, ActionsInv, NEW t \in Turn, NEW p \in Payload,
         NextAction \in Action, ~Duplicate(p), Inserts(t, p),
         current' = {}, UNCHANGED <<acts, lock, up>>,
         \A u \in Turn : job'[u] \in {"proposes", "inserts"} =>
                           job[u] = job'[u] /\ proposing'[u] = proposing[u]
  PROVE  ActionsInv'
<1>1. /\ ActionsInOrder' /\ ActiveActionsDistinct' /\ effect' = effect
      /\ \A a \in Action : action[a] # "none" =>
                          action'[a] = action[a] /\ payload'[a] = payload[a]
      /\ \A a \in Action : action[a] = "none" => action'[a] \in {"none", "proposed"}
  BY InsertsOne
<1>2. ToolsFit'  BY DEF ActionsInv, ToolsFit, Fresh
<1>3. ActsFit'  BY <1>1 DEF ActionsInv, ActsFit, acts, AssistantTypeOK
<1>4. OneEffect'  BY <1>1 DEF ActionsInv, OneEffect, AssistantTypeOK
<1>5. ConfirmedIsQueued'  BY <1>1 DEF ActionsInv, ConfirmedIsQueued, acts
<1>. QED  BY <1>1, <1>2, <1>3, <1>4, <1>5 DEF ActionsInv

\* Every step keeps what is known of the Actions.
LEMMA ActionsStep == AssistantInv /\ [Next]_vars => ActionsInv'
<1>. SUFFICES ASSUME AssistantInv, [Next]_vars  PROVE ActionsInv'  OBVIOUS
<1>. USE Numbers, SessionsDiffer DEF AssistantInv, AssistantTypeOK, StopsFit, ActionsInv,
         ActionsInOrder, ToolsFit, ActsFit, ActiveActionsDistinct, OneEffect,
         ConfirmedIsQueued, Active, ActionEnds, Fresh, Duplicate
<1>. USE DEF talk, turns, actions, jobs, acts, runtime, backend
<1>1. ASSUME NEW t \in Turn, SubmitMessage(t)  PROVE ActionsInv'
  BY <1>1 DEF SubmitMessage, AppendsAlone, Goes
<1>2. ASSUME NEW t \in Turn, RunStarts(t)  PROVE ActionsInv'
  BY <1>2 DEF RunStarts, Loads, Appends, Goes
<1>3. ASSUME NEW t \in Turn, RunExecutes(t)  PROVE ActionsInv'
  BY <1>3 DEF RunExecutes, Goes
<1>4. ASSUME NEW t \in Turn, RunBreaks(t)  PROVE ActionsInv'
  BY <1>4 DEF RunBreaks, Goes
<1>5. ASSUME NEW t \in Turn, RunCommits(t)  PROVE ActionsInv'
  BY <1>5 DEF RunCommits, AppendsAlone, Goes
<1>6. ASSUME NEW t \in Turn, TurnFails(t)  PROVE ActionsInv'
  BY <1>6 DEF TurnFails, AppendsAlone, Leaves
<1>7. ASSUME NEW t \in Turn, ServerEnds(t)  PROVE ActionsInv'
  BY <1>7 DEF ServerEnds
<1>8. ASSUME NEW t \in Turn, AwaitStarts(t)  PROVE ActionsInv'
  BY <1>8 DEF AwaitStarts, Goes
<1>9. ASSUME NEW t \in Turn, ToolCalls(t)  PROVE ActionsInv'
  <2>1. PICK p \in Payload : proposing' = [proposing EXCEPT ![t] = p]
    BY <1>9 DEF ToolCalls
  <2>2. p # None  BY AssistantAssumption DEF AssistantAssumption
  <2>3. /\ job' = [job EXCEPT ![t] = "proposes"] /\ current' = current \cup {Tool(t)}
        /\ UNCHANGED <<actions, acts, lock, up>>
    BY <1>9 DEF ToolCalls, Loads, Goes
  <2>4. ToolsFit'  BY <2>1, <2>2, <2>3
  <2>. QED  BY <2>3, <2>4
<1>10. ASSUME NEW t \in Turn, ToolChecks(t)  PROVE ActionsInv'
  BY <1>10 DEF ToolChecks, Goes
<1>11. ASSUME NEW t \in Turn, ToolInserts(t)  PROVE ActionsInv'
  <2>1. job' = [job EXCEPT ![t] = "waits"] /\ UNCHANGED <<proposing, acts, lock, up>>
    BY <1>11 DEF ToolInserts, Goes
  <2>2. CASE Fresh(Tool(t)) /\ NextAction \in Action
    <3>1. proposing[t] \in Payload /\ ~Duplicate(proposing[t]) /\ Inserts(t, proposing[t])
      BY <1>11, <2>2 DEF ToolInserts
    <3>2. current' = {}  BY <1>11, <2>2 DEF ToolInserts, AppendsAlone
    <3>. QED  BY <2>1, <2>2, <3>1, <3>2, InsertKeeps
  <2>3. CASE ~(Fresh(Tool(t)) /\ NextAction \in Action)
    BY <1>11, <2>1, <2>3 DEF ToolInserts
  <2>. QED  BY <2>2, <2>3
<1>12. ASSUME NEW t \in Turn, AwaitFinishes(t)  PROVE ActionsInv'
  <2>1. /\ job' = [job EXCEPT ![t] = "none"] /\ proposing' = [proposing EXCEPT ![t] = None]
        /\ UNCHANGED <<acts, lock, up>>
    BY <1>12 DEF AwaitFinishes, Leaves
  <2>2. CASE UNCHANGED actions
    BY <1>12, <2>1, <2>2 DEF AwaitFinishes, AppendsAlone
  <2>3. ASSUME NextAction \in Action, NEW p \in Payload, ~Duplicate(p), Inserts(t, p),
               current' = {}
        PROVE  ActionsInv'
    BY <2>1, <2>3, InsertKeeps
  <2>. QED  BY <1>12, <2>2, <2>3 DEF AwaitFinishes, AppendsAlone
<1>13. ASSUME NEW t \in Turn, AwaitBreaks(t)  PROVE ActionsInv'
  BY <1>13 DEF AwaitBreaks, Goes
<1>14. ASSUME NEW t \in Turn, CancelAsks(t)  PROVE ActionsInv'
  <2>1. \A a \in Action : acting[a] = "none"  BY <1>14 DEF CancelAsks, Unlocked
  <2>. QED  BY <1>14, <2>1 DEF CancelAsks
<1>15. ASSUME NEW t \in Turn, CancelCommits(t)  PROVE ActionsInv'
  BY <1>15 DEF CancelCommits, AppendsAlone
<1>16. ASSUME NEW t \in Turn, CloseTurn(t)  PROVE ActionsInv'
  BY <1>16 DEF CloseTurn, Hangs
<1>17. ASSUME NEW a \in Action, Confirm(a)  PROVE ActionsInv'
  <2>1. /\ queued' = [queued EXCEPT ![a] = queued[a] + 1]
        /\ UNCHANGED <<payload, effect, jobs, acting, lock, up>>
        /\ current' \subseteq current
        /\ action[a] \in Active
        /\ \/ action' = action
           \/ action[a] = "proposed" /\ action' = [action EXCEPT ![a] = "confirmed"]
    BY <1>17 DEF Confirm, AppendsAlone
  <2>2. \A b \in Action : action'[b] \in Active <=> action[b] \in Active  BY <2>1
  <2>3. ActsFit' /\ ConfirmedIsQueued'  BY <2>1
  <2>4. ActionsInOrder' /\ OneEffect'
    <3>1. \A b \in Action : action'[b] = "none" <=> action[b] = "none"  BY <2>1
    <3>2. \A b \in Action : action'[b] = action[b] \/ effect[b] = 0  BY <2>1
    <3>. QED  BY <2>1, <3>1, <3>2
  <2>5. ToolsFit' /\ ActiveActionsDistinct'  BY <2>1, <2>2
  <2>. QED  BY <2>3, <2>4, <2>5
<1>18. ASSUME NEW a \in Action, Decline(a)  PROVE ActionsInv'
  BY <1>18 DEF Decline, AppendsAlone
<1>19. ASSUME NEW a \in Action, ActStarts(a)  PROVE ActionsInv'
  <2>1. CASE action[a] \in ActionEnds  BY <1>19, <2>1 DEF ActStarts
  <2>2. CASE action[a] \notin ActionEnds
    <3>1. action[a] \in Active /\ \A b \in Action : acting[b] = "none"
      BY <1>19, <2>2 DEF ActStarts, Unlocked
    <3>2. /\ queued' = [queued EXCEPT ![a] = queued[a] - 1]
          /\ action' = [action EXCEPT ![a] = "executing"]
          /\ acting' = [acting EXCEPT ![a] = "acts"]
          /\ lock' = Act(a) /\ current' = current \cup {Act(a)}
          /\ UNCHANGED <<payload, effect, jobs, up>>
      BY <1>19, <2>2 DEF ActStarts, Loads
    <3>3. \A b \in Action : action'[b] \in Active <=> action[b] \in Active  BY <3>1, <3>2
    <3>4. ToolsFit' /\ ActiveActionsDistinct'  BY <3>2, <3>3
    <3>5. ActionsInOrder' /\ ActsFit' /\ OneEffect' /\ ConfirmedIsQueued'  BY <3>1, <3>2
    <3>. QED  BY <3>4, <3>5
  <2>. QED  BY <2>1, <2>2
<1>20. ASSUME NEW a \in Action, ActRuns(a)  PROVE ActionsInv'
  <2>1. /\ acting[a] = "acts" /\ UNCHANGED <<action, payload, jobs, queued, lock, up>>
        /\ \E p \in {"acted", "refused"} : acting' = [acting EXCEPT ![a] = p]
        /\ current' = current \cup {Act(a)} \/ current' = current
        /\ \/ effect' = effect
           \/ effect' = [effect EXCEPT ![a] = Effect(a)]
    BY <1>20 DEF ActRuns, Loads
  <2>2. payload[a] \notin Repeats => Effect(a) = 1  BY DEF Effect
  <2>3. action[a] = "executing"  BY <2>1
  <2>4. OneEffect'  BY <2>1, <2>2, <2>3
  <2>5. ActionsInOrder' /\ ActiveActionsDistinct' /\ ActsFit' /\ ConfirmedIsQueued'  BY <2>1
  <2>6. ToolsFit'  BY <2>1
  <2>. QED  BY <2>4, <2>5, <2>6
<1>21. ASSUME NEW a \in Action, ActEnds(a)  PROVE ActionsInv'
  BY <1>21 DEF ActEnds, AppendsAlone
<1>22. ASSUME NEW a \in Action, ActRefused(a)  PROVE ActionsInv'
  <2>1. /\ acting' = [acting EXCEPT ![a] = "none"] /\ current' \subseteq current
        /\ \/ action' = action
           \/ action' = [action EXCEPT ![a] = "failed"]
        /\ UNCHANGED <<payload, effect, jobs, queued, up>>
    BY <1>22 DEF ActRefused, AppendsAlone
  <2>2. action[a] = "executing" /\ \A b \in Action : acting'[b] = "none"
    BY <1>22, <2>1 DEF ActRefused
  <2>3. \A b \in Action : action'[b] \in Active => action[b] \in Active  BY <2>1
  <2>4. ToolsFit' /\ ActiveActionsDistinct'  BY <2>1, <2>3
  <2>5. ActionsInOrder' /\ ActsFit' /\ OneEffect' /\ ConfirmedIsQueued'  BY <2>1, <2>2
  <2>. QED  BY <2>4, <2>5
<1>23. ASSUME ArchiveConversation  PROVE ActionsInv'
  BY <1>23 DEF ArchiveConversation, AppendsAlone
<1>24. ASSUME Close  PROVE ActionsInv'
  BY <1>24 DEF Close
<1>25. ASSUME Crash  PROVE ActionsInv'
  BY <1>25 DEF Crash, Stop
<1>26. ASSUME Exit  PROVE ActionsInv'
  BY <1>26 DEF Exit, Stop
<1>27. ASSUME Startup  PROVE ActionsInv'
  BY <1>27 DEF Startup, Resumed
<1>28. CASE UNCHANGED vars
  BY <1>28 DEF vars
<1>. QED
  BY <1>1, <1>2, <1>3, <1>4, <1>5, <1>6, <1>7, <1>8, <1>9, <1>10,
     <1>11, <1>12, <1>13, <1>14, <1>15, <1>16, <1>17, <1>18, <1>19, <1>20,
     <1>21, <1>22, <1>23, <1>24, <1>25, <1>26, <1>27, <1>28
     DEF Next, TurnSteps, ActSteps

\* A shutdown and its end.
LEMMA StopsStep == AssistantInv /\ [Next]_vars => StopsFit'
<1>. SUFFICES ASSUME AssistantInv, [Next]_vars  PROVE StopsFit'  OBVIOUS
<1>. USE SessionsDiffer DEF AssistantInv, StopsFit
<1>. USE DEF talk, turns, actions, jobs, acts, runtime, backend
<1>1. ASSUME NEW t \in Turn, SubmitMessage(t)  PROVE StopsFit'
  BY <1>1 DEF SubmitMessage, AppendsAlone, Goes
<1>2. ASSUME NEW t \in Turn, RunStarts(t)  PROVE StopsFit'
  BY <1>2 DEF RunStarts, Loads, Appends, Goes
<1>3. ASSUME NEW t \in Turn, RunExecutes(t)  PROVE StopsFit'
  BY <1>3 DEF RunExecutes, Goes
<1>4. ASSUME NEW t \in Turn, RunBreaks(t)  PROVE StopsFit'
  BY <1>4 DEF RunBreaks, Goes
<1>5. ASSUME NEW t \in Turn, RunCommits(t)  PROVE StopsFit'
  BY <1>5 DEF RunCommits, AppendsAlone, Goes
<1>6. ASSUME NEW t \in Turn, TurnFails(t)  PROVE StopsFit'
  BY <1>6 DEF TurnFails, AppendsAlone, Leaves
<1>7. ASSUME NEW t \in Turn, ServerEnds(t)  PROVE StopsFit'
  BY <1>7 DEF ServerEnds
<1>8. ASSUME NEW t \in Turn, AwaitStarts(t)  PROVE StopsFit'
  BY <1>8 DEF AwaitStarts, Goes
<1>9. ASSUME NEW t \in Turn, ToolCalls(t)  PROVE StopsFit'
  BY <1>9 DEF ToolCalls, Loads, Goes
<1>10. ASSUME NEW t \in Turn, ToolChecks(t)  PROVE StopsFit'
  BY <1>10 DEF ToolChecks, Goes
<1>11. ASSUME NEW t \in Turn, ToolInserts(t)  PROVE StopsFit'
  BY <1>11 DEF ToolInserts, Inserts, AppendsAlone, Goes
<1>12. ASSUME NEW t \in Turn, AwaitFinishes(t)  PROVE StopsFit'
  BY <1>12 DEF AwaitFinishes, Inserts, AppendsAlone, Leaves
<1>13. ASSUME NEW t \in Turn, AwaitBreaks(t)  PROVE StopsFit'
  BY <1>13 DEF AwaitBreaks, Goes
<1>14. ASSUME NEW t \in Turn, CancelAsks(t)  PROVE StopsFit'
  BY <1>14 DEF CancelAsks, Serving
<1>15. ASSUME NEW t \in Turn, CancelCommits(t)  PROVE StopsFit'
  BY <1>15 DEF CancelCommits, AppendsAlone
<1>16. ASSUME NEW t \in Turn, CloseTurn(t)  PROVE StopsFit'
  BY <1>16 DEF CloseTurn, Hangs
<1>17. ASSUME NEW a \in Action, Confirm(a)  PROVE StopsFit'
  BY <1>17 DEF Confirm, AppendsAlone
<1>18. ASSUME NEW a \in Action, Decline(a)  PROVE StopsFit'
  BY <1>18 DEF Decline, AppendsAlone
<1>19. ASSUME NEW a \in Action, ActStarts(a)  PROVE StopsFit'
  BY <1>19 DEF ActStarts, Loads
<1>20. ASSUME NEW a \in Action, ActRuns(a)  PROVE StopsFit'
  BY <1>20 DEF ActRuns, Loads, Effect
<1>21. ASSUME NEW a \in Action, ActEnds(a)  PROVE StopsFit'
  BY <1>21 DEF ActEnds, AppendsAlone
<1>22. ASSUME NEW a \in Action, ActRefused(a)  PROVE StopsFit'
  BY <1>22 DEF ActRefused, AppendsAlone
<1>23. ASSUME ArchiveConversation  PROVE StopsFit'
  BY <1>23 DEF ArchiveConversation, AppendsAlone
<1>24. ASSUME Close  PROVE StopsFit'
  BY <1>24 DEF Close, Serving
<1>25. ASSUME Crash  PROVE StopsFit'
  BY <1>25 DEF Crash, Stop
<1>26. ASSUME Exit  PROVE StopsFit'
  BY <1>26 DEF Exit, Stop
<1>27. ASSUME Startup  PROVE StopsFit'
  BY <1>27 DEF Startup, Resumed
<1>28. CASE UNCHANGED vars
  BY <1>28 DEF vars
<1>. QED
  BY <1>1, <1>2, <1>3, <1>4, <1>5, <1>6, <1>7, <1>8, <1>9, <1>10,
     <1>11, <1>12, <1>13, <1>14, <1>15, <1>16, <1>17, <1>18, <1>19, <1>20,
     <1>21, <1>22, <1>23, <1>24, <1>25, <1>26, <1>27, <1>28
     DEF Next, TurnSteps, ActSteps

\* The invariant is inductive.
LEMMA AssistantInductive == AssistantInv /\ [Next]_vars => AssistantInv'
BY TypeStep, TurnsStep, ActionsStep, StopsStep DEF AssistantInv

-----------------------------------------------------------------------------
(* The theorems.                                                           *)

\* The invariant holds in every state.
LEMMA AssistantKept == Spec => []AssistantInv
BY AssistantStart, AssistantInductive, PTL DEF Spec

\* The state of the assistant is well-typed, whatever crashes: the generations of a
\* Thread and the numbers of Actions stay within their bounds.
THEOREM AssistantTypeCorrect == Spec => []AssistantTypeOK
<1>1. AssistantInv => AssistantTypeOK  BY DEF AssistantInv
<1>. QED  BY <1>1, AssistantKept, PTL

\* A user never waits for two answers at once, for any number of messages.
THEOREM OneAnswerAtOnce == Spec => []OneTurnInFlight
<1>1. AssistantInv => OneTurnInFlight
  <2>. SUFFICES ASSUME AssistantInv  PROVE OneTurnInFlight  OBVIOUS
  <2>. DEFINE open == {t \in Turn : turn[t] \in InFlight}
  <2>1. CASE open = {}  BY <2>1, FS_EmptySet DEF OneTurnInFlight
  <2>2. ASSUME NEW t \in open  PROVE OneTurnInFlight
    <3>1. open = {t}  BY <2>2 DEF AssistantInv, TurnsInv, OneInFlight
    <3>2. Cardinality(open) = 1  BY <3>1, FS_Singleton
    <3>. QED  BY <3>2 DEF OneTurnInFlight
  <2>. QED  BY <2>1, <2>2
<1>. QED  BY <1>1, AssistantKept, PTL

\* A conversation never has two open Actions that would do the same.
THEOREM OpenActionsDiffer == Spec => []ActiveActionsDistinct
<1>1. AssistantInv => ActiveActionsDistinct  BY DEF AssistantInv, ActionsInv
<1>. QED  BY <1>1, AssistantKept, PTL

\* What the user confirmed is done once, but for the retry of a Task, and what he did not
\* confirm never, however often a process died while doing it.
THEOREM DoneOnce == Spec => []OneEffect
<1>1. AssistantInv => OneEffect  BY DEF AssistantInv, ActionsInv
<1>. QED  BY <1>1, AssistantKept, PTL

\* What the user confirmed has a job that will execute it, after any restart.
THEOREM ConfirmationIsKept == Spec => []ConfirmedIsQueued
<1>1. AssistantInv => ConfirmedIsQueued  BY DEF AssistantInv, ActionsInv
<1>. QED  BY <1>1, AssistantKept, PTL

\* No step puts another status over a Turn that was cancelled.
LEMMA CancelledStep ==
  ASSUME AssistantInv, [Next]_vars, NEW u \in Turn, turn[u] = "cancelled"
  PROVE  turn'[u] = "cancelled"
<1>. USE DEF AssistantInv, AssistantTypeOK, TurnsInv, JobsFit, JobFits, Fresh
<1>. USE DEF talk, turns, actions, jobs, acts, runtime, backend
<1>1. ASSUME NEW t \in Turn, SubmitMessage(t)  PROVE turn'[u] = "cancelled"
  BY <1>1 DEF SubmitMessage, AppendsAlone, Goes
<1>2. ASSUME NEW t \in Turn, RunStarts(t)  PROVE turn'[u] = "cancelled"
  BY <1>2 DEF RunStarts, Loads, Appends, Goes
<1>3. ASSUME NEW t \in Turn, RunExecutes(t)  PROVE turn'[u] = "cancelled"
  BY <1>3 DEF RunExecutes, Goes
<1>4. ASSUME NEW t \in Turn, RunBreaks(t)  PROVE turn'[u] = "cancelled"
  BY <1>4 DEF RunBreaks, Goes
<1>5. ASSUME NEW t \in Turn, RunCommits(t)  PROVE turn'[u] = "cancelled"
  BY <1>5 DEF RunCommits, AppendsAlone, Goes
<1>6. ASSUME NEW t \in Turn, TurnFails(t)  PROVE turn'[u] = "cancelled"
  BY <1>6 DEF TurnFails, AppendsAlone, Leaves
<1>7. ASSUME NEW t \in Turn, ServerEnds(t)  PROVE turn'[u] = "cancelled"
  BY <1>7 DEF ServerEnds
<1>8. ASSUME NEW t \in Turn, AwaitStarts(t)  PROVE turn'[u] = "cancelled"
  BY <1>8 DEF AwaitStarts, Goes
<1>9. ASSUME NEW t \in Turn, ToolCalls(t)  PROVE turn'[u] = "cancelled"
  BY <1>9 DEF ToolCalls, Loads, Goes
<1>10. ASSUME NEW t \in Turn, ToolChecks(t)  PROVE turn'[u] = "cancelled"
  BY <1>10 DEF ToolChecks, Goes
<1>11. ASSUME NEW t \in Turn, ToolInserts(t)  PROVE turn'[u] = "cancelled"
  BY <1>11 DEF ToolInserts, Inserts, AppendsAlone, Goes
<1>12. ASSUME NEW t \in Turn, AwaitFinishes(t)  PROVE turn'[u] = "cancelled"
  BY <1>12 DEF AwaitFinishes, Inserts, AppendsAlone, Leaves
<1>13. ASSUME NEW t \in Turn, AwaitBreaks(t)  PROVE turn'[u] = "cancelled"
  BY <1>13 DEF AwaitBreaks, Goes
<1>14. ASSUME NEW t \in Turn, CancelAsks(t)  PROVE turn'[u] = "cancelled"
  BY <1>14 DEF CancelAsks
<1>15. ASSUME NEW t \in Turn, CancelCommits(t)  PROVE turn'[u] = "cancelled"
  BY <1>15 DEF CancelCommits, AppendsAlone
<1>16. ASSUME NEW t \in Turn, CloseTurn(t)  PROVE turn'[u] = "cancelled"
  BY <1>16 DEF CloseTurn, Hangs
<1>17. ASSUME NEW a \in Action, Confirm(a)  PROVE turn'[u] = "cancelled"
  BY <1>17 DEF Confirm, AppendsAlone
<1>18. ASSUME NEW a \in Action, Decline(a)  PROVE turn'[u] = "cancelled"
  BY <1>18 DEF Decline, AppendsAlone
<1>19. ASSUME NEW a \in Action, ActStarts(a)  PROVE turn'[u] = "cancelled"
  BY <1>19 DEF ActStarts, Loads
<1>20. ASSUME NEW a \in Action, ActRuns(a)  PROVE turn'[u] = "cancelled"
  BY <1>20 DEF ActRuns, Loads, Effect
<1>21. ASSUME NEW a \in Action, ActEnds(a)  PROVE turn'[u] = "cancelled"
  BY <1>21 DEF ActEnds, AppendsAlone
<1>22. ASSUME NEW a \in Action, ActRefused(a)  PROVE turn'[u] = "cancelled"
  BY <1>22 DEF ActRefused, AppendsAlone
<1>23. ASSUME ArchiveConversation  PROVE turn'[u] = "cancelled"
  BY <1>23 DEF ArchiveConversation, AppendsAlone
<1>24. ASSUME Close  PROVE turn'[u] = "cancelled"
  BY <1>24 DEF Close
<1>25. ASSUME Crash  PROVE turn'[u] = "cancelled"
  BY <1>25 DEF Crash, Stop
<1>26. ASSUME Exit  PROVE turn'[u] = "cancelled"
  BY <1>26 DEF Exit, Stop
<1>27. ASSUME Startup  PROVE turn'[u] = "cancelled"
  BY <1>27 DEF Startup, Resumed
<1>28. CASE UNCHANGED vars
  BY <1>28 DEF vars
<1>. QED
  BY <1>1, <1>2, <1>3, <1>4, <1>5, <1>6, <1>7, <1>8, <1>9, <1>10,
     <1>11, <1>12, <1>13, <1>14, <1>15, <1>16, <1>17, <1>18, <1>19, <1>20,
     <1>21, <1>22, <1>23, <1>24, <1>25, <1>26, <1>27, <1>28
     DEF Next, TurnSteps, ActSteps

\* A cancelled Turn stays cancelled, whichever thread writes next.
THEOREM CancelledIsFinal == Spec => CancelledStays
<1>1. AssistantInv /\ [Next]_vars
      => [\A t \in Turn : turn[t] = "cancelled" => turn'[t] = "cancelled"]_turn
  BY CancelledStep
<1>. QED  BY <1>1, AssistantKept, PTL DEF Spec, CancelledStays

==============================================================================
