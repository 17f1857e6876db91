-------------------------- MODULE RuntimeTurnsProofs --------------------------
(***************************************************************************)
(* The Turns of a task, for any number of executions, Turns, lost          *)
(* connections, shutdowns and crashes.                                     *)
(*                                                                         *)
(* The invariant follows a Turn from execute to its report: the Turns of   *)
(* an execution are numbered as they begin, the adapter owns none but the  *)
(* last, a worker that has yet to report is the one of the Turn its        *)
(* execution waits for, what the worker and the adapter know of the end of *)
(* a Turn is true of the App Server, and a call of cancel remembers what   *)
(* it has not asked for yet.                                               *)
(***************************************************************************)
EXTENDS RuntimeTurns, FiniteSetTheorems, SequenceTheorems, TLAPS

-----------------------------------------------------------------------------
(* The inductive invariant.                                                *)

\* The fields of a session and of a call of cancel.
Queues == {<<>>, <<"ask">>, <<"end">>, <<"ask", "end">>}
Sessions == [open : BOOLEAN, inbox : Queues, ack : BOOLEAN, done : BOOLEAN]
Calls == [at : {"none", "dispatch", "refused", "accepted", "records"},
          targets : SUBSET Execution, sent : {None} \cup (Execution \X (0..MaxTurns))]

\* The types, by the part of the system that keeps them.
ProductTypes ==
  /\ task \in {"waiting", "failed", "cancelled"}
  /\ exec \in [Execution -> {"submitted", "running", "waiting", "completed",
                             "failed", "cancelled"}]
  /\ turn \in [Execution -> 0..MaxTurns] /\ spent \in [Execution -> 0..MaxTurns]
  /\ refused \subseteq Execution /\ unconfirmed \subseteq Execution /\ failures \subseteq Worker
  /\ approval \in [Execution -> [Turn -> Decisions \cup {"none", "pending"}]]
AdapterTypes ==
  /\ server \in [Execution -> [Turn -> ServerStatus]]
  /\ session \in [Execution -> [Turn -> Sessions]]
  /\ active \in [Execution -> 0..MaxTurns]
NodeTypes ==
  /\ submitting \in Execution \cup {None}
  /\ returned \in {None} \cup ({"waiting", "completed"} \X Turn)
  /\ returned # None => submitting # None
WorkerTypes ==
  /\ threads \in [Execution -> {None} \cup 0..MaxTurns]
  /\ worker \in [Execution -> [0..MaxTurns -> Places]]
AskTypes == waiters \subseteq Execution \X Turn /\ woken \subseteq waiters
CallTypes == cancelling \in [Caller -> Calls]
BackendTypes ==
  /\ closing \in {"no", "approvals", "supervisor"}
  /\ up \in BOOLEAN /\ endpoint \in BOOLEAN /\ orphans \subseteq Execution
  /\ losses \in 0..MaxLosses /\ crashes \in 0..MaxCrashes
  /\ closing # "no" => up /\ crashes < MaxCrashes
  /\ ~up => submitting = None
Shape ==
  /\ ProductTypes /\ AdapterTypes /\ NodeTypes /\ WorkerTypes /\ AskTypes /\ CallTypes
  /\ BackendTypes

\* Turns are numbered as they begin, and what is known of a Turn began.
Begun(e, t) == server[e][t] # "none"
BegunInv ==
  \A e \in Execution :
    /\ \A t, u \in Turn : u < t /\ Begun(e, t) => Begun(e, u)
    /\ \A t \in {turn[e], spent[e], active[e]} : t # 0 => Begun(e, t)
    /\ submitting = e /\ returned # None => Begun(e, returned[2])
    /\ \A t \in Turn : ~Begun(e, t) => /\ session[e][t] = NoSession
                                       /\ approval[e][t] = "none"
                                       /\ worker[e][t] = "none"

\* What the reader thread queued, and what worker and adapter know of the end.
Asked == {"asks", "reads", "sleeps", "answers"}
Queue(e, t) ==
  /\ server[e][t] = "running" => session[e][t].inbox = <<>> /\ worker[e][t] \notin Asked
  /\ server[e][t] = "asking" => session[e][t].inbox \in {<<>>, <<"ask">>}
  /\ server[e][t] = "asking" /\ worker[e][t] \in Asked => session[e][t].inbox = <<>>
  /\ worker[e][t] \in {"completes", "resumes"} => session[e][t].done
  /\ session[e][t].done => server[e][t] = "completed"
  /\ session[e][t].ack \/ worker[e][t] = "cancels" => server[e][t] = "interrupted"
QueueInv == \A e \in Execution, t \in Turn : Queue(e, t)

\* The life of an execution and of its task.
Life(e) ==
  /\ exec[e] \in {"submitted", "running"} => turn[e] = 0
  /\ exec[e] \in {"waiting", "completed"} => turn[e] # 0
  /\ exec[e] = "completed" => server[e][turn[e]] = "completed"
  /\ exec[e] = "failed" => task # "cancelled" /\ active[e] = 0
  /\ exec[e] = "cancelled" => task = "cancelled"
  /\ e \in refused => Refusals /\ exec[e] = "completed"
  /\ task = "cancelled" => exec[e] \in {"completed", "cancelled"}
  /\ submitting = e => exec[e] = "running"
  /\ e \in orphans => /\ ~up /\ turn[e] # 0 /\ active[e] = 0
                      /\ exec[e] \in {"waiting", "cancelled"}
                      /\ \A t \in Turn : worker[e][t] = "none"
LifeInv == \A e \in Execution : Life(e)

\* Between the commits of a node the adapter owns a Turn that is new, or one whose
\* delivery was refused.
Submission(e) ==
  /\ exec[e] \in {"submitted", "running"} /\ active[e] # 0
       => \/ submitting = e /\ returned # None
          \/ Refusals /\ session[e][active[e]].done
  /\ submitting = e /\ returned # None =>
       /\ active[e] \in {0, returned[2]}
       /\ \/ /\ returned[1] = "waiting" /\ worker[e][returned[2]] = "none"
             /\ active[e] = 0 => closing = "supervisor"
          \/ returned[1] = "completed" /\ server[e][returned[2]] = "completed"
  /\ e \in refused /\ active[e] # 0 => session[e][active[e]].done
SubmissionInv == \A e \in Execution : Submission(e)

\* A worker that has yet to report is the one of the Turn of its execution.
Owner(e) ==
  /\ turn[e] # 0 => active[e] \in {0, turn[e]}
  /\ active[e] # 0 /\ worker[e][active[e]] # "none" => threads[e] = active[e]
  /\ threads[e] = None => \A t \in Turn : worker[e][t] = "none"
  /\ threads[e] # 0 /\ worker[e][0] = "none"
  /\ \A t \in Turn :
       /\ worker[e][t] \in Reporting => /\ turn[e] = t
                                        /\ exec[e] # "failed" /\ e \notin refused
       /\ worker[e][t] = "persists" => active[e] = 0
       /\ worker[e][t] = "resumes" => exec[e] = "completed"
OwnerInv == \A e \in Execution : Owner(e)

\* A waiting execution, up to the report of its Turn.
Attended(e) ==
  exec[e] = "waiting" /\ closing # "supervisor" /\ e \notin orphans =>
    LET place == worker[e][turn[e]] IN
    /\ place \notin {"persists", "cancels", "errors", "closes", "ended"} => active[e] = turn[e]
    /\ place \in {"errors", "closes", "ended"} =>
         server[e][turn[e]] \in {"silent", "interrupted"} \/ closing # "no"
AttendedInv == \A e \in Execution : Attended(e)

\* The calls of cancel.
Calling(c) ==
  /\ cancelling[c].at = "none" => cancelling[c].targets = {}
  /\ cancelling[c].targets # {} \/ cancelling[c].at \in {"refused", "accepted", "records"}
       => task = "cancelled"
  /\ cancelling[c].at \in {"refused", "accepted", "records"}
       => cancelling[c].sent \in Execution \X (0..MaxTurns)
  /\ cancelling[c].at \in {"accepted", "records"} =>
       LET e == cancelling[c].sent[1]
           t == cancelling[c].sent[2] IN
       t # 0 /\ server[e][t] = "interrupted" /\ turn[e] \in {0, t}
CallingInv ==
  /\ \A c \in Caller : Calling(c)
  /\ \A e \in Execution, t \in Turn :
       cancelling[<<e, t>>].at # "none" => worker[e][t] = "cancels"

PromptsInv ==
  \A e \in Execution, t \in Turn :
    up /\ task = "cancelled" /\ Pends(e, t) => \E c \in Caller : cancelling[c].at # "none"

\* What runs on at the App Server, until a stop, is what an execution waits for, what
\* its node is about to commit, or a Turn that failed for its connection.
Current(e, t) ==
  \/ turn[e] = t /\ exec[e] \in {"waiting", "cancelled"}
  \/ submitting = e /\ returned # None /\ returned[2] = t
LiveInv ==
  \A e \in Execution, t \in Turn :
    crashes = 0 /\ server[e][t] \in Live => <<e, t>> \in failures \/ Current(e, t)

Covered(e) ==
  \/ e \in unconfirmed
  \/ \E c \in Caller : \/ e \in cancelling[c].targets
                       \/ cancelling[c].at = "refused" /\ cancelling[c].sent[1] = e
CoverInv ==
  \A e \in Execution, t \in Turn :
    crashes = 0 /\ task = "cancelled" /\ server[e][t] \in Live
      => <<e, t>> \in failures \/ Covered(e)

\* Without refused deliveries every Turn an execution can get is newer than the one
\* it had when it was retried.
Fresh(e) ==
  /\ turn[e] # 0 => turn[e] > spent[e]
  /\ exec[e] \in {"submitted", "running"} /\ active[e] # 0 => active[e] > spent[e]
  /\ submitting = e /\ returned # None => returned[2] > spent[e]
FreshInv == ~Refusals => \A e \in Execution : Fresh(e)

TurnInv ==
  /\ Shape /\ BegunInv /\ QueueInv /\ LifeInv /\ SubmissionInv /\ OwnerInv
  /\ AttendedInv /\ CallingInv /\ PromptsInv /\ LiveInv /\ CoverInv /\ FreshInv

-----------------------------------------------------------------------------
(* Numbers and steps.                                                      *)

\* Turns are numbers that fit where they are stored.
LEMMA TurnNumbers ==
  /\ \A t \in Turn : t \in Nat /\ t # 0 /\ t \in 0..MaxTurns
  /\ \A t \in 0..MaxTurns : t # 0 => t \in Turn
  /\ MaxTurns \in Nat /\ MaxLosses \in Nat /\ MaxCrashes \in Nat /\ 0 \in 0..MaxTurns
BY TurnsAssumption DEF TurnsAssumption, Turn

\* The number after those of the Turns of an execution is of no Turn yet.
LEMMA NextTurnIsNew ==
  ASSUME BegunInv, NEW e \in Execution, Started(e) < MaxTurns
  PROVE  /\ Started(e) + 1 \in Turn
         /\ \A t \in Turn : Begun(e, t) <=> t < Started(e) + 1
<1>. DEFINE begun == {t \in Turn : server[e][t] # "none"}
            k == Cardinality(begun)
<1>1. IsFiniteSet(Turn)  BY TurnNumbers, FS_Interval DEF Turn
<1>2. IsFiniteSet(begun)  BY <1>1, FS_Subset
<1>3. k \in Nat  BY <1>2, FS_CardinalityType
<1>4. ASSUME NEW t \in begun  PROVE t <= k
  <2>1. 1..t \subseteq begun  BY <1>4, TurnNumbers DEF Turn, BegunInv, Begun
  <2>2. Cardinality(1..t) = t  BY FS_Interval, TurnNumbers DEF Turn
  <2>. QED  BY <1>2, <2>1, <2>2, FS_Subset
<1>5. begun \subseteq 1..k  BY <1>3, <1>4, TurnNumbers DEF Turn
<1>6. begun = 1..k
  <2>1. IsFiniteSet(1..k) /\ Cardinality(1..k) = k  BY <1>3, FS_Interval
  <2>. QED  BY <1>5, <2>1, FS_Subset
<1>7. Started(e) = k  BY DEF Started
<1>8. Started(e) + 1 \in Turn  BY <1>3, <1>7, TurnNumbers DEF Turn
<1>9. ASSUME NEW t \in Turn  PROVE Begun(e, t) <=> t < Started(e) + 1
  <2>1. Begun(e, t) <=> t \in 1..k  BY <1>6 DEF Begun
  <2>2. t \in 1..k <=> t < k + 1  BY <1>3, TurnNumbers DEF Turn
  <2>. QED  BY <1>7, <2>1, <2>2
<1>. QED  BY <1>8, <1>9

\* No worker is started for Turn 0, so that every worker has a Turn.
TurnNext ==
  \/ \E e \in Execution :
       \/ NodeSteps(e)
       \/ \E t \in Turn : ServerSteps(e, t) \/ Decide(e, t) \/ TurnSteps(e, t)
                          \/ WorkerSteps(e, t)
  \/ \E c \in Caller : CancelSteps(c)
  \/ Retry \/ Cancel \/ CloseApprovals \/ Crash \/ StopSteps \/ StartSteps

LEMMA WorkersHaveTurns == TurnInv /\ [Next]_vars => [TurnNext]_vars
<1>. SUFFICES ASSUME TurnInv, NEW e \in Execution, NEW t \in 0..MaxTurns, WorkerSteps(e, t)
              PROVE  t \in Turn
  BY DEF Next, TurnNext
<1>1. worker[e][0] = "none"  BY DEF TurnInv, OwnerInv, Owner
<1>2. worker[e][t] # "none"
  BY DEF WorkerSteps, WorkerStarts, WorkerCompletes, WorkerResumes, WorkerLost, WorkerFails,
         WorkerPersists, WorkerErrs, WorkerCloses
<1>. QED  BY <1>1, <1>2, TurnNumbers

-----------------------------------------------------------------------------
(* The steps keep the invariant, part by part.                             *)

\* The values of a queue of messages, and what is read and added there.
LEMMA AskThenEnd == Append(<<"ask">>, "end") = <<"ask", "end">>
<1>. DEFINE S == {"ask", "end"}
            s == Append(<<"ask">>, "end")
            r == <<"ask", "end">>
<1>1. <<"ask">> \in Seq(S) /\ Len(<<"ask">>) = 1  OBVIOUS
<1>2. s \in Seq(S) /\ Len(s) = 2 /\ s[1] = "ask" /\ s[2] = "end"  BY <1>1, AppendProperties
<1>3. r \in Seq(S) /\ Len(r) = 2 /\ r[1] = "ask" /\ r[2] = "end"  OBVIOUS
<1>4. \A i \in 1..Len(s) : i = 1 \/ i = 2  BY <1>2
<1>5. \A i \in 1..Len(s) : s[i] = r[i]  BY <1>2, <1>3, <1>4
<1>. HIDE DEF S, s, r
<1>. QED  BY <1>2, <1>3, <1>5, SeqEqual DEF s, r

\* What is read from the queue and added to it.
LEMMA QueueValues ==
  /\ Append(<<>>, "ask") = <<"ask">> /\ Append(<<>>, "end") = <<"end">>
  /\ Append(<<"ask">>, "end") = <<"ask", "end">>
  /\ Tail(<<"ask">>) = <<>> /\ Tail(<<"end">>) = <<>> /\ Tail(<<"ask", "end">>) = <<"end">>
  /\ Head(<<"ask">>) = "ask" /\ Head(<<"end">>) = "end" /\ Head(<<"ask", "end">>) = "ask"
BY AskThenEnd

\* The session, or the App Server's state, of one Turn changes and of no other.
OnlySession(e, t) ==
  /\ session' \in [Execution -> [Turn -> Sessions]]
  /\ \A f \in Execution, u \in Turn : ~(f = e /\ u = t) => session'[f][u] = session[f][u]
OnlyServer(e, t) ==
  /\ server' \in [Execution -> [Turn -> ServerStatus]]
  /\ \A f \in Execution, u \in Turn : ~(f = e /\ u = t) => server'[f][u] = server[f][u]

LEMMA ServerSet ==
  ASSUME AdapterTypes, NEW e \in Execution, NEW t \in Turn,
         NEW s \in ServerStatus, server' = [server EXCEPT ![e][t] = s]
  PROVE  OnlyServer(e, t) /\ server'[e][t] = s
BY DEF AdapterTypes, OnlyServer

\* The process behind a pipe dies with its connection; no Turn that ended does.
LEMMA DiesType ==
  ASSUME AdapterTypes, NEW e \in Execution, NEW t \in Turn
  PROVE  /\ Dies(e, t) \in ServerStatus
         /\ Dies(e, t) = server[e][t] \/ (server[e][t] \in Live /\ Dies(e, t) = "lost")
BY DEF AdapterTypes, Dies, ServerStatus, Live

\* A connection that opens or closes keeps what was queued there.
LEMMA Opening ==
  ASSUME AdapterTypes, NEW e \in Execution, NEW t \in Turn, NEW b \in BOOLEAN
  PROVE  session' = [session EXCEPT ![e][t].open = b]
           => /\ OnlySession(e, t) /\ session'[e][t].open = b
              /\ session'[e][t].inbox = session[e][t].inbox
              /\ session'[e][t].ack = session[e][t].ack /\ session'[e][t].done = session[e][t].done
<1>. DEFINE s == [session[e][t] EXCEPT !.open = b]
<1>1. session[e][t] \in Sessions  BY DEF AdapterTypes
<1>2. /\ s \in Sessions /\ s.open = b /\ s.inbox = session[e][t].inbox
      /\ s.ack = session[e][t].ack /\ s.done = session[e][t].done
  BY <1>1 DEF Sessions
<1>3. SUFFICES ASSUME session' = [session EXCEPT ![e][t].open = b]
               PROVE  OnlySession(e, t) /\ session'[e][t] = s
  BY <1>2
<1>4. session' = [session EXCEPT ![e][t] = s]  BY <1>3 DEF AdapterTypes
<1>. HIDE DEF s
<1>. QED  BY <1>2, <1>4 DEF AdapterTypes, OnlySession

\* A connection that closes, and the process behind it.
LEMMA Hanging ==
  ASSUME AdapterTypes, NEW e \in Execution, NEW t \in Turn, Hangs(e, t)
  PROVE  /\ OnlyServer(e, t) /\ server'[e][t] = Dies(e, t)
         /\ OnlySession(e, t) /\ session'[e][t].inbox = session[e][t].inbox
         /\ session'[e][t].ack = session[e][t].ack /\ session'[e][t].done = session[e][t].done
<1>1. /\ session' = [session EXCEPT ![e][t].open = FALSE]
      /\ server' = [server EXCEPT ![e][t] = Dies(e, t)]
  BY DEF Hangs
<1>2. OnlyServer(e, t) /\ server'[e][t] = Dies(e, t)  BY <1>1, DiesType, ServerSet
<1>. QED  BY <1>1, <1>2, Opening

\* The queue of one session changes, by a message that is added or read.
LEMMA Queueing ==
  ASSUME AdapterTypes, NEW e \in Execution, NEW t \in Turn, NEW q \in Queues
  PROVE  session' = [session EXCEPT ![e][t].inbox = q]
           => /\ OnlySession(e, t) /\ session'[e][t].inbox = q
              /\ session'[e][t].ack = session[e][t].ack /\ session'[e][t].done = session[e][t].done
<1>. DEFINE s == [session[e][t] EXCEPT !.inbox = q]
<1>1. session[e][t] \in Sessions  BY DEF AdapterTypes
<1>2. /\ s \in Sessions /\ s.inbox = q
      /\ s.ack = session[e][t].ack /\ s.done = session[e][t].done
  BY <1>1 DEF Sessions
<1>3. SUFFICES ASSUME session' = [session EXCEPT ![e][t].inbox = q]
               PROVE  OnlySession(e, t) /\ session'[e][t] = s
  BY <1>2
<1>4. session' = [session EXCEPT ![e][t] = s]  BY <1>3 DEF AdapterTypes
<1>. HIDE DEF s
<1>. QED  BY <1>2, <1>4 DEF AdapterTypes, OnlySession

LEMMA Saying ==
  ASSUME AdapterTypes, NEW e \in Execution, NEW t \in Turn, NEW m \in {"ask", "end"},
         session[e][t].inbox \in {<<>>, <<"ask">>}, m = "ask" => session[e][t].inbox = <<>>,
         Says(e, t, m)
  PROVE  /\ OnlySession(e, t)
         /\ session'[e][t].inbox \in {session[e][t].inbox, Append(session[e][t].inbox, m)}
         /\ session'[e][t].ack = session[e][t].ack /\ session'[e][t].done = session[e][t].done
<1>. DEFINE q == Append(session[e][t].inbox, m)
<1>1. q \in Queues  BY QueueValues DEF Queues
<1>2. session' = session \/ session' = [session EXCEPT ![e][t].inbox = q]
  BY DEF Says, AdapterTypes
<1>3. CASE session' = session  BY <1>3 DEF AdapterTypes, OnlySession
<1>4. CASE session' = [session EXCEPT ![e][t].inbox = q]
  <2>. HIDE DEF q
  <2>1. /\ OnlySession(e, t) /\ session'[e][t].inbox = q
        /\ session'[e][t].ack = session[e][t].ack /\ session'[e][t].done = session[e][t].done
    BY <1>1, <1>4, Queueing
  <2>. QED  BY <2>1 DEF q
<1>. QED  BY <1>2, <1>3, <1>4

\* The next message is read, and with the end of a Turn whether it completed.
LEMMA Hearing ==
  ASSUME AdapterTypes, NEW e \in Execution, NEW t \in Turn, NEW m, Hears(e, t, m)
  PROVE  Tail(session[e][t].inbox) \in Queues
<1>1. session[e][t].inbox \in Queues  BY DEF AdapterTypes, Sessions
<1>. QED  BY <1>1, QueueValues DEF Hears, Queues

\* The end of a Turn is read.
HearsLast(e, t, q, b) ==
  session' = [session EXCEPT ![e][t].inbox = q, ![e][t].done = b]

LEMMA HearingEnd ==
  ASSUME AdapterTypes, NEW e \in Execution, NEW t \in Turn, NEW q \in Queues, NEW b \in BOOLEAN,
         HearsLast(e, t, q, b)
  PROVE  /\ OnlySession(e, t) /\ session'[e][t].inbox = q
         /\ session'[e][t].ack = session[e][t].ack /\ session'[e][t].done = b
<1>. DEFINE s == [session[e][t] EXCEPT !.inbox = q, !.done = b]
<1>1. session[e][t] \in Sessions  BY DEF AdapterTypes
<1>2. s \in Sessions /\ s.inbox = q /\ s.ack = session[e][t].ack /\ s.done = b
  BY <1>1 DEF Sessions
<1>3. session' = [session EXCEPT ![e][t] = s]  BY DEF AdapterTypes, HearsLast
<1>. HIDE DEF s
<1>. QED  BY <1>2, <1>3 DEF AdapterTypes, OnlySession

\* An interrupt that was accepted is noted.
LEMMA Noting ==
  ASSUME AdapterTypes, NEW e \in Execution, NEW t \in Turn
  PROVE  session' = [session EXCEPT ![e][t].ack = TRUE]
           => /\ OnlySession(e, t) /\ session'[e][t].inbox = session[e][t].inbox
              /\ session'[e][t].ack /\ session'[e][t].done = session[e][t].done
<1>. DEFINE s == [session[e][t] EXCEPT !.ack = TRUE]
<1>1. session[e][t] \in Sessions  BY DEF AdapterTypes
<1>2. s \in Sessions /\ s.inbox = session[e][t].inbox /\ s.ack /\ s.done = session[e][t].done
  BY <1>1 DEF Sessions
<1>3. SUFFICES ASSUME session' = [session EXCEPT ![e][t].ack = TRUE]
               PROVE  OnlySession(e, t) /\ session'[e][t] = s
  BY <1>2
<1>4. session' = [session EXCEPT ![e][t] = s]  BY <1>3 DEF AdapterTypes
<1>. HIDE DEF s
<1>. QED  BY <1>2, <1>4 DEF AdapterTypes, OnlySession

\* close_execution closes the Turn it is asked to close, or nothing.
LEMMA Closes ==
  ASSUME NEW e \in Execution, NEW t \in Turn, CloseExecution(e, t)
  PROVE  \/ active[e] # t /\ UNCHANGED <<server, session, active>>
         \/ active[e] = t /\ Hangs(e, t) /\ active' = [active EXCEPT ![e] = 0]
BY TurnNumbers DEF CloseExecution, adapter

\* A shutdown closes the session of every Turn that is owned, a crash all there are.
LEMMA ClosingDown ==
  ASSUME AdapterTypes, CloseSupervisor
  PROVE  /\ AdapterTypes' /\ active' = [e \in Execution |-> 0]
         /\ \A e \in Execution, t \in Turn :
              /\ server'[e][t] \in {server[e][t], Dies(e, t)}
              /\ session'[e][t].inbox = session[e][t].inbox
              /\ session'[e][t].ack = session[e][t].ack
              /\ session'[e][t].done = session[e][t].done
              /\ t # active[e] => session'[e][t] = session[e][t]
<1>1. /\ session' = [e \in Execution |-> [t \in Turn |->
                       IF t = active[e] THEN [session[e][t] EXCEPT !.open = FALSE]
                       ELSE session[e][t]]]
      /\ server' = [e \in Execution |-> [t \in Turn |->
                      IF t = active[e] THEN Dies(e, t) ELSE server[e][t]]]
      /\ active' = [e \in Execution |-> 0]
  BY DEF CloseSupervisor
<1>2. ASSUME NEW e \in Execution, NEW t \in Turn
      PROVE  /\ session'[e][t] \in Sessions /\ session'[e][t].inbox = session[e][t].inbox
             /\ session'[e][t].ack = session[e][t].ack
             /\ session'[e][t].done = session[e][t].done
             /\ t # active[e] => session'[e][t] = session[e][t]
  <2>1. session[e][t] \in Sessions  BY DEF AdapterTypes
  <2>2. session'[e][t] \in {[session[e][t] EXCEPT !.open = FALSE], session[e][t]}  BY <1>1
  <2>3. t # active[e] => session'[e][t] = session[e][t]  BY <1>1
  <2>. QED  BY <2>1, <2>2, <2>3 DEF Sessions
<1>3. ASSUME NEW e \in Execution, NEW t \in Turn
      PROVE  server'[e][t] \in ServerStatus /\ server'[e][t] \in {server[e][t], Dies(e, t)}
  BY <1>1, DiesType DEF AdapterTypes
<1>4. session' \in [Execution -> [Turn -> Sessions]] /\ server' \in [Execution -> [Turn -> ServerStatus]]
  BY <1>1, <1>2, <1>3
<1>5. active' \in [Execution -> 0..MaxTurns]  BY <1>1, TurnNumbers
<1>. QED  BY <1>1, <1>2, <1>3, <1>4, <1>5 DEF AdapterTypes

LEMMA Stopping ==
  ASSUME AdapterTypes, Stop
  PROVE  /\ AdapterTypes' /\ active' = [e \in Execution |-> 0]
         /\ \A e \in Execution, t \in Turn :
              session'[e][t] = NoSession /\ server'[e][t] = Dies(e, t)
<1>1. /\ server' = [e \in Execution |-> [t \in Turn |-> Dies(e, t)]]
      /\ session' = [e \in Execution |-> [t \in Turn |-> NoSession]]
      /\ active' = [e \in Execution |-> 0]
  BY DEF Stop
<1>2. NoSession \in Sessions  BY DEF NoSession, Sessions, Queues
<1>. QED  BY <1>1, <1>2, DiesType, TurnNumbers DEF AdapterTypes

\* The App Server: a Turn begins in execute, as the next one of its execution, and
\* one that ended stays as it ended.
Begins(e, t) ==
  /\ submitting = e /\ returned = None /\ active[e] = 0
  /\ \A u \in Turn : Begun(e, u) <=> u < t
  /\ server'[e][t] = "running" /\ active' = [active EXCEPT ![e] = t]
  /\ returned' = <<"waiting", t>>
ServerMoves ==
  \A e \in Execution, t \in Turn :
    \/ server'[e][t] = server[e][t]
    \/ server[e][t] \in Live /\ server'[e][t] # "none"
    \/ Begins(e, t)

\* Every step keeps the types of the rows.
LEMMA ProductStep ==
  ASSUME ProductTypes, NodeTypes, orphans \subseteq Execution, CallTypes, AskTypes, active \in [Execution -> 0..MaxTurns],
         CallingInv, LifeInv, [TurnNext]_vars
  PROVE  ProductTypes'
<1>. USE TurnNumbers DEF ProductTypes
<1>. USE DEF product, adapter, node, watching, asking, backend, bounds
<1>1. ASSUME NEW e \in Execution,
             Execute(e) \/ WatchWaiting(e) \/ Reattach(e)
      PROVE  UNCHANGED product
  BY <1>1 DEF Execute, WatchWaiting, Reattach
<1>2. ASSUME NEW e \in Execution, NEW t \in Turn,
             ServerAsks(e, t) \/ ServerEnds(e, t) \/ ConnectionLost(e, t) \/
             WorkerHearsEnd(e, t) \/ WorkerLoses(e, t) \/ WorkerHearsAsk(e, t) \/
             WorkerReads(e, t) \/ WorkerWakes(e, t) \/ WorkerAnswers(e, t) \/
             WorkerStarts(e, t) \/ WorkerLost(e, t) \/ WorkerFails(e, t) \/
             WorkerErrs(e, t) \/ WorkerCloses(e, t)
      PROVE  UNCHANGED product
  BY <1>2 DEF ServerAsks, ServerEnds, ConnectionLost, WorkerHearsEnd, WorkerLoses,
     WorkerHearsAsk, WorkerReads, WorkerWakes, WorkerAnswers, WorkerStarts, WorkerLost,
     WorkerFails, WorkerErrs, WorkerCloses, WorkerFrame
<1>3. ASSUME NEW c \in Caller,
             Dispatch(c) \/ Acknowledged(c)
      PROVE  UNCHANGED product
  BY <1>3 DEF Dispatch, Acknowledged
<1>4. ASSUME 
             Crash \/ CloseSupervisor \/ Exit
      PROVE  UNCHANGED product
  BY <1>4 DEF Crash, CloseSupervisor, Exit, Stop
<1>5. ASSUME NEW e \in Execution, Submit(e)  PROVE ProductTypes'
  BY <1>5 DEF Submit, Decisions
<1>6. ASSUME NEW e \in Execution, ExecuteFails(e)  PROVE ProductTypes'
  BY <1>6 DEF ExecuteFails, FailExecution, Decisions
<1>7. ASSUME NEW e \in Execution, Commit(e)  PROVE ProductTypes'
  <2>1. returned[1] \in {"waiting", "completed"} /\ returned[2] \in 0..MaxTurns
    BY <1>7 DEF Commit, NodeTypes
  <2>2. /\ exec' = [exec EXCEPT ![e] = returned[1]] /\ turn' = [turn EXCEPT ![e] = returned[2]]
        /\ task' \in {"waiting", task}
        /\ UNCHANGED <<spent, refused, failures, unconfirmed, approval>>
    BY <1>7 DEF Commit
  <2>. QED  BY <2>1, <2>2
<1>8. ASSUME NEW e \in Execution, NEW t \in Turn, Decide(e, t)  PROVE ProductTypes'
  BY <1>8 DEF Decide, Decisions
<1>9. ASSUME NEW e \in Execution, NEW t \in Turn, WorkerCancels(e, t)  PROVE ProductTypes'
  BY <1>9 DEF WorkerCancels, GoTo, CancelExecutions, Cancels, Interrupted, Decisions
<1>10. ASSUME NEW e \in Execution, NEW t \in Turn, WorkerAsks(e, t)  PROVE ProductTypes'
  <2>1. /\ approval' = approval \/ approval' = [approval EXCEPT ![e][t] = "pending"]
        /\ UNCHANGED <<task, exec, turn, spent, refused, failures, unconfirmed>>
    BY <1>10 DEF WorkerAsks
  <2>2. approval' \in [Execution -> [Turn -> Decisions \cup {"none", "pending"}]]
    <3>1. CASE approval' = approval  BY <3>1
    <3>2. CASE approval' = [approval EXCEPT ![e][t] = "pending"]  BY <3>2
    <3>. QED  BY <2>1, <3>1, <3>2
  <2>. QED  BY <2>1, <2>2
<1>11. ASSUME NEW e \in Execution, NEW t \in Turn, WorkerCompletes(e, t)  PROVE ProductTypes'
  BY <1>11 DEF WorkerCompletes, GoTo, WorkerFrame, Decisions
<1>12. ASSUME NEW e \in Execution, NEW t \in Turn, WorkerResumes(e, t)  PROVE ProductTypes'
  BY <1>12 DEF WorkerResumes, GoTo, WorkerFrame, Decisions
<1>13. ASSUME NEW e \in Execution, NEW t \in Turn, WorkerPersists(e, t)  PROVE ProductTypes'
  BY <1>13 DEF WorkerPersists, GoTo, FailTurn, FailExecution, WorkerFrame, Decisions, Worker
<1>14. ASSUME NEW c \in Caller, RecordDispatch(c)  PROVE ProductTypes'
  <2>1. cancelling[c].sent[1] \in Execution  BY <1>14 DEF RecordDispatch, CallingInv, Calling
  <2>2. unconfirmed' \subseteq Execution  BY <1>14, <2>1 DEF RecordDispatch
  <2>. QED  BY <1>14, <2>2 DEF RecordDispatch
<1>15. ASSUME NEW c \in Caller, CancelApprovals(c)  PROVE ProductTypes'
  BY <1>15 DEF CancelApprovals, Withdraw, Resolve, CancelEnds, GoTo, Decisions
<1>16. ASSUME Retry  PROVE ProductTypes'
  BY <1>16 DEF Retry, Decisions
<1>17. ASSUME Cancel  PROVE ProductTypes'
  BY <1>17 DEF Cancel, CancelExecutions, Cancels, Interrupted, Decisions
<1>18. ASSUME CloseApprovals  PROVE ProductTypes'
  BY <1>18 DEF CloseApprovals, Withdraw, Resolve, Decisions
<1>19. ASSUME Startup  PROVE ProductTypes'
  BY <1>19 DEF Startup, Withdraw, Resolve, Decisions
<1>20. ASSUME NEW e \in Execution, Orphaned(e)  PROVE ProductTypes'
  <2>1. <<e, turn[e]>> \in Worker
    BY <1>20 DEF Orphaned, LifeInv, Life, Worker
  <2>. QED  BY <1>20, <2>1 DEF Orphaned, FailTurn, FailExecution, Decisions
<1>21. ASSUME UNCHANGED vars  PROVE UNCHANGED product
  BY <1>21 DEF vars
<1>22. CASE UNCHANGED product
  BY <1>22
<1>. QED
  BY <1>1, <1>2, <1>3, <1>4, <1>5, <1>6, <1>7, <1>8, <1>9, <1>10, <1>11, <1>12, <1>13,
     <1>14, <1>15, <1>16, <1>17, <1>18, <1>19, <1>20, <1>21, <1>22
     DEF TurnNext, NodeSteps, AskSteps, TurnSteps, WorkerSteps, CancelSteps, ServerSteps,
         StopSteps, StartSteps

\* Every step keeps the types of the workers.
LEMMA WorkerStep ==
  ASSUME WorkerTypes, active \in [Execution -> 0..MaxTurns], turn \in [Execution -> 0..MaxTurns], [TurnNext]_vars
  PROVE  WorkerTypes'
<1>. USE TurnNumbers DEF WorkerTypes, Places
<1>. USE DEF product, adapter, node, watching, asking, backend, bounds
<1>1. ASSUME NEW e \in Execution,
             Submit(e) \/ Execute(e) \/ ExecuteFails(e) \/ Commit(e) \/ Orphaned(e)
      PROVE  UNCHANGED <<threads, worker>>
  BY <1>1 DEF Submit, Execute, ExecuteFails, Commit, Orphaned
<1>2. ASSUME NEW e \in Execution, NEW t \in Turn,
             ServerAsks(e, t) \/ ServerEnds(e, t) \/ ConnectionLost(e, t) \/ Decide(e, t)
      PROVE  UNCHANGED <<threads, worker>>
  BY <1>2 DEF ServerAsks, ServerEnds, ConnectionLost, Decide
<1>3. ASSUME NEW c \in Caller,
             Dispatch(c) \/ Acknowledged(c) \/ RecordDispatch(c)
      PROVE  UNCHANGED <<threads, worker>>
  BY <1>3 DEF Dispatch, Acknowledged, RecordDispatch
<1>4. ASSUME 
             Retry \/ Cancel \/ CloseApprovals \/ CloseSupervisor \/ Startup
      PROVE  UNCHANGED <<threads, worker>>
  BY <1>4 DEF Retry, Cancel, CloseApprovals, CloseSupervisor, Startup
<1>5. ASSUME NEW e \in Execution, WatchWaiting(e)  PROVE WorkerTypes'
  BY <1>5 DEF WatchWaiting, Watch, GoTo
<1>6. ASSUME NEW e \in Execution, NEW t \in Turn, WorkerHearsEnd(e, t)  PROVE WorkerTypes'
  BY <1>6 DEF WorkerHearsEnd, Hears, GoTo, WorkerFrame
<1>7. ASSUME NEW e \in Execution, NEW t \in Turn, WorkerLoses(e, t)  PROVE WorkerTypes'
  BY <1>7 DEF WorkerLoses, Loses, GoTo, WorkerFrame
<1>8. ASSUME NEW e \in Execution, NEW t \in Turn, WorkerCancels(e, t)  PROVE WorkerTypes'
  <2>1. threads' = threads /\ (worker' = worker \/ GoTo(e, t, "closes"))
    BY <1>8 DEF WorkerCancels
  <2>2. CASE worker' = worker  BY <2>1, <2>2
  <2>3. CASE GoTo(e, t, "closes")  BY <2>1, <2>3 DEF GoTo
  <2>. QED  BY <2>1, <2>2, <2>3
<1>9. ASSUME NEW e \in Execution, NEW t \in Turn, WorkerHearsAsk(e, t)  PROVE WorkerTypes'
  BY <1>9 DEF WorkerHearsAsk, Hears, Heard, GoTo, WorkerFrame
<1>10. ASSUME NEW e \in Execution, NEW t \in Turn, WorkerAsks(e, t)  PROVE WorkerTypes'
  <2>1. threads' = threads /\ \E p \in {"errors", "answers", "reads"} : GoTo(e, t, p)
    BY <1>10 DEF WorkerAsks, WorkerFrame
  <2>2. PICK p \in Places : GoTo(e, t, p)  BY <2>1
  <2>. QED  BY <2>1, <2>2 DEF GoTo
<1>11. ASSUME NEW e \in Execution, NEW t \in Turn, WorkerReads(e, t)  PROVE WorkerTypes'
  <2>1. threads' = threads /\ \E p \in {"answers", "sleeps"} : GoTo(e, t, p)
    BY <1>11 DEF WorkerReads, WorkerFrame
  <2>2. PICK p \in Places : GoTo(e, t, p)  BY <2>1
  <2>. QED  BY <2>1, <2>2 DEF GoTo
<1>12. ASSUME NEW e \in Execution, NEW t \in Turn, WorkerWakes(e, t)  PROVE WorkerTypes'
  BY <1>12 DEF WorkerWakes, GoTo, WorkerFrame
<1>13. ASSUME NEW e \in Execution, NEW t \in Turn, WorkerAnswers(e, t)  PROVE WorkerTypes'
  <2>1. threads' = threads /\ \E p \in {"cancels", "lost", "waits"} : GoTo(e, t, p)
    BY <1>13 DEF WorkerAnswers, Loses, WorkerFrame
  <2>. QED  BY <2>1 DEF GoTo
<1>14. ASSUME NEW e \in Execution, NEW t \in Turn, WorkerStarts(e, t)  PROVE WorkerTypes'
  BY <1>14 DEF WorkerStarts, GoTo, WorkerFrame
<1>15. ASSUME NEW e \in Execution, NEW t \in Turn, WorkerCompletes(e, t)  PROVE WorkerTypes'
  BY <1>15 DEF WorkerCompletes, GoTo, WorkerFrame
<1>16. ASSUME NEW e \in Execution, NEW t \in Turn, WorkerResumes(e, t)  PROVE WorkerTypes'
  BY <1>16 DEF WorkerResumes, GoTo, WorkerFrame
<1>17. ASSUME NEW e \in Execution, NEW t \in Turn, WorkerLost(e, t)  PROVE WorkerTypes'
  BY <1>17 DEF WorkerLost, GoTo, WorkerFrame
<1>18. ASSUME NEW e \in Execution, NEW t \in Turn, WorkerFails(e, t)  PROVE WorkerTypes'
  BY <1>18 DEF WorkerFails, GoTo, CloseExecution, Hangs, WorkerFrame
<1>19. ASSUME NEW e \in Execution, NEW t \in Turn, WorkerPersists(e, t)  PROVE WorkerTypes'
  BY <1>19 DEF WorkerPersists, GoTo, FailTurn, FailExecution, WorkerFrame
<1>20. ASSUME NEW e \in Execution, NEW t \in Turn, WorkerErrs(e, t)  PROVE WorkerTypes'
  BY <1>20 DEF WorkerErrs, GoTo, WorkerFrame
<1>21. ASSUME NEW e \in Execution, NEW t \in Turn, WorkerCloses(e, t)  PROVE WorkerTypes'
  BY <1>21 DEF WorkerCloses, GoTo, CloseExecution, Hangs, WorkerFrame
<1>22. ASSUME NEW c \in Caller, CancelApprovals(c)  PROVE WorkerTypes'
  <2>1. threads' = threads  BY <1>22 DEF CancelApprovals, CancelEnds
  <2>2. CASE c = Client  BY <1>22, <2>1, <2>2 DEF CancelApprovals, CancelEnds
  <2>3. CASE c # Client
    <3>1. c[1] \in Execution /\ c[2] \in 0..MaxTurns  BY <2>3 DEF Caller, Worker
    <3>2. GoTo(c[1], c[2], "closes")  BY <1>22, <2>3 DEF CancelApprovals, CancelEnds
    <3>. QED  BY <2>1, <3>1, <3>2 DEF GoTo
  <2>. QED  BY <2>2, <2>3
<1>23. ASSUME Crash  PROVE WorkerTypes'
  BY <1>23 DEF Crash, Stop
<1>24. ASSUME Exit  PROVE WorkerTypes'
  BY <1>24 DEF Exit, Stop
<1>25. ASSUME NEW e \in Execution, Reattach(e)  PROVE WorkerTypes'
  BY <1>25 DEF Reattach, GoTo
<1>26. ASSUME UNCHANGED vars  PROVE UNCHANGED <<threads, worker>>
  BY <1>26 DEF vars
<1>27. CASE UNCHANGED <<threads, worker>>
  BY <1>27
<1>. QED
  BY <1>1, <1>2, <1>3, <1>4, <1>5, <1>6, <1>7, <1>8, <1>9, <1>10, <1>11, <1>12, <1>13,
     <1>14, <1>15, <1>16, <1>17, <1>18, <1>19, <1>20, <1>21, <1>22, <1>23, <1>24, <1>25,
     <1>26, <1>27
     DEF TurnNext, NodeSteps, AskSteps, TurnSteps, WorkerSteps, CancelSteps, ServerSteps,
         StopSteps, StartSteps

\* Every step keeps the types of the App Server and the adapter, and moves the Turns
\* there as it may.
LEMMA AdapterStep ==
  ASSUME AdapterTypes, WorkerTypes, CallTypes, turn \in [Execution -> 0..MaxTurns],
         BegunInv, QueueInv, CallingInv, NodeTypes, [TurnNext]_vars
  PROVE  AdapterTypes' /\ ServerMoves
<1>. USE TurnNumbers DEF AdapterTypes
<1>. USE DEF product, adapter, node, watching, asking, backend, bounds
<1>1. ASSUME NEW e \in Execution,
             Submit(e) \/ ExecuteFails(e) \/ Commit(e) \/ WatchWaiting(e) \/ Orphaned(e)
      PROVE  UNCHANGED <<server, session, active>>
  BY <1>1 DEF Submit, ExecuteFails, Commit, WatchWaiting, Orphaned
<1>2. ASSUME NEW e \in Execution, NEW t \in Turn,
             Decide(e, t) \/ WorkerLoses(e, t) \/ WorkerCancels(e, t) \/
             WorkerAsks(e, t) \/ WorkerReads(e, t) \/ WorkerWakes(e, t) \/
             WorkerStarts(e, t) \/ WorkerCompletes(e, t) \/ WorkerResumes(e, t) \/
             WorkerLost(e, t) \/ WorkerPersists(e, t) \/ WorkerErrs(e, t)
      PROVE  UNCHANGED <<server, session, active>>
  BY <1>2 DEF Decide, WorkerLoses, WorkerCancels, WorkerAsks, WorkerReads, WorkerWakes,
     WorkerStarts, WorkerCompletes, WorkerResumes, WorkerLost, WorkerPersists, WorkerErrs,
     WorkerFrame
<1>3. ASSUME NEW c \in Caller,
             RecordDispatch(c) \/ CancelApprovals(c)
      PROVE  UNCHANGED <<server, session, active>>
  BY <1>3 DEF RecordDispatch, CancelApprovals, CancelEnds
<1>4. ASSUME 
             Retry \/ Cancel \/ CloseApprovals \/ Startup
      PROVE  UNCHANGED <<server, session, active>>
  BY <1>4 DEF Retry, Cancel, CloseApprovals, Startup
<1>5. ASSUME NEW e \in Execution, Execute(e)  PROVE AdapterTypes' /\ ServerMoves
  <2>1. CASE active[e] # 0  BY <1>5, <2>1 DEF Execute, ServerMoves
  <2>2. CASE active[e] = 0
    <3>. DEFINE t == Started(e) + 1
    <3>1. t \in Turn /\ \A u \in Turn : Begun(e, u) <=> u < t
      BY <1>5, <2>2, NextTurnIsNew DEF Execute
    <3>2. /\ submitting = e /\ returned = None /\ returned' = <<"waiting", t>>
          /\ server' = [server EXCEPT ![e][t] = "running"]
          /\ session' = [session EXCEPT ![e][t].open = TRUE]
          /\ active' = [active EXCEPT ![e] = t]
      BY <1>5, <2>2 DEF Execute
    <3>. HIDE DEF t
    <3>3. OnlySession(e, t)  BY <3>1, <3>2, Opening
    <3>4. OnlyServer(e, t) /\ server'[e][t] = "running"  BY <3>1, <3>2, ServerSet DEF ServerStatus
    <3>5. Begins(e, t)  BY <2>2, <3>1, <3>2, <3>4 DEF Begins
    <3>. QED  BY <3>1, <3>2, <3>3, <3>4, <3>5 DEF OnlySession, OnlyServer, ServerMoves
  <2>. QED  BY <2>1, <2>2
<1>6. ASSUME NEW e \in Execution, NEW t \in Turn, ServerAsks(e, t)  PROVE AdapterTypes' /\ ServerMoves
  <2>1. session[e][t].inbox = <<>>  BY <1>6 DEF ServerAsks, QueueInv, Queue
  <2>2. /\ Says(e, t, "ask") /\ server' = [server EXCEPT ![e][t] = "asking"] /\ active' = active
        /\ server[e][t] \in Live
    BY <1>6 DEF ServerAsks, Live
  <2>3. OnlySession(e, t)  BY <2>1, <2>2, Saying
  <2>4. OnlyServer(e, t) /\ server'[e][t] = "asking"  BY <2>2, ServerSet DEF ServerStatus
  <2>. QED  BY <2>2, <2>3, <2>4 DEF OnlySession, OnlyServer, ServerMoves
<1>7. ASSUME NEW e \in Execution, NEW t \in Turn, ServerEnds(e, t)  PROVE AdapterTypes' /\ ServerMoves
  <2>1. session[e][t].inbox = <<>>  BY <1>7 DEF ServerEnds, QueueInv, Queue
  <2>2. PICK how \in Endings : server' = [server EXCEPT ![e][t] = how]
    BY <1>7 DEF ServerEnds
  <2>3. Says(e, t, "end") /\ active' = active /\ server[e][t] \in Live
    BY <1>7 DEF ServerEnds, Live
  <2>4. how \in ServerStatus /\ how # "none"
    BY TurnsAssumption DEF TurnsAssumption, ServerStatus
  <2>5. OnlySession(e, t)  BY <2>1, <2>3, Saying
  <2>6. OnlyServer(e, t) /\ server'[e][t] = how  BY <2>2, <2>4, ServerSet
  <2>. QED  BY <2>3, <2>4, <2>5, <2>6 DEF OnlySession, OnlyServer, ServerMoves
<1>8. ASSUME NEW e \in Execution, NEW t \in Turn, ConnectionLost(e, t)  PROVE AdapterTypes' /\ ServerMoves
  <2>1. Hangs(e, t) /\ active' = active  BY <1>8 DEF ConnectionLost
  <2>. QED  BY <2>1, Hanging, DiesType DEF OnlySession, OnlyServer, ServerMoves
<1>9. ASSUME NEW e \in Execution, NEW t \in Turn, WorkerHearsEnd(e, t)  PROVE AdapterTypes' /\ ServerMoves
  <2>1. Tail(session[e][t].inbox) \in Queues  BY <1>9, Hearing DEF WorkerHearsEnd
  <2>2. PICK b \in BOOLEAN : HearsLast(e, t, Tail(session[e][t].inbox), b)
    BY <1>9 DEF WorkerHearsEnd, HearsLast
  <2>3. UNCHANGED <<server, active>>  BY <1>9 DEF WorkerHearsEnd
  <2>4. OnlySession(e, t)  BY <2>1, <2>2, HearingEnd
  <2>. QED  BY <2>3, <2>4 DEF OnlySession, ServerMoves
<1>10. ASSUME NEW e \in Execution, NEW t \in Turn, WorkerHearsAsk(e, t)  PROVE AdapterTypes' /\ ServerMoves
  <2>1. Tail(session[e][t].inbox) \in Queues  BY <1>10, Hearing DEF WorkerHearsAsk
  <2>2. session' = [session EXCEPT ![e][t].inbox = Tail(session[e][t].inbox)]
    BY <1>10 DEF WorkerHearsAsk, Heard
  <2>3. UNCHANGED <<server, active>>  BY <1>10 DEF WorkerHearsAsk
  <2>4. OnlySession(e, t)  BY <2>1, <2>2, Queueing
  <2>. QED  BY <2>3, <2>4 DEF OnlySession, ServerMoves
<1>11. ASSUME NEW e \in Execution, NEW t \in Turn, WorkerAnswers(e, t)  PROVE AdapterTypes' /\ ServerMoves
  <2>1. server[e][t] = "asking" => session[e][t].inbox = <<>>
    BY <1>11 DEF WorkerAnswers, QueueInv, Queue, Asked
  <2>2. active' = active  BY <1>11 DEF WorkerAnswers
  <2>3. CASE UNCHANGED <<server, session>>  BY <2>2, <2>3 DEF ServerMoves
  <2>4. ASSUME server[e][t] = "asking", NEW s \in {"running", "interrupted"},
               server' = [server EXCEPT ![e][t] = s], session' = session \/ Says(e, t, "end")
        PROVE  AdapterTypes' /\ ServerMoves
    <3>1. OnlySession(e, t)  BY <2>1, <2>4, Saying DEF OnlySession
    <3>2. OnlyServer(e, t) /\ server'[e][t] = s  BY <2>4, ServerSet DEF ServerStatus
    <3>. QED  BY <2>2, <2>4, <3>1, <3>2 DEF OnlySession, OnlyServer, ServerMoves, Live
  <2>. QED  BY <1>11, <2>3, <2>4 DEF WorkerAnswers
<1>12. ASSUME NEW e \in Execution, NEW t \in Turn, WorkerFails(e, t)  PROVE AdapterTypes' /\ ServerMoves
  <2>1. CloseExecution(e, t)  BY <1>12 DEF WorkerFails
  <2>2. CASE UNCHANGED <<server, session, active>>  BY <2>2 DEF ServerMoves
  <2>3. CASE Hangs(e, t) /\ active' = [active EXCEPT ![e] = 0]
    BY <2>3, Hanging, DiesType DEF OnlySession, OnlyServer, ServerMoves
  <2>. QED  BY <2>1, <2>2, <2>3, Closes
<1>13. ASSUME NEW e \in Execution, NEW t \in Turn, WorkerCloses(e, t)  PROVE AdapterTypes' /\ ServerMoves
  <2>1. CloseExecution(e, t)  BY <1>13 DEF WorkerCloses
  <2>2. CASE UNCHANGED <<server, session, active>>  BY <2>2 DEF ServerMoves
  <2>3. CASE Hangs(e, t) /\ active' = [active EXCEPT ![e] = 0]
    BY <2>3, Hanging, DiesType DEF OnlySession, OnlyServer, ServerMoves
  <2>. QED  BY <2>1, <2>2, <2>3, Closes
<1>14. ASSUME NEW c \in Caller, Dispatch(c)  PROVE AdapterTypes' /\ ServerMoves
  <2>1. active' = active  BY <1>14 DEF Dispatch
  <2>2. CASE UNCHANGED <<server, session>>  BY <2>1, <2>2 DEF ServerMoves
  <2>3. ASSUME NEW e \in cancelling[c].targets, active[e] # 0, server[e][active[e]] \in Live,
               server' = [server EXCEPT ![e][active[e]] = "interrupted"],
               Says(e, active[e], "end")
        PROVE  AdapterTypes' /\ ServerMoves
    <3>1. e \in Execution /\ active[e] \in Turn  BY <2>3 DEF CallTypes, Calls
    <3>2. session[e][active[e]].inbox \in {<<>>, <<"ask">>}
      BY <2>3, <3>1 DEF QueueInv, Queue, Live
    <3>3. OnlySession(e, active[e])  BY <2>3, <3>1, <3>2, Saying
    <3>4. OnlyServer(e, active[e]) /\ server'[e][active[e]] = "interrupted"
      BY <2>3, <3>1, ServerSet DEF ServerStatus
    <3>. QED  BY <2>1, <2>3, <3>3, <3>4 DEF OnlySession, OnlyServer, ServerMoves
  <2>. QED  BY <1>14, <2>2, <2>3 DEF Dispatch
<1>15. ASSUME NEW c \in Caller, Acknowledged(c)  PROVE AdapterTypes' /\ ServerMoves
  <2>1. UNCHANGED <<server, active>>  BY <1>15 DEF Acknowledged
  <2>2. CASE session' = session  BY <2>1, <2>2 DEF ServerMoves
  <2>3. CASE session' # session
    <3>1. PICK e \in Execution, t \in Turn : session' = [session EXCEPT ![e][t].ack = TRUE]
      BY <1>15, <2>3 DEF Acknowledged, CallingInv, Calling
    <3>2. OnlySession(e, t)  BY <3>1, Noting
    <3>. QED  BY <2>1, <3>2 DEF OnlySession, ServerMoves
  <2>. QED  BY <2>2, <2>3
<1>16. ASSUME Crash  PROVE AdapterTypes' /\ ServerMoves
  <2>1. Stop  BY <1>16 DEF Crash
  <2>. QED  BY <2>1, Stopping, DiesType DEF ServerMoves
<1>17. ASSUME CloseSupervisor  PROVE AdapterTypes' /\ ServerMoves
  BY <1>17, ClosingDown, DiesType DEF ServerMoves, AdapterTypes
<1>18. ASSUME Exit  PROVE AdapterTypes' /\ ServerMoves
  <2>1. Stop  BY <1>18 DEF Exit
  <2>. QED  BY <2>1, Stopping, DiesType DEF ServerMoves
<1>19. ASSUME NEW e \in Execution, Reattach(e)  PROVE AdapterTypes' /\ ServerMoves
  <2>1. UNCHANGED server /\ active' = [active EXCEPT ![e] = turn[e]]
    BY <1>19 DEF Reattach
  <2>2. PICK q \in Queues :
          session' = [session EXCEPT ![e][turn[e]] =
                        [open |-> TRUE, ack |-> FALSE, done |-> FALSE, inbox |-> q]]
    <3>. DEFINE q == CASE server[e][turn[e]] \in Ended -> <<"end">>
                       [] server[e][turn[e]] = "asking" -> <<"ask">>
                       [] OTHER -> <<>>
    <3>1. q \in Queues  BY DEF Queues
    <3>. QED  BY <1>19, <3>1 DEF Reattach
  <2>3. [open |-> TRUE, ack |-> FALSE, done |-> FALSE, inbox |-> q] \in Sessions
    BY DEF Sessions
  <2>. QED  BY <2>1, <2>2, <2>3 DEF ServerMoves
<1>20. ASSUME UNCHANGED vars  PROVE UNCHANGED <<server, session, active>>
  BY <1>20 DEF vars
<1>21. CASE UNCHANGED <<server, session, active>>
  BY <1>21 DEF ServerMoves
<1>. QED
  BY <1>1, <1>2, <1>3, <1>4, <1>5, <1>6, <1>7, <1>8, <1>9, <1>10, <1>11, <1>12, <1>13,
     <1>14, <1>15, <1>16, <1>17, <1>18, <1>19, <1>20, <1>21
     DEF TurnNext, NodeSteps, AskSteps, TurnSteps, WorkerSteps, CancelSteps, ServerSteps,
         StopSteps, StartSteps

\* Every step keeps the types of the nodes, the waiters and the backend.
LEMMA RestStep ==
  ASSUME NodeTypes, AskTypes, BackendTypes, AdapterTypes, BegunInv,
         None \notin Execution, [TurnNext]_vars
  PROVE  NodeTypes' /\ AskTypes' /\ BackendTypes'
<1>. USE TurnNumbers DEF NodeTypes, AskTypes, BackendTypes
<1>. USE DEF product, adapter, node, watching, asking, backend, bounds
<1>1. ASSUME NEW e \in Execution,
             WatchWaiting(e)
      PROVE  UNCHANGED <<submitting, returned, waiters, woken, closing, up, endpoint, orphans, losses, crashes>>
  BY <1>1 DEF WatchWaiting
<1>2. ASSUME NEW e \in Execution, NEW t \in Turn,
             ServerAsks(e, t) \/ ServerEnds(e, t) \/ WorkerHearsEnd(e, t) \/
             WorkerLoses(e, t) \/ WorkerCancels(e, t) \/ WorkerHearsAsk(e, t) \/
             WorkerAnswers(e, t) \/ WorkerStarts(e, t) \/ WorkerCompletes(e, t) \/
             WorkerResumes(e, t) \/ WorkerLost(e, t) \/ WorkerFails(e, t) \/
             WorkerPersists(e, t) \/ WorkerErrs(e, t) \/ WorkerCloses(e, t)
      PROVE  UNCHANGED <<submitting, returned, waiters, woken, closing, up, endpoint, orphans, losses, crashes>>
  BY <1>2 DEF ServerAsks, ServerEnds, WorkerHearsEnd, WorkerLoses, WorkerCancels,
     WorkerHearsAsk, WorkerAnswers, WorkerStarts, WorkerCompletes, WorkerResumes,
     WorkerLost, WorkerFails, WorkerPersists, WorkerErrs, WorkerCloses, WorkerFrame
<1>3. ASSUME NEW c \in Caller,
             Dispatch(c) \/ Acknowledged(c) \/ RecordDispatch(c)
      PROVE  UNCHANGED <<submitting, returned, waiters, woken, closing, up, endpoint, orphans, losses, crashes>>
  BY <1>3 DEF Dispatch, Acknowledged, RecordDispatch
<1>4. ASSUME 
             Retry \/ Cancel
      PROVE  UNCHANGED <<submitting, returned, waiters, woken, closing, up, endpoint, orphans, losses, crashes>>
  BY <1>4 DEF Retry, Cancel
<1>5. ASSUME NEW e \in Execution, Submit(e)  PROVE NodeTypes' /\ AskTypes' /\ BackendTypes'
  BY <1>5 DEF Submit
<1>6. ASSUME NEW e \in Execution, Execute(e)  PROVE NodeTypes' /\ AskTypes' /\ BackendTypes'
  <2>1. returned' \in {"waiting", "completed"} \X Turn
    <3>1. CASE active[e] # 0
      <4>1. active[e] \in Turn  BY <3>1 DEF AdapterTypes
      <4>. QED  BY <1>6, <3>1, <4>1 DEF Execute
    <3>2. CASE active[e] = 0  BY <1>6, <3>2, NextTurnIsNew DEF Execute
    <3>. QED  BY <3>1, <3>2
  <2>. QED  BY <1>6, <2>1 DEF Execute
<1>7. ASSUME NEW e \in Execution, ExecuteFails(e)  PROVE NodeTypes' /\ AskTypes' /\ BackendTypes'
  BY <1>7 DEF ExecuteFails, FailExecution
<1>8. ASSUME NEW e \in Execution, Commit(e)  PROVE NodeTypes' /\ AskTypes' /\ BackendTypes'
  BY <1>8 DEF Commit
<1>9. ASSUME NEW e \in Execution, NEW t \in Turn, ConnectionLost(e, t)  PROVE NodeTypes' /\ AskTypes' /\ BackendTypes'
  BY <1>9 DEF ConnectionLost, Hangs
<1>10. ASSUME NEW e \in Execution, NEW t \in Turn, Decide(e, t)  PROVE NodeTypes' /\ AskTypes' /\ BackendTypes'
  BY <1>10 DEF Decide
<1>11. ASSUME NEW e \in Execution, NEW t \in Turn, WorkerAsks(e, t)  PROVE NodeTypes' /\ AskTypes' /\ BackendTypes'
  BY <1>11 DEF WorkerAsks, GoTo, WorkerFrame
<1>12. ASSUME NEW e \in Execution, NEW t \in Turn, WorkerReads(e, t)  PROVE NodeTypes' /\ AskTypes' /\ BackendTypes'
  BY <1>12 DEF WorkerReads, GoTo, Leaves, WorkerFrame
<1>13. ASSUME NEW e \in Execution, NEW t \in Turn, WorkerWakes(e, t)  PROVE NodeTypes' /\ AskTypes' /\ BackendTypes'
  BY <1>13 DEF WorkerWakes, GoTo, WorkerFrame
<1>14. ASSUME NEW c \in Caller, CancelApprovals(c)  PROVE NodeTypes' /\ AskTypes' /\ BackendTypes'
  BY <1>14 DEF CancelApprovals, Withdraw, Resolve, CancelEnds, GoTo
<1>15. ASSUME CloseApprovals  PROVE NodeTypes' /\ AskTypes' /\ BackendTypes'
  BY <1>15 DEF CloseApprovals, Withdraw, Resolve
<1>16. ASSUME Crash  PROVE NodeTypes' /\ AskTypes' /\ BackendTypes'
  <2>1. Stop /\ crashes < MaxCrashes  BY <1>16 DEF Crash
  <2>2. /\ submitting' = None /\ returned' = None /\ waiters' = {} /\ woken' = {}
        /\ closing' = "no" /\ up' = FALSE /\ orphans' \subseteq Execution
        /\ crashes' = crashes + 1 /\ UNCHANGED <<endpoint, losses>>
    BY <2>1 DEF Stop
  <2>3. crashes' \in 0..MaxCrashes  BY <2>1, <2>2
  <2>. QED  BY <2>2, <2>3
<1>17. ASSUME CloseSupervisor  PROVE NodeTypes' /\ AskTypes' /\ BackendTypes'
  BY <1>17 DEF CloseSupervisor
<1>18. ASSUME Exit  PROVE NodeTypes' /\ AskTypes' /\ BackendTypes'
  <2>1. Stop /\ crashes < MaxCrashes  BY <1>18 DEF Exit
  <2>2. /\ submitting' = None /\ returned' = None /\ waiters' = {} /\ woken' = {}
        /\ closing' = "no" /\ up' = FALSE /\ orphans' \subseteq Execution
        /\ crashes' = crashes + 1 /\ UNCHANGED <<endpoint, losses>>
    BY <2>1 DEF Stop
  <2>3. crashes' \in 0..MaxCrashes  BY <2>1, <2>2
  <2>. QED  BY <2>2, <2>3
<1>19. ASSUME Startup  PROVE NodeTypes' /\ AskTypes' /\ BackendTypes'
  BY <1>19 DEF Startup, Withdraw, Resolve
<1>20. ASSUME NEW e \in Execution, Reattach(e)  PROVE NodeTypes' /\ AskTypes' /\ BackendTypes'
  BY <1>20 DEF Reattach, GoTo
<1>21. ASSUME NEW e \in Execution, Orphaned(e)  PROVE NodeTypes' /\ AskTypes' /\ BackendTypes'
  BY <1>21 DEF Orphaned, FailTurn, FailExecution
<1>22. ASSUME UNCHANGED vars  PROVE UNCHANGED <<submitting, returned, waiters, woken, closing, up, endpoint, orphans, losses, crashes>>
  BY <1>22 DEF vars
<1>23. CASE UNCHANGED <<submitting, returned, waiters, woken, closing, up, endpoint, orphans, losses, crashes>>
  BY <1>23
<1>. QED
  BY <1>1, <1>2, <1>3, <1>4, <1>5, <1>6, <1>7, <1>8, <1>9, <1>10, <1>11, <1>12, <1>13,
     <1>14, <1>15, <1>16, <1>17, <1>18, <1>19, <1>20, <1>21, <1>22, <1>23
     DEF TurnNext, NodeSteps, AskSteps, TurnSteps, WorkerSteps, CancelSteps, ServerSteps,
         StopSteps, StartSteps

\* Every step keeps the types of the calls of cancel.
LEMMA CallStep ==
  ASSUME CallTypes, ProductTypes, active \in [Execution -> 0..MaxTurns], [TurnNext]_vars
  PROVE  CallTypes'
<1>. USE TurnNumbers DEF CallTypes, Calls, Caller, Worker
<1>. USE DEF product, adapter, node, watching, asking, backend, bounds
<1>1. ASSUME NEW e \in Execution,
             Submit(e) \/ Execute(e) \/ ExecuteFails(e) \/ Commit(e) \/
             WatchWaiting(e) \/ Reattach(e) \/ Orphaned(e)
      PROVE  UNCHANGED <<cancelling>>
  BY <1>1 DEF Submit, Execute, ExecuteFails, Commit, WatchWaiting, Reattach, Orphaned
<1>2. ASSUME NEW e \in Execution, NEW t \in Turn,
             ServerAsks(e, t) \/ ServerEnds(e, t) \/ ConnectionLost(e, t) \/
             Decide(e, t) \/ WorkerHearsEnd(e, t) \/ WorkerLoses(e, t) \/
             WorkerHearsAsk(e, t) \/ WorkerAsks(e, t) \/ WorkerReads(e, t) \/
             WorkerWakes(e, t) \/ WorkerAnswers(e, t) \/ WorkerStarts(e, t) \/
             WorkerCompletes(e, t) \/ WorkerResumes(e, t) \/ WorkerLost(e, t) \/
             WorkerFails(e, t) \/ WorkerPersists(e, t) \/ WorkerErrs(e, t) \/
             WorkerCloses(e, t)
      PROVE  UNCHANGED <<cancelling>>
  BY <1>2 DEF ServerAsks, ServerEnds, ConnectionLost, Decide, WorkerHearsEnd, WorkerLoses,
     WorkerHearsAsk, WorkerAsks, WorkerReads, WorkerWakes, WorkerAnswers, WorkerStarts,
     WorkerCompletes, WorkerResumes, WorkerLost, WorkerFails, WorkerPersists, WorkerErrs,
     WorkerCloses, WorkerFrame
<1>3. ASSUME 
             Retry \/ CloseApprovals \/ CloseSupervisor \/ Startup
      PROVE  UNCHANGED <<cancelling>>
  BY <1>3 DEF Retry, CloseApprovals, CloseSupervisor, Startup
<1>4. ASSUME NEW e \in Execution, NEW t \in Turn, WorkerCancels(e, t)  PROVE CallTypes'
  BY <1>4 DEF WorkerCancels, GoTo, CancelExecutions, Cancels, Interrupted, NoCancel
<1>5. ASSUME NEW c \in Caller, Dispatch(c)  PROVE CallTypes'
  BY <1>5 DEF Dispatch, Says, NoCancel
<1>6. ASSUME NEW c \in Caller, Acknowledged(c)  PROVE CallTypes'
  BY <1>6 DEF Acknowledged, NoCancel
<1>7. ASSUME NEW c \in Caller, RecordDispatch(c)  PROVE CallTypes'
  BY <1>7 DEF RecordDispatch, NoCancel
<1>8. ASSUME NEW c \in Caller, CancelApprovals(c)  PROVE CallTypes'
  BY <1>8 DEF CancelApprovals, Withdraw, Resolve, CancelEnds, GoTo, NoCancel
<1>9. ASSUME Cancel  PROVE CallTypes'
  <2>1. PICK s \in SUBSET Execution :
          cancelling' = [cancelling EXCEPT ![Client].at = "dispatch", ![Client].targets = s]
    BY <1>9 DEF Cancel, Cancels, Interrupted, ProductTypes
  <2>. DEFINE r == [cancelling[Client] EXCEPT !.at = "dispatch", !.targets = s]
  <2>2. r \in Calls  OBVIOUS
  <2>3. cancelling' = [cancelling EXCEPT ![Client] = r]  BY <2>1
  <2>. HIDE DEF r
  <2>. QED  BY <2>2, <2>3
<1>10. ASSUME Crash  PROVE CallTypes'
  BY <1>10 DEF Crash, Stop, NoCancel
<1>11. ASSUME Exit  PROVE CallTypes'
  BY <1>11 DEF Exit, Stop, NoCancel
<1>12. ASSUME UNCHANGED vars  PROVE UNCHANGED <<cancelling>>
  BY <1>12 DEF vars
<1>13. CASE UNCHANGED <<cancelling>>
  BY <1>13
<1>. QED
  BY <1>1, <1>2, <1>3, <1>4, <1>5, <1>6, <1>7, <1>8, <1>9, <1>10, <1>11, <1>12, <1>13
     DEF TurnNext, NodeSteps, AskSteps, TurnSteps, WorkerSteps, CancelSteps, ServerSteps,
         StopSteps, StartSteps


\* What the parts of the invariant say of the next state before all of it is known.
Moves == Shape' /\ ServerMoves

LEMMA ShapeStep == TurnInv /\ [TurnNext]_vars => Moves
<1>. SUFFICES ASSUME TurnInv, [TurnNext]_vars  PROVE Moves
  OBVIOUS
<1>1. /\ ProductTypes /\ AdapterTypes /\ NodeTypes /\ WorkerTypes /\ AskTypes /\ CallTypes
      /\ BackendTypes /\ BegunInv /\ QueueInv /\ CallingInv /\ LifeInv
  BY DEF TurnInv, Shape
<1>2. /\ orphans \subseteq Execution /\ active \in [Execution -> 0..MaxTurns]
      /\ turn \in [Execution -> 0..MaxTurns] /\ None \notin Execution
  BY <1>1, TurnsAssumption DEF ProductTypes, AdapterTypes, BackendTypes, TurnsAssumption
<1>3. ProductTypes'  BY <1>1, <1>2, ProductStep
<1>4. AdapterTypes' /\ ServerMoves  BY <1>1, <1>2, AdapterStep
<1>5. NodeTypes' /\ AskTypes' /\ BackendTypes'  BY <1>1, <1>2, RestStep
<1>6. WorkerTypes'  BY <1>1, <1>2, WorkerStep
<1>7. CallTypes'  BY <1>1, <1>2, CallStep
<1>. QED  BY <1>3, <1>4, <1>5, <1>6, <1>7 DEF Moves, Shape

\* A Turn that began stays begun, and ended as it ended.
LEMMA BegunStays ==
  ASSUME ServerMoves, NEW e \in Execution, NEW t \in Turn
  PROVE  /\ Begun(e, t) => Begun(e, t)'
         /\ Begun(e, t)' => Begun(e, t) \/ Begins(e, t)
         /\ server[e][t] \in Ended \cup {"lost"} => server'[e][t] = server[e][t]
         /\ Begun(e, t) /\ server'[e][t] \in Live => server[e][t] \in Live
<1>1. ~Begins(e, t) \/ ~Begun(e, t)  BY TurnNumbers DEF Begins
<1>2. /\ Begun(e, t) <=> server[e][t] # "none"
      /\ Begun(e, t)' <=> server'[e][t] # "none"
  BY DEF Begun
<1>3. \/ server'[e][t] = server[e][t]
      \/ server[e][t] \in Live /\ server'[e][t] # "none"
      \/ Begins(e, t)
  BY DEF ServerMoves
<1>. HIDE DEF Begun
<1>4. Begins(e, t) => server'[e][t] = "running"  BY DEF Begins
<1>. QED  BY <1>1, <1>2, <1>3, <1>4 DEF Live, Ended

\* The numbers in use are of Turns that began.
Numbers(e) ==
  /\ \A t \in {turn[e], spent[e], active[e]} : t # 0 => Begun(e, t)
  /\ submitting = e /\ returned # None => Begun(e, returned[2])

LEMMA NumbersStep ==
  ASSUME TurnInv, Moves, [TurnNext]_vars, NEW f \in Execution
  PROVE  Numbers(f)'
<1>. USE TurnNumbers DEF product, adapter, node, watching, asking, backend, bounds, Numbers, Begun
<1>1. /\ turn \in [Execution -> 0..MaxTurns] /\ spent \in [Execution -> 0..MaxTurns]
      /\ active \in [Execution -> 0..MaxTurns]
      /\ returned = None \/ returned \in {"waiting", "completed"} \X Turn
      /\ returned # None => submitting # None
  BY DEF TurnInv, Shape, ProductTypes, AdapterTypes, NodeTypes
<1>2. Numbers(f)  BY DEF TurnInv, BegunInv
<1>3. \A t \in Turn : server[f][t] # "none" => server'[f][t] # "none"
  BY BegunStays DEF Moves
<1>4. ASSUME NEW e \in Execution,
             WatchWaiting(e) \/ Orphaned(e)
      PROVE  UNCHANGED <<turn, spent, active, submitting, returned>>
  BY <1>4 DEF WatchWaiting, Orphaned
<1>5. ASSUME NEW e \in Execution, NEW t \in Turn,
             ServerAsks(e, t) \/ ServerEnds(e, t) \/ ConnectionLost(e, t) \/
             Decide(e, t) \/ WorkerHearsEnd(e, t) \/ WorkerLoses(e, t) \/
             WorkerCancels(e, t) \/ WorkerHearsAsk(e, t) \/ WorkerAsks(e, t) \/
             WorkerReads(e, t) \/ WorkerWakes(e, t) \/ WorkerAnswers(e, t) \/
             WorkerStarts(e, t) \/ WorkerCompletes(e, t) \/ WorkerResumes(e, t) \/
             WorkerLost(e, t) \/ WorkerPersists(e, t) \/ WorkerErrs(e, t)
      PROVE  UNCHANGED <<turn, spent, active, submitting, returned>>
  BY <1>5 DEF ServerAsks, ServerEnds, ConnectionLost, Decide, WorkerHearsEnd, WorkerLoses,
     WorkerCancels, WorkerHearsAsk, WorkerAsks, WorkerReads, WorkerWakes, WorkerAnswers,
     WorkerStarts, WorkerCompletes, WorkerResumes, WorkerLost, WorkerPersists, WorkerErrs,
     WorkerFrame
<1>6. ASSUME NEW c \in Caller,
             Dispatch(c) \/ Acknowledged(c) \/ RecordDispatch(c) \/ CancelApprovals(c)
      PROVE  UNCHANGED <<turn, spent, active, submitting, returned>>
  BY <1>6 DEF Dispatch, Acknowledged, RecordDispatch, CancelApprovals, CancelEnds
<1>7. ASSUME 
             Cancel \/ CloseApprovals \/ Startup
      PROVE  UNCHANGED <<turn, spent, active, submitting, returned>>
  BY <1>7 DEF Cancel, CloseApprovals, Startup
<1>8. ASSUME NEW e \in Execution, Submit(e)  PROVE Numbers(f)'
  <2>1. returned = None /\ UNCHANGED <<turn, spent, active, returned>>
    BY <1>8, <1>1 DEF Submit, Unlocked
  <2>. QED  BY <1>1, <1>2, <1>3, <2>1
<1>9. ASSUME NEW e \in Execution, Execute(e)  PROVE Numbers(f)'
  <2>1. CASE active[e] # 0
    <3>1. active[e] \in Turn /\ server[e][active[e]] # "none"
      BY <1>1, <2>1 DEF TurnInv, BegunInv
    <3>2. /\ UNCHANGED <<turn, spent, active, submitting>> /\ returned'[2] = active[e]
          /\ submitting = e
      BY <1>9, <2>1 DEF Execute
    <3>. QED  BY <1>1, <1>2, <1>3, <3>1, <3>2
  <2>2. CASE active[e] = 0
    <3>. DEFINE t == Started(e) + 1
    <3>1. t \in Turn  BY <1>9, <2>2, NextTurnIsNew DEF Execute, TurnInv
    <3>2. /\ UNCHANGED <<turn, spent, submitting>> /\ submitting = e
          /\ server' = [server EXCEPT ![e][t] = "running"]
          /\ active' = [active EXCEPT ![e] = t] /\ returned' = <<"waiting", t>>
      BY <1>9, <2>2 DEF Execute
    <3>. HIDE DEF t
    <3>3. server'[e][t] # "none"  BY <3>1, <3>2 DEF TurnInv, Shape, AdapterTypes
    <3>. QED  BY <1>1, <1>2, <1>3, <3>1, <3>2, <3>3
  <2>. QED  BY <2>1, <2>2
<1>10. ASSUME NEW e \in Execution, ExecuteFails(e)  PROVE Numbers(f)'
  BY <1>10, <1>1, <1>2, <1>3 DEF ExecuteFails, FailExecution
<1>11. ASSUME NEW e \in Execution, Commit(e)  PROVE Numbers(f)'
  <2>1. /\ UNCHANGED <<spent, active>> /\ submitting' = None /\ returned' = None
        /\ turn' = [turn EXCEPT ![e] = returned[2]] /\ submitting = e /\ returned # None
    BY <1>11 DEF Commit
  <2>2. f # e => turn'[f] = turn[f]  BY <1>1, <2>1
  <2>3. f = e => turn'[f] = returned[2] /\ server[f][returned[2]] # "none" /\ returned[2] \in Turn
    BY <1>1, <1>2, <2>1
  <2>. QED  BY <1>1, <1>2, <1>3, <2>1, <2>2, <2>3
<1>12. ASSUME NEW e \in Execution, NEW t \in Turn, WorkerFails(e, t)  PROVE Numbers(f)'
  BY <1>12, <1>1, <1>2, <1>3 DEF WorkerFails, GoTo, CloseExecution, Hangs, WorkerFrame
<1>13. ASSUME NEW e \in Execution, NEW t \in Turn, WorkerCloses(e, t)  PROVE Numbers(f)'
  BY <1>13, <1>1, <1>2, <1>3 DEF WorkerCloses, GoTo, CloseExecution, Hangs, WorkerFrame
<1>14. ASSUME Retry  PROVE Numbers(f)'
  BY <1>14, <1>1, <1>2, <1>3 DEF Retry
<1>15. ASSUME Crash  PROVE Numbers(f)'
  BY <1>15, <1>1, <1>2, <1>3 DEF Crash, Stop
<1>16. ASSUME CloseSupervisor  PROVE Numbers(f)'
  BY <1>16, <1>1, <1>2, <1>3 DEF CloseSupervisor
<1>17. ASSUME Exit  PROVE Numbers(f)'
  BY <1>17, <1>1, <1>2, <1>3 DEF Exit, Stop
<1>18. ASSUME NEW e \in Execution, Reattach(e)  PROVE Numbers(f)'
  BY <1>18, <1>1, <1>2, <1>3 DEF Reattach, GoTo
<1>19. ASSUME UNCHANGED vars  PROVE UNCHANGED <<turn, spent, active, submitting, returned>>
  BY <1>19 DEF vars
<1>20. CASE UNCHANGED <<turn, spent, active, submitting, returned>>
  BY <1>20, <1>1, <1>2, <1>3
<1>. QED
  BY <1>4, <1>5, <1>6, <1>7, <1>8, <1>9, <1>10, <1>11, <1>12, <1>13, <1>14, <1>15, <1>16,
     <1>17, <1>18, <1>19, <1>20
     DEF TurnNext, NodeSteps, AskSteps, TurnSteps, WorkerSteps, CancelSteps, ServerSteps,
         StopSteps, StartSteps

\* The worker of one Turn goes on.
OnlyWorker(e, t) ==
  \A f \in Execution, u \in 0..MaxTurns : ~(f = e /\ u = t) => worker'[f][u] = worker[f][u]

LEMMA Going ==
  ASSUME Shape, NEW e \in Execution, NEW t \in 0..MaxTurns, NEW p, GoTo(e, t, p)
  PROVE  OnlyWorker(e, t) /\ worker'[e][t] = p
BY DEF Shape, WorkerTypes, GoTo, OnlyWorker

\* The prompts that are withdrawn.
LEMMA Resolving ==
  ASSUME NEW W, NEW d, Resolve(W, d), NEW e \in Execution, NEW t \in Turn
  PROVE  approval'[e][t] = IF approval[e][t] = "pending" /\ <<e, t>> \in W
                           THEN d ELSE approval[e][t]
BY DEF Resolve, Pends

LEMMA Withdrawing ==
  ASSUME NEW W, Withdraw(W), NEW e \in Execution, NEW t \in Turn
  PROVE  approval'[e][t] = IF approval[e][t] = "pending" /\ <<e, t>> \in W
                           THEN "cancel" ELSE approval[e][t]
BY Resolving DEF Withdraw

\* Of a Turn that has not begun there is no session, prompt or worker.
Quiet(e, t) ==
  session[e][t] = NoSession /\ approval[e][t] = "none" /\ worker[e][t] = "none"

LEMMA QuietStep ==
  ASSUME TurnInv, Moves, [TurnNext]_vars, NEW f \in Execution, NEW u \in Turn,
         ~Begun(f, u), ~Begun(f, u)'
  PROVE  Quiet(f, u)'
<1>. USE TurnNumbers DEF product, adapter, node, watching, asking, backend, bounds, Quiet
<1>1. Quiet(f, u)  BY DEF TurnInv, BegunInv
<1>2. /\ session \in [Execution -> [Turn -> Sessions]]
      /\ approval \in [Execution -> [Turn -> Decisions \cup {"none", "pending"}]]
      /\ worker \in [Execution -> [0..MaxTurns -> Places]]
      /\ active \in [Execution -> 0..MaxTurns] /\ turn \in [Execution -> 0..MaxTurns]
  BY DEF TurnInv, Shape, ProductTypes, AdapterTypes, WorkerTypes
<1>3. server[f][u] = "none" /\ server'[f][u] = "none"  BY DEF Begun
<1>4. turn[f] # u /\ active[f] # u  BY <1>3 DEF TurnInv, BegunInv, Begun
<1>5. ASSUME NEW e \in Execution,
             Submit(e) \/ ExecuteFails(e) \/ Commit(e) \/ Orphaned(e)
      PROVE  UNCHANGED <<session, approval, worker>>
  BY <1>5 DEF Submit, ExecuteFails, Commit, Orphaned
<1>6. ASSUME NEW c \in Caller,
             RecordDispatch(c)
      PROVE  UNCHANGED <<session, approval, worker>>
  BY <1>6 DEF RecordDispatch
<1>7. ASSUME 
             Retry \/ Cancel
      PROVE  UNCHANGED <<session, approval, worker>>
  BY <1>7 DEF Retry, Cancel
<1>8. ASSUME NEW e \in Execution, Execute(e)  PROVE Quiet(f, u)'
  <2>1. UNCHANGED <<approval, worker>>  BY <1>8 DEF Execute
  <2>2. CASE session' = session  BY <1>1, <2>1, <2>2
  <2>3. CASE session' # session
    <3>. DEFINE t == Started(e) + 1
    <3>1. /\ server' = [server EXCEPT ![e][t] = "running"]
          /\ session' = [session EXCEPT ![e][t].open = TRUE]
          /\ Started(e) < MaxTurns
      BY <1>8, <2>3 DEF Execute
    <3>2. t \in Turn  BY <3>1, NextTurnIsNew DEF TurnInv
    <3>. HIDE DEF t
    <3>3. server'[e][t] = "running"  BY <3>1, <3>2 DEF TurnInv, Shape, AdapterTypes
    <3>4. ~(f = e /\ u = t)  BY <1>3, <3>3
    <3>. QED  BY <1>1, <1>2, <2>1, <3>1, <3>4
  <2>. QED  BY <2>2, <2>3
<1>9. ASSUME NEW e \in Execution, WatchWaiting(e)  PROVE Quiet(f, u)'
  BY <1>9, <1>1, <1>2, <1>3, <1>4 DEF WatchWaiting, Watch, GoTo
<1>10. ASSUME NEW e \in Execution, NEW t \in Turn, ServerAsks(e, t)  PROVE Quiet(f, u)'
  BY <1>10, <1>1, <1>2, <1>3, <1>4 DEF ServerAsks, Says
<1>11. ASSUME NEW e \in Execution, NEW t \in Turn, ServerEnds(e, t)  PROVE Quiet(f, u)'
  BY <1>11, <1>1, <1>2, <1>3, <1>4 DEF ServerEnds, Says
<1>12. ASSUME NEW e \in Execution, NEW t \in Turn, ConnectionLost(e, t)  PROVE Quiet(f, u)'
  <2>1. /\ UNCHANGED <<approval, worker>> /\ session[e][t].open
        /\ session' = [session EXCEPT ![e][t].open = FALSE]
    BY <1>12 DEF ConnectionLost, Hangs
  <2>2. ~(f = e /\ u = t)  BY <1>1, <2>1 DEF NoSession
  <2>. QED  BY <1>1, <1>2, <2>1, <2>2
<1>13. ASSUME NEW e \in Execution, NEW t \in Turn, Decide(e, t)  PROVE Quiet(f, u)'
  BY <1>13, <1>1, <1>2, <1>3, <1>4 DEF Decide
<1>14. ASSUME NEW e \in Execution, NEW t \in Turn, WorkerHearsEnd(e, t)  PROVE Quiet(f, u)'
  BY <1>14, <1>1, <1>2, <1>3, <1>4 DEF WorkerHearsEnd, Hears, GoTo, WorkerFrame
<1>15. ASSUME NEW e \in Execution, NEW t \in Turn, WorkerLoses(e, t)  PROVE Quiet(f, u)'
  BY <1>15, <1>1, <1>2, <1>3, <1>4 DEF WorkerLoses, Loses, GoTo, WorkerFrame
<1>16. ASSUME NEW e \in Execution, NEW t \in Turn, WorkerCancels(e, t)  PROVE Quiet(f, u)'
  <2>1. UNCHANGED <<session, approval>> /\ worker[e][t] # "none"  BY <1>16 DEF WorkerCancels
  <2>2. ~(f = e /\ u = t)  BY <1>1, <2>1
  <2>3. worker' = worker \/ GoTo(e, t, "closes")  BY <1>16 DEF WorkerCancels
  <2>4. worker'[f][u] = worker[f][u]  BY <2>2, <2>3, Going DEF TurnInv, OnlyWorker
  <2>. QED  BY <1>1, <2>1, <2>4
<1>17. ASSUME NEW e \in Execution, NEW t \in Turn, WorkerHearsAsk(e, t)  PROVE Quiet(f, u)'
  BY <1>17, <1>1, <1>2, <1>3, <1>4 DEF WorkerHearsAsk, Hears, Heard, GoTo, WorkerFrame
<1>18. ASSUME NEW e \in Execution, NEW t \in Turn, WorkerAsks(e, t)  PROVE Quiet(f, u)'
  <2>1. UNCHANGED session /\ worker[e][t] # "none"  BY <1>18 DEF WorkerAsks
  <2>2. ~(f = e /\ u = t)  BY <1>1, <2>1
  <2>3. \E p : GoTo(e, t, p)  BY <1>18 DEF WorkerAsks
  <2>4. worker'[f][u] = worker[f][u]  BY <2>2, <2>3, Going DEF TurnInv, OnlyWorker
  <2>5. approval' = approval \/ approval' = [approval EXCEPT ![e][t] = "pending"]
    BY <1>18 DEF WorkerAsks
  <2>6. approval'[f][u] = approval[f][u]  BY <1>2, <2>2, <2>5
  <2>. QED  BY <1>1, <2>1, <2>4, <2>6
<1>19. ASSUME NEW e \in Execution, NEW t \in Turn, WorkerReads(e, t)  PROVE Quiet(f, u)'
  <2>1. UNCHANGED session /\ worker[e][t] # "none"  BY <1>19 DEF WorkerReads
  <2>2. ~(f = e /\ u = t)  BY <1>1, <2>1
  <2>3. \E p : GoTo(e, t, p)  BY <1>19 DEF WorkerReads
  <2>4. worker'[f][u] = worker[f][u]  BY <2>2, <2>3, Going DEF TurnInv, OnlyWorker
  <2>5. UNCHANGED approval  BY <1>19 DEF WorkerReads
  <2>. QED  BY <1>1, <2>1, <2>4, <2>5
<1>20. ASSUME NEW e \in Execution, NEW t \in Turn, WorkerWakes(e, t)  PROVE Quiet(f, u)'
  BY <1>20, <1>1, <1>2, <1>3, <1>4 DEF WorkerWakes, GoTo, WorkerFrame
<1>21. ASSUME NEW e \in Execution, NEW t \in Turn, WorkerAnswers(e, t)  PROVE Quiet(f, u)'
  <2>1. UNCHANGED approval /\ worker[e][t] # "none"  BY <1>21 DEF WorkerAnswers
  <2>2. ~(f = e /\ u = t)  BY <1>1, <2>1
  <2>3. \E p : GoTo(e, t, p)  BY <1>21 DEF WorkerAnswers, Loses
  <2>4. worker'[f][u] = worker[f][u]  BY <2>2, <2>3, Going DEF TurnInv, OnlyWorker
  <2>5. session' = session \/ Says(e, t, "end")  BY <1>21 DEF WorkerAnswers
  <2>6. session'[f][u] = session[f][u]  BY <1>2, <2>2, <2>5 DEF Says
  <2>. QED  BY <1>1, <2>1, <2>4, <2>6
<1>22. ASSUME NEW e \in Execution, NEW t \in Turn, WorkerStarts(e, t)  PROVE Quiet(f, u)'
  BY <1>22, <1>1, <1>2, <1>3, <1>4 DEF WorkerStarts, GoTo, WorkerFrame
<1>23. ASSUME NEW e \in Execution, NEW t \in Turn, WorkerCompletes(e, t)  PROVE Quiet(f, u)'
  BY <1>23, <1>1, <1>2, <1>3, <1>4 DEF WorkerCompletes, GoTo, WorkerFrame
<1>24. ASSUME NEW e \in Execution, NEW t \in Turn, WorkerResumes(e, t)  PROVE Quiet(f, u)'
  BY <1>24, <1>1, <1>2, <1>3, <1>4 DEF WorkerResumes, GoTo, WorkerFrame
<1>25. ASSUME NEW e \in Execution, NEW t \in Turn, WorkerLost(e, t)  PROVE Quiet(f, u)'
  BY <1>25, <1>1, <1>2, <1>3, <1>4 DEF WorkerLost, GoTo, WorkerFrame
<1>26. ASSUME NEW e \in Execution, NEW t \in Turn, WorkerFails(e, t)  PROVE Quiet(f, u)'
  BY <1>26, <1>1, <1>2, <1>3, <1>4 DEF WorkerFails, GoTo, CloseExecution, Hangs,
     WorkerFrame
<1>27. ASSUME NEW e \in Execution, NEW t \in Turn, WorkerPersists(e, t)  PROVE Quiet(f, u)'
  BY <1>27, <1>1, <1>2, <1>3, <1>4 DEF WorkerPersists, GoTo, FailTurn, FailExecution, WorkerFrame
<1>28. ASSUME NEW e \in Execution, NEW t \in Turn, WorkerErrs(e, t)  PROVE Quiet(f, u)'
  BY <1>28, <1>1, <1>2, <1>3, <1>4 DEF WorkerErrs, GoTo, WorkerFrame
<1>29. ASSUME NEW e \in Execution, NEW t \in Turn, WorkerCloses(e, t)  PROVE Quiet(f, u)'
  BY <1>29, <1>1, <1>2, <1>3, <1>4 DEF WorkerCloses, GoTo, CloseExecution, Hangs,
     WorkerFrame
<1>30. ASSUME NEW c \in Caller, Dispatch(c)  PROVE Quiet(f, u)'
  BY <1>30, <1>1, <1>2, <1>3, <1>4 DEF Dispatch, Says
<1>31. ASSUME NEW c \in Caller, Acknowledged(c)  PROVE Quiet(f, u)'
  BY <1>31, <1>1, <1>2, <1>3, <1>4 DEF Acknowledged
<1>32. ASSUME NEW c \in Caller, CancelApprovals(c)  PROVE Quiet(f, u)'
  <2>1. session' = session /\ Withdraw(Worker)  BY <1>32 DEF CancelApprovals, CancelEnds
  <2>2. approval'[f][u] = "none"  BY <1>1, <2>1, Withdrawing
  <2>3. CASE c = Client
    <3>1. worker' = worker  BY <1>32, <2>3 DEF CancelApprovals, CancelEnds
    <3>. QED  BY <1>1, <2>1, <2>2, <3>1
  <2>4. CASE c # Client
    <3>1. PICK e \in Execution, t \in Turn : c = <<e, t>>  BY <2>4 DEF Caller, Worker
    <3>2. GoTo(e, t, "closes") /\ cancelling[c].at # "none"
      BY <1>32, <2>4, <3>1 DEF CancelApprovals, CancelEnds
    <3>3. worker[e][t] = "cancels"  BY <3>1, <3>2 DEF TurnInv, CallingInv
    <3>4. worker'[f][u] = worker[f][u]  BY <1>1, <3>2, <3>3, Going DEF TurnInv, OnlyWorker
    <3>. QED  BY <1>1, <2>1, <2>2, <3>4
  <2>. QED  BY <2>3, <2>4
<1>33. ASSUME CloseApprovals  PROVE Quiet(f, u)'
  <2>1. UNCHANGED <<session, worker>> /\ \E W : Withdraw(W)  BY <1>33 DEF CloseApprovals
  <2>. QED  BY <1>1, <2>1, Withdrawing
<1>34. ASSUME Crash  PROVE Quiet(f, u)'
  BY <1>34, <1>1, <1>2, <1>3, <1>4 DEF Crash, Stop
<1>35. ASSUME CloseSupervisor  PROVE Quiet(f, u)'
  BY <1>35, <1>1, <1>2, <1>3, <1>4 DEF CloseSupervisor
<1>36. ASSUME Exit  PROVE Quiet(f, u)'
  BY <1>36, <1>1, <1>2, <1>3, <1>4 DEF Exit, Stop
<1>37. ASSUME Startup  PROVE Quiet(f, u)'
  <2>1. UNCHANGED <<session, worker>> /\ \E W : Resolve(W, "orphaned")  BY <1>37 DEF Startup
  <2>. QED  BY <1>1, <2>1, Resolving
<1>38. ASSUME NEW e \in Execution, Reattach(e)  PROVE Quiet(f, u)'
  BY <1>38, <1>1, <1>2, <1>3, <1>4 DEF Reattach, GoTo
<1>39. ASSUME UNCHANGED vars  PROVE UNCHANGED <<session, approval, worker>>
  BY <1>39 DEF vars
<1>40. CASE UNCHANGED <<session, approval, worker>>
  BY <1>40, <1>1
<1>. QED
  BY <1>5, <1>6, <1>7, <1>8, <1>9, <1>10, <1>11, <1>12, <1>13, <1>14, <1>15, <1>16, <1>17,
     <1>18, <1>19, <1>20, <1>21, <1>22, <1>23, <1>24, <1>25, <1>26, <1>27, <1>28, <1>29,
     <1>30, <1>31, <1>32, <1>33, <1>34, <1>35, <1>36, <1>37, <1>38, <1>39, <1>40
     DEF TurnNext, NodeSteps, AskSteps, TurnSteps, WorkerSteps, CancelSteps, ServerSteps,
         StopSteps, StartSteps

LEMMA BegunStep == TurnInv /\ Moves /\ [TurnNext]_vars => BegunInv'
<1>. SUFFICES ASSUME TurnInv, Moves, [TurnNext]_vars, NEW e \in Execution
              PROVE  /\ \A t, u \in Turn : u < t /\ Begun(e, t)' => Begun(e, u)'
                     /\ Numbers(e)'
                     /\ \A t \in Turn : ~Begun(e, t)' => Quiet(e, t)'
  BY DEF BegunInv, Numbers, Quiet, Begun
<1>1. ASSUME NEW t \in Turn, NEW u \in Turn, u < t, Begun(e, t)'  PROVE Begun(e, u)'
  <2>1. CASE Begun(e, t)  BY <1>1, <2>1, BegunStays DEF TurnInv, BegunInv, Moves
  <2>2. CASE Begins(e, t)  BY <1>1, <2>2, BegunStays DEF Begins, Moves
  <2>. QED  BY <1>1, <2>1, <2>2, BegunStays DEF Moves
<1>2. Numbers(e)'  BY NumbersStep
<1>3. ASSUME NEW t \in Turn, ~Begun(e, t)'  PROVE Quiet(e, t)'
  BY <1>3, QuietStep, BegunStays DEF Moves
<1>. QED  BY <1>1, <1>2, <1>3

\* A step at one Turn leaves the queues and the ends of the others alone.
LEMMA QueueAt ==
  ASSUME QueueInv, NEW e \in Execution, NEW t \in Turn,
         OnlyServer(e, t) \/ server' = server, OnlySession(e, t) \/ session' = session,
         OnlyWorker(e, t) \/ worker' = worker, Queue(e, t)'
  PROVE  QueueInv'
<1>. SUFFICES ASSUME NEW f \in Execution, NEW u \in Turn, ~(f = e /\ u = t)
              PROVE  Queue(f, u)'
  BY DEF QueueInv
<1>1. u \in 0..MaxTurns  BY TurnNumbers
<1>2. server'[f][u] = server[f][u]  BY DEF OnlyServer
<1>3. session'[f][u] = session[f][u]  BY DEF OnlySession
<1>4. worker'[f][u] = worker[f][u]  BY <1>1 DEF OnlyWorker
<1>. QED  BY <1>2, <1>3, <1>4 DEF QueueInv, Queue

\* A worker that goes on learns nothing of the end of its Turn but what is true.
LEMMA QueueWorker ==
  ASSUME QueueInv, Shape, NEW e \in Execution, NEW t \in Turn, NEW p, GoTo(e, t, p),
         UNCHANGED <<server, session>>, p \in Asked => worker[e][t] \in Asked,
         p \in {"completes", "resumes"} => session[e][t].done,
         p = "cancels" => server[e][t] = "interrupted"
  PROVE  QueueInv'
<1>1. OnlyWorker(e, t) /\ worker'[e][t] = p  BY Going, TurnNumbers
<1>2. Queue(e, t)'  BY <1>1 DEF QueueInv, Queue
<1>. QED  BY <1>1, <1>2, QueueAt

\* A connection that is lost or closed says nothing of the end of its Turn.
LEMMA QueueHangs ==
  ASSUME QueueInv, Shape, NEW e \in Execution, NEW t \in Turn, Hangs(e, t),
         \/ worker' = worker
         \/ \E p \in {"persists", "ended"} : GoTo(e, t, p)
  PROVE  QueueInv'
<1>1. /\ OnlyServer(e, t) /\ server'[e][t] = Dies(e, t)
      /\ OnlySession(e, t) /\ session'[e][t].inbox = session[e][t].inbox
      /\ session'[e][t].ack = session[e][t].ack /\ session'[e][t].done = session[e][t].done
  BY Hanging DEF Shape
<1>2. server'[e][t] = server[e][t] \/ (server[e][t] \in Live /\ server'[e][t] = "lost")
  BY <1>1, DiesType DEF Shape
<1>3. /\ worker' = worker \/ OnlyWorker(e, t)
      /\ worker'[e][t] \in {worker[e][t], "persists", "ended"}
  BY Going, TurnNumbers
<1>4. Queue(e, t)'  BY <1>1, <1>2, <1>3 DEF QueueInv, Queue, Asked, Live
<1>. QED  BY <1>1, <1>3, <1>4, QueueAt

LEMMA QueueStep == TurnInv /\ Moves /\ [TurnNext]_vars => QueueInv'
<1>. SUFFICES ASSUME TurnInv, Moves, [TurnNext]_vars  PROVE QueueInv'
  OBVIOUS
<1>. USE TurnNumbers DEF product, adapter, node, watching, asking, backend, bounds
<1>1. /\ Shape /\ QueueInv /\ AdapterTypes /\ active \in [Execution -> 0..MaxTurns]
      /\ \A e \in Execution, t \in Turn : Queue(e, t) /\ session[e][t] \in Sessions
  BY DEF TurnInv, Shape, QueueInv, AdapterTypes
<1>2. ASSUME NEW e \in Execution,
             Submit(e) \/ ExecuteFails(e) \/ Commit(e) \/ Orphaned(e)
      PROVE  UNCHANGED <<server, session, worker>>
  BY <1>2 DEF Submit, ExecuteFails, Commit, Orphaned
<1>3. ASSUME NEW e \in Execution, NEW t \in Turn,
             Decide(e, t)
      PROVE  UNCHANGED <<server, session, worker>>
  BY <1>3 DEF Decide
<1>4. ASSUME NEW c \in Caller,
             RecordDispatch(c)
      PROVE  UNCHANGED <<server, session, worker>>
  BY <1>4 DEF RecordDispatch
<1>5. ASSUME 
             Retry \/ Cancel \/ CloseApprovals \/ Startup
      PROVE  UNCHANGED <<server, session, worker>>
  BY <1>5 DEF Retry, Cancel, CloseApprovals, Startup
<1>6. ASSUME NEW e \in Execution, Execute(e)  PROVE QueueInv'
  <2>1. worker' = worker  BY <1>6 DEF Execute
  <2>2. CASE UNCHANGED <<server, session>>  BY <1>1, <2>1, <2>2 DEF QueueInv, Queue
  <2>3. CASE ~UNCHANGED <<server, session>>
    <3>1. Started(e) < MaxTurns  BY <1>6, <2>3 DEF Execute
    <3>2. PICK t \in Turn : /\ ~Begun(e, t)
                            /\ server' = [server EXCEPT ![e][t] = "running"]
                            /\ session' = [session EXCEPT ![e][t].open = TRUE]
      BY <1>6, <2>3, <3>1, NextTurnIsNew DEF Execute, TurnInv
    <3>3. OnlyServer(e, t) /\ server'[e][t] = "running"
      BY <1>1, <3>2, ServerSet DEF ServerStatus
    <3>4. /\ OnlySession(e, t) /\ session'[e][t].inbox = session[e][t].inbox
          /\ session'[e][t].ack = session[e][t].ack /\ session'[e][t].done = session[e][t].done
      BY <1>1, <3>2, Opening
    <3>5. session[e][t] = NoSession /\ worker[e][t] = "none"
      BY <3>2 DEF TurnInv, BegunInv
    <3>6. Queue(e, t)'  BY <2>1, <3>3, <3>4, <3>5 DEF Queue, NoSession, Asked
    <3>. QED  BY <1>1, <2>1, <3>2, <3>3, <3>4, <3>6, QueueAt
  <2>. QED  BY <2>2, <2>3
<1>7. ASSUME NEW e \in Execution, WatchWaiting(e)  PROVE QueueInv'
  <2>1. UNCHANGED <<server, session>> /\ GoTo(e, active[e], "starts")
    BY <1>7 DEF WatchWaiting, Watch
  <2>2. CASE active[e] \in Turn  BY <1>1, <2>1, <2>2, QueueWorker DEF Asked
  <2>3. CASE active[e] = 0
    <3>1. \A f \in Execution, u \in Turn : worker'[f][u] = worker[f][u]
      BY <1>1, <2>1, <2>3, Going DEF OnlyWorker
    <3>. QED  BY <1>1, <2>1, <3>1 DEF QueueInv, Queue
  <2>. QED  BY <1>1, <2>2, <2>3
<1>8. ASSUME NEW e \in Execution, NEW t \in Turn, ServerAsks(e, t)  PROVE QueueInv'
  <2>1. /\ server[e][t] = "running" /\ UNCHANGED worker /\ Says(e, t, "ask")
        /\ server' = [server EXCEPT ![e][t] = "asking"]
    BY <1>8 DEF ServerAsks
  <2>2. session[e][t].inbox = <<>>  BY <1>1, <2>1 DEF Queue
  <2>3. OnlyServer(e, t) /\ server'[e][t] = "asking"
    BY <1>1, <2>1, ServerSet DEF ServerStatus
  <2>4. /\ OnlySession(e, t)
        /\ session'[e][t].inbox \in {session[e][t].inbox, Append(session[e][t].inbox, "ask")}
        /\ session'[e][t].ack = session[e][t].ack /\ session'[e][t].done = session[e][t].done
    BY <1>1, <2>1, <2>2, Saying
  <2>5. Queue(e, t)'  BY <1>1, <2>1, <2>2, <2>3, <2>4, QueueValues DEF Queue
  <2>. QED  BY <1>1, <2>1, <2>3, <2>4, <2>5, QueueAt
<1>9. ASSUME NEW e \in Execution, NEW t \in Turn, ServerEnds(e, t)  PROVE QueueInv'
  <2>1. PICK how \in Endings : server' = [server EXCEPT ![e][t] = how]
    BY <1>9 DEF ServerEnds
  <2>2. server[e][t] = "running" /\ UNCHANGED worker /\ Says(e, t, "end")
    BY <1>9 DEF ServerEnds
  <2>3. session[e][t].inbox = <<>>  BY <1>1, <2>2 DEF Queue
  <2>4. how \in Ended  BY TurnsAssumption DEF TurnsAssumption, Ended
  <2>5. OnlyServer(e, t) /\ server'[e][t] = how
    BY <1>1, <2>1, <2>4, ServerSet DEF ServerStatus, Ended
  <2>6. /\ OnlySession(e, t)
        /\ session'[e][t].ack = session[e][t].ack /\ session'[e][t].done = session[e][t].done
    BY <1>1, <2>2, <2>3, Saying
  <2>7. Queue(e, t)'  BY <1>1, <2>2, <2>4, <2>5, <2>6 DEF Queue, Ended
  <2>. QED  BY <1>1, <2>2, <2>5, <2>6, <2>7, QueueAt
<1>10. ASSUME NEW e \in Execution, NEW t \in Turn, ConnectionLost(e, t)  PROVE QueueInv'
  <2>1. Hangs(e, t) /\ UNCHANGED worker  BY <1>10 DEF ConnectionLost
  <2>. QED  BY <1>1, <2>1, QueueHangs
<1>11. ASSUME NEW e \in Execution, NEW t \in Turn, WorkerHearsEnd(e, t)  PROVE QueueInv'
  <2>1. Tail(session[e][t].inbox) \in Queues  BY <1>1, <1>11, Hearing DEF WorkerHearsEnd
  <2>. DEFINE place == CASE server[e][t] = "completed" -> "completes"
                         [] server[e][t] = "silent" -> "errors"
                         [] server[e][t] = "interrupted" -> "cancels"
                         [] OTHER -> "fails"
  <2>2. PICK q \in Queues, b \in BOOLEAN :
          /\ HearsLast(e, t, q, b)
          /\ q = Tail(session[e][t].inbox) /\ (b <=> server[e][t] = "completed")
    BY <1>11, <2>1 DEF WorkerHearsEnd, HearsLast
  <2>3. GoTo(e, t, place) /\ UNCHANGED server /\ session[e][t].inbox # <<>>
    BY <1>11 DEF WorkerHearsEnd, Hears
  <2>4. /\ place \in {"completes", "errors", "cancels", "fails"}
        /\ place = "completes" => server[e][t] = "completed"
        /\ place = "cancels" => server[e][t] = "interrupted"
    OBVIOUS
  <2>. HIDE DEF place
  <2>5. PICK p : p = place  OBVIOUS
  <2>6. /\ OnlySession(e, t) /\ session'[e][t].inbox = q
        /\ session'[e][t].ack = session[e][t].ack /\ session'[e][t].done = b
    BY <1>1, <2>2, HearingEnd
  <2>7. OnlyWorker(e, t) /\ worker'[e][t] = p  BY <1>1, <2>3, <2>5, Going
  <2>8. Queue(e, t)'
    BY <1>1, <2>2, <2>3, <2>4, <2>5, <2>6, <2>7, QueueValues DEF Queue, Asked, Queues
  <2>. QED  BY <1>1, <2>3, <2>6, <2>7, <2>8, QueueAt
<1>12. ASSUME NEW e \in Execution, NEW t \in Turn, WorkerLoses(e, t)  PROVE QueueInv'
  <2>1. UNCHANGED <<server, session>>  BY <1>12 DEF WorkerLoses, WorkerFrame
  <2>. QED  BY <1>12, <1>1, <2>1, QueueWorker DEF WorkerLoses, Queue, Asked, Loses
<1>13. ASSUME NEW e \in Execution, NEW t \in Turn, WorkerCancels(e, t)  PROVE QueueInv'
  <2>1. UNCHANGED <<server, session>>  BY <1>13 DEF WorkerCancels
  <2>2. CASE worker' = worker  BY <1>1, <2>1, <2>2 DEF QueueInv, Queue
  <2>3. CASE GoTo(e, t, "closes")  BY <1>1, <2>1, <2>3, QueueWorker DEF Asked
  <2>. QED  BY <1>13, <2>2, <2>3 DEF WorkerCancels
<1>14. ASSUME NEW e \in Execution, NEW t \in Turn, WorkerHearsAsk(e, t)  PROVE QueueInv'
  <2>1. Tail(session[e][t].inbox) \in Queues  BY <1>1, <1>14, Hearing DEF WorkerHearsAsk
  <2>2. /\ session' = [session EXCEPT ![e][t].inbox = Tail(session[e][t].inbox)]
        /\ GoTo(e, t, "asks") /\ UNCHANGED server /\ session[e][t].inbox # <<>>
    BY <1>14 DEF WorkerHearsAsk, Heard, Hears
  <2>3. /\ OnlySession(e, t) /\ session'[e][t].inbox = Tail(session[e][t].inbox)
        /\ session'[e][t].ack = session[e][t].ack /\ session'[e][t].done = session[e][t].done
    BY <1>1, <2>1, <2>2, Queueing
  <2>4. OnlyWorker(e, t) /\ worker'[e][t] = "asks"  BY <1>1, <2>2, Going
  <2>5. Queue(e, t)'  BY <1>1, <2>2, <2>3, <2>4, QueueValues DEF Queue, Asked
  <2>. QED  BY <1>1, <2>2, <2>3, <2>4, <2>5, QueueAt
<1>15. ASSUME NEW e \in Execution, NEW t \in Turn, WorkerAsks(e, t)  PROVE QueueInv'
  <2>1. UNCHANGED <<server, session>>  BY <1>15 DEF WorkerAsks, WorkerFrame
  <2>. QED  BY <1>15, <1>1, <2>1, QueueWorker DEF WorkerAsks, Queue, Asked
<1>16. ASSUME NEW e \in Execution, NEW t \in Turn, WorkerReads(e, t)  PROVE QueueInv'
  <2>1. UNCHANGED <<server, session>>  BY <1>16 DEF WorkerReads, WorkerFrame
  <2>. QED  BY <1>16, <1>1, <2>1, QueueWorker DEF WorkerReads, Queue, Asked
<1>17. ASSUME NEW e \in Execution, NEW t \in Turn, WorkerWakes(e, t)  PROVE QueueInv'
  <2>1. UNCHANGED <<server, session>>  BY <1>17 DEF WorkerWakes, WorkerFrame
  <2>. QED  BY <1>17, <1>1, <2>1, QueueWorker DEF WorkerWakes, Queue, Asked
<1>18. ASSUME NEW e \in Execution, NEW t \in Turn, WorkerAnswers(e, t)  PROVE QueueInv'
  <2>1. /\ worker[e][t] \in Asked
        /\ session[e][t].open => GoTo(e, t, "waits")
        /\ ~session[e][t].open => Loses(e, t) /\ UNCHANGED <<server, session>>
    BY <1>18 DEF WorkerAnswers, Asked
  <2>2. CASE UNCHANGED <<server, session>>
    BY <1>1, <2>1, <2>2, QueueWorker DEF Queue, Loses, Asked
  <2>3. ASSUME server[e][t] = "asking", session[e][t].open, NEW s \in {"running", "interrupted"},
               server' = [server EXCEPT ![e][t] = s], session' = session \/ Says(e, t, "end"),
               s = "running" => session' = session
        PROVE  QueueInv'
    <3>1. session[e][t].inbox = <<>>  BY <1>1, <2>1, <2>3 DEF Queue
    <3>2. OnlyServer(e, t) /\ server'[e][t] = s  BY <1>1, <2>3, ServerSet DEF ServerStatus
    <3>3. /\ OnlySession(e, t) \/ session' = session
          /\ session'[e][t].ack = session[e][t].ack /\ session'[e][t].done = session[e][t].done
      BY <1>1, <2>3, <3>1, Saying
    <3>4. OnlyWorker(e, t) /\ worker'[e][t] = "waits"  BY <1>1, <2>1, <2>3, Going
    <3>5. Queue(e, t)'  BY <1>1, <2>3, <3>1, <3>2, <3>3, <3>4 DEF Queue, Asked
    <3>. QED  BY <1>1, <3>2, <3>3, <3>4, <3>5, QueueAt
  <2>. QED  BY <1>18, <2>1, <2>2, <2>3 DEF WorkerAnswers
<1>19. ASSUME NEW e \in Execution, NEW t \in Turn, WorkerStarts(e, t)  PROVE QueueInv'
  <2>1. UNCHANGED <<server, session>>  BY <1>19 DEF WorkerStarts, WorkerFrame
  <2>. QED  BY <1>19, <1>1, <2>1, QueueWorker DEF WorkerStarts, Queue, Asked
<1>20. ASSUME NEW e \in Execution, NEW t \in Turn, WorkerCompletes(e, t)  PROVE QueueInv'
  <2>1. UNCHANGED <<server, session>>  BY <1>20 DEF WorkerCompletes, WorkerFrame
  <2>. QED  BY <1>20, <1>1, <2>1, QueueWorker DEF WorkerCompletes, Queue, Asked
<1>21. ASSUME NEW e \in Execution, NEW t \in Turn, WorkerResumes(e, t)  PROVE QueueInv'
  <2>1. UNCHANGED <<server, session>>  BY <1>21 DEF WorkerResumes, WorkerFrame
  <2>. QED  BY <1>21, <1>1, <2>1, QueueWorker DEF WorkerResumes, Queue, Asked
<1>22. ASSUME NEW e \in Execution, NEW t \in Turn, WorkerLost(e, t)  PROVE QueueInv'
  <2>1. UNCHANGED <<server, session>>  BY <1>22 DEF WorkerLost, WorkerFrame
  <2>. QED  BY <1>22, <1>1, <2>1, QueueWorker DEF WorkerLost, Queue, Asked
<1>23. ASSUME NEW e \in Execution, NEW t \in Turn, WorkerFails(e, t)  PROVE QueueInv'
  <2>1. CloseExecution(e, t) /\ \E p \in {"persists", "ended"} : GoTo(e, t, p)
    BY <1>23 DEF WorkerFails
  <2>2. CASE UNCHANGED <<server, session, active>>
    BY <1>1, <2>1, <2>2, QueueWorker DEF Asked
  <2>3. CASE Hangs(e, t)
    BY <1>1, <2>1, <2>3, QueueHangs
  <2>. QED  BY <2>1, <2>2, <2>3, Closes
<1>24. ASSUME NEW e \in Execution, NEW t \in Turn, WorkerPersists(e, t)  PROVE QueueInv'
  <2>1. UNCHANGED <<server, session>>  BY <1>24 DEF WorkerPersists, WorkerFrame
  <2>. QED  BY <1>24, <1>1, <2>1, QueueWorker DEF WorkerPersists, Queue, Asked
<1>25. ASSUME NEW e \in Execution, NEW t \in Turn, WorkerErrs(e, t)  PROVE QueueInv'
  <2>1. UNCHANGED <<server, session>>  BY <1>25 DEF WorkerErrs, WorkerFrame
  <2>. QED  BY <1>25, <1>1, <2>1, QueueWorker DEF WorkerErrs, Queue, Asked
<1>26. ASSUME NEW e \in Execution, NEW t \in Turn, WorkerCloses(e, t)  PROVE QueueInv'
  <2>1. CloseExecution(e, t) /\ \E p \in {"persists", "ended"} : GoTo(e, t, p)
    BY <1>26 DEF WorkerCloses
  <2>2. CASE UNCHANGED <<server, session, active>>
    BY <1>1, <2>1, <2>2, QueueWorker DEF Asked
  <2>3. CASE Hangs(e, t)
    BY <1>1, <2>1, <2>3, QueueHangs
  <2>. QED  BY <2>1, <2>2, <2>3, Closes
<1>27. ASSUME NEW c \in Caller, Dispatch(c)  PROVE QueueInv'
  <2>1. worker' = worker  BY <1>27 DEF Dispatch, watching
  <2>2. CASE UNCHANGED <<server, session>>  BY <1>1, <2>1, <2>2 DEF QueueInv, Queue
  <2>3. ASSUME NEW e \in cancelling[c].targets, active[e] # 0, server[e][active[e]] \in Live,
               server' = [server EXCEPT ![e][active[e]] = "interrupted"],
               Says(e, active[e], "end")
        PROVE  QueueInv'
    <3>1. e \in Execution /\ active[e] \in Turn
      BY <1>1, <2>3 DEF Shape, CallTypes, Calls
    <3>2. session[e][active[e]].inbox \in {<<>>, <<"ask">>}
      BY <1>1, <2>3, <3>1 DEF Queue, Live
    <3>3. OnlyServer(e, active[e]) /\ server'[e][active[e]] = "interrupted"
      BY <1>1, <2>3, <3>1, ServerSet DEF ServerStatus
    <3>4. /\ OnlySession(e, active[e])
          /\ session'[e][active[e]].ack = session[e][active[e]].ack
          /\ session'[e][active[e]].done = session[e][active[e]].done
      BY <1>1, <2>3, <3>1, <3>2, Saying
    <3>. DEFINE t == active[e]
    <3>5. Queue(e, t)  BY <1>1, <3>1
    <3>6. /\ server'[e][t] = "interrupted" /\ server[e][t] \in Live /\ worker' = worker
          /\ session'[e][t].done = session[e][t].done
      BY <2>1, <2>3, <3>3, <3>4
    <3>7. \A u \in Turn : u = t => Queue(e, u)'
      BY <3>5, <3>6 DEF Queue, Live
    <3>. QED  BY <1>1, <2>1, <3>1, <3>3, <3>4, <3>7, QueueAt
  <2>. QED  BY <1>27, <2>2, <2>3 DEF Dispatch
<1>28. ASSUME NEW c \in Caller, Acknowledged(c)  PROVE QueueInv'
  <2>1. UNCHANGED <<server, worker>>  BY <1>28 DEF Acknowledged
  <2>2. CASE session' = session  BY <1>1, <2>1, <2>2 DEF QueueInv, Queue
  <2>3. CASE session' # session
    <3>1. PICK e \in Execution, t \in Turn : /\ session' = [session EXCEPT ![e][t].ack = TRUE]
                                             /\ server[e][t] = "interrupted"
      BY <1>28, <2>3 DEF Acknowledged, TurnInv, CallingInv, Calling
    <3>2. /\ OnlySession(e, t) /\ session'[e][t].done = session[e][t].done
      BY <1>1, <3>1, Noting
    <3>3. Queue(e, t)'  BY <1>1, <2>1, <3>1, <3>2 DEF Queue
    <3>. QED  BY <2>1, <3>2, <3>3, QueueAt, <1>1
  <2>. QED  BY <2>2, <2>3
<1>29. ASSUME NEW c \in Caller, CancelApprovals(c)  PROVE QueueInv'
  <2>1. UNCHANGED <<server, session>>  BY <1>29 DEF CancelApprovals, CancelEnds
  <2>2. CASE c = Client
    <3>1. worker' = worker  BY <1>29, <2>2 DEF CancelApprovals, CancelEnds
    <3>. QED  BY <1>1, <2>1, <3>1 DEF QueueInv, Queue
  <2>3. CASE c # Client
    <3>1. c[1] \in Execution /\ c[2] \in Turn  BY <2>3 DEF Caller, Worker
    <3>2. GoTo(c[1], c[2], "closes")  BY <1>29, <2>3 DEF CancelApprovals, CancelEnds
    <3>. QED  BY <1>1, <2>1, <3>1, <3>2, QueueWorker DEF Asked
  <2>. QED  BY <2>2, <2>3
<1>30. ASSUME Crash  PROVE QueueInv'
  <2>1. Stop  BY <1>30 DEF Crash
  <2>2. ASSUME NEW f \in Execution, NEW u \in Turn  PROVE Queue(f, u)'
    <3>1. session'[f][u] = NoSession /\ worker'[f][u] = "none"
      BY <1>1, <2>1, Stopping DEF Stop
    <3>. QED  BY <3>1 DEF Queue, NoSession, Asked
  <2>. QED  BY <2>2 DEF QueueInv
<1>31. ASSUME CloseSupervisor  PROVE QueueInv'
  <2>1. worker' = worker  BY <1>31 DEF CloseSupervisor
  <2>2. ASSUME NEW f \in Execution, NEW u \in Turn  PROVE Queue(f, u)'
    <3>1. /\ server'[f][u] = server[f][u] \/ (server[f][u] \in Live /\ server'[f][u] = "lost")
          /\ session'[f][u].inbox = session[f][u].inbox
          /\ session'[f][u].ack = session[f][u].ack
          /\ session'[f][u].done = session[f][u].done
      BY <1>31, <1>1, ClosingDown, DiesType
    <3>. QED  BY <1>1, <2>1, <3>1 DEF Queue, Live
  <2>. QED  BY <2>2 DEF QueueInv
<1>32. ASSUME Exit  PROVE QueueInv'
  <2>1. Stop  BY <1>32 DEF Exit
  <2>2. ASSUME NEW f \in Execution, NEW u \in Turn  PROVE Queue(f, u)'
    <3>1. session'[f][u] = NoSession /\ worker'[f][u] = "none"
      BY <1>1, <2>1, Stopping DEF Stop
    <3>. QED  BY <3>1 DEF Queue, NoSession, Asked
  <2>. QED  BY <2>2 DEF QueueInv
<1>33. ASSUME NEW e \in Execution, Reattach(e)  PROVE QueueInv'
  <2>1. PICK t \in Turn : t = turn[e]
    BY <1>33, <1>1 DEF Reattach, TurnInv, LifeInv, Life, Shape, ProductTypes
  <2>. DEFINE q == CASE server[e][t] \in Ended -> <<"end">>
                     [] server[e][t] = "asking" -> <<"ask">>
                     [] OTHER -> <<>>
  <2>2. /\ UNCHANGED server /\ GoTo(e, t, "starts")
        /\ session' = [session EXCEPT ![e][t] =
                          [open |-> TRUE, ack |-> FALSE, done |-> FALSE, inbox |-> q]]
    BY <1>33, <2>1 DEF Reattach
  <2>3. /\ server[e][t] = "running" => q = <<>>
        /\ server[e][t] = "asking" => q = <<"ask">>
    BY DEF Ended
  <2>. HIDE DEF q
  <2>4. OnlyWorker(e, t) /\ worker'[e][t] = "starts"  BY <1>1, <2>2, Going
  <2>5. /\ OnlySession(e, t)
        /\ session'[e][t] = [open |-> TRUE, ack |-> FALSE, done |-> FALSE, inbox |-> q]
    BY <2>2, <1>1 DEF OnlySession, AdapterTypes, Moves, Shape
  <2>6. Queue(e, t)'  BY <2>2, <2>3, <2>4, <2>5 DEF Queue, Asked
  <2>. QED  BY <1>1, <2>2, <2>4, <2>5, <2>6, QueueAt
<1>34. ASSUME UNCHANGED vars  PROVE UNCHANGED <<server, session, worker>>
  BY <1>34 DEF vars
<1>35. CASE UNCHANGED <<server, session, worker>>
  BY <1>35, <1>1 DEF QueueInv, Queue
<1>. QED
  BY <1>2, <1>3, <1>4, <1>5, <1>6, <1>7, <1>8, <1>9, <1>10, <1>11, <1>12, <1>13, <1>14,
     <1>15, <1>16, <1>17, <1>18, <1>19, <1>20, <1>21, <1>22, <1>23, <1>24, <1>25, <1>26,
     <1>27, <1>28, <1>29, <1>30, <1>31, <1>32, <1>33, <1>34, <1>35
     DEF TurnNext, NodeSteps, AskSteps, TurnSteps, WorkerSteps, CancelSteps, ServerSteps,
         StopSteps, StartSteps

\* The types, as the lemmas below need them.
LEMMA ShapeTypes ==
  ASSUME Shape
  PROVE  /\ exec \in [Execution -> {"submitted", "running", "waiting", "completed",
                                    "failed", "cancelled"}]
         /\ turn \in [Execution -> 0..MaxTurns] /\ spent \in [Execution -> 0..MaxTurns]
         /\ refused \subseteq Execution /\ unconfirmed \subseteq Execution
         /\ task \in {"waiting", "failed", "cancelled"}
         /\ active \in [Execution -> 0..MaxTurns]
         /\ worker \in [Execution -> [0..MaxTurns -> Places]]
         /\ threads \in [Execution -> {None} \cup 0..MaxTurns]
         /\ submitting \in Execution \cup {None}
         /\ returned \in {None} \cup ({"waiting", "completed"} \X Turn)
         /\ returned # None => submitting # None /\ returned[2] \in Turn
         /\ orphans \subseteq Execution
         /\ ~up => submitting = None
         /\ closing # "no" => up
BY DEF Shape, ProductTypes, AdapterTypes, NodeTypes, WorkerTypes, BackendTypes

\* No orphan has a worker that could go on.
LEMMA OrphansIdle ==
  ASSUME Shape, NEW e \in Execution, NEW t \in Turn, NEW p, GoTo(e, t, p),
         NEW f \in Execution, f \in orphans, \A u \in Turn : worker[f][u] = "none",
         worker[e][t] # "none"
  PROVE  f # e /\ \A u \in Turn : worker'[f][u] = "none"
BY Going, TurnNumbers DEF OnlyWorker

\* A worker goes on, and nothing else.
LEMMA LifeGoes ==
  ASSUME Shape, Moves, NEW e \in Execution, NEW t \in Turn, NEW p,
         NEW f \in Execution, Life(f), worker[e][t] # "none",
         GoTo(e, t, p) \/ worker' = worker,
         UNCHANGED <<exec, turn, task, active, refused, submitting, up, orphans>>
  PROVE  Life(f)'
<1>1. exec[f] = "completed" => server'[f][turn[f]] = "completed"
  BY ShapeTypes, BegunStays, TurnNumbers DEF Life, Moves, Ended
<1>2. f \in orphans => \A u \in Turn : worker'[f][u] = "none"
  BY OrphansIdle DEF Life
<1>. QED  BY <1>1, <1>2 DEF Life

LEMMA LifeStep == TurnInv /\ Moves /\ [TurnNext]_vars => LifeInv'
<1>. SUFFICES ASSUME TurnInv, Moves, [TurnNext]_vars, NEW f \in Execution  PROVE Life(f)'
  BY DEF LifeInv
<1>. USE TurnNumbers DEF product, adapter, node, watching, asking, backend, bounds, Unlocked
<1>1. Shape /\ \A e \in Execution : Life(e) /\ Owner(e) /\ Submission(e)
  BY DEF TurnInv, LifeInv, OwnerInv, SubmissionInv
<1>2. exec[f] = "completed" => server'[f][turn[f]] = "completed"
  BY <1>1, ShapeTypes, BegunStays DEF Life, Moves, Ended
<1>3. ASSUME NEW e \in Execution, NEW t \in Turn,
             ServerAsks(e, t) \/ ServerEnds(e, t) \/ ConnectionLost(e, t) \/ Decide(e, t)
      PROVE  UNCHANGED <<exec, turn, task, active, refused, submitting, up, orphans, worker>>
  BY <1>3 DEF ServerAsks, ServerEnds, ConnectionLost, Decide
<1>4. ASSUME NEW c \in Caller,
             Dispatch(c) \/ Acknowledged(c) \/ RecordDispatch(c)
      PROVE  UNCHANGED <<exec, turn, task, active, refused, submitting, up, orphans, worker>>
  BY <1>4 DEF Dispatch, Acknowledged, RecordDispatch
<1>5. ASSUME 
             CloseApprovals
      PROVE  UNCHANGED <<exec, turn, task, active, refused, submitting, up, orphans, worker>>
  BY <1>5 DEF CloseApprovals
<1>6. ASSUME NEW e \in Execution, Submit(e)  PROVE Life(f)'
  BY <1>6, <1>1, <1>2, ShapeTypes DEF Submit, Life
<1>7. ASSUME NEW e \in Execution, Execute(e)  PROVE Life(f)'
  BY <1>7, <1>1, <1>2, ShapeTypes DEF Execute, Life
<1>8. ASSUME NEW e \in Execution, ExecuteFails(e)  PROVE Life(f)'
  <2>1. /\ submitting = e /\ submitting' = None /\ active[e] = 0 /\ task' = "failed"
        /\ exec' = [exec EXCEPT ![e] = "failed"]
        /\ UNCHANGED <<turn, active, refused, up, orphans, worker>>
    BY <1>8 DEF ExecuteFails, FailExecution
  <2>2. exec[e] = "running" /\ task # "cancelled" /\ e \notin orphans
    BY <1>1, <2>1 DEF Life
  <2>3. exec'[e] = "failed" /\ (f # e => exec'[f] = exec[f])  BY <1>1, <2>1, ShapeTypes
  <2>4. f # None  BY TurnsAssumption DEF TurnsAssumption
  <2>. QED  BY <1>1, <1>2, <2>1, <2>2, <2>3, <2>4 DEF Life
<1>9. ASSUME NEW e \in Execution, Commit(e)  PROVE Life(f)'
  <2>1. /\ submitting = e /\ returned # None /\ submitting' = None
        /\ exec' = [exec EXCEPT ![e] = returned[1]] /\ turn' = [turn EXCEPT ![e] = returned[2]]
        /\ task' \in {"waiting", task} /\ UNCHANGED <<active, refused, up, orphans, worker>>
    BY <1>9 DEF Commit
  <2>2. f # None /\ e # None /\ task # "cancelled" /\ task' # "cancelled"
    BY <1>1, <2>1, TurnsAssumption DEF TurnsAssumption, Life
  <2>3. CASE f # e
    <3>1. exec'[f] = exec[f] /\ turn'[f] = turn[f]  BY <1>1, <2>1, <2>3, ShapeTypes
    <3>. QED  BY <1>1, <1>2, <2>1, <2>2, <2>3, <3>1 DEF Life
  <2>4. CASE f = e
    <3>1. /\ exec'[f] = returned[1] /\ turn'[f] = returned[2]
          /\ returned[1] \in {"waiting", "completed"} /\ returned[2] \in Turn
      BY <1>1, <2>1, <2>4, ShapeTypes
    <3>2. exec[f] = "running" /\ f \notin orphans /\ f \notin refused
      BY <1>1, <2>1, <2>4, ShapeTypes DEF Life
    <3>3. returned[1] = "completed" => server'[f][returned[2]] = "completed"
      BY <1>1, <2>1, <2>4, <3>1, BegunStays DEF Submission, Moves, Ended
    <3>. QED  BY <1>1, <2>1, <2>2, <2>4, <3>1, <3>2, <3>3 DEF Life
  <2>. QED  BY <2>3, <2>4
<1>10. ASSUME NEW e \in Execution, WatchWaiting(e)  PROVE Life(f)'
  BY <1>10, <1>1, <1>2, ShapeTypes DEF WatchWaiting, Watch, GoTo, Life
<1>11. ASSUME NEW e \in Execution, NEW t \in Turn, WorkerHearsEnd(e, t)  PROVE Life(f)'
  BY <1>11, <1>1, <1>2, ShapeTypes DEF WorkerHearsEnd, Hears, GoTo, WorkerFrame, Life
<1>12. ASSUME NEW e \in Execution, NEW t \in Turn, WorkerLoses(e, t)  PROVE Life(f)'
  BY <1>12, <1>1, <1>2, ShapeTypes DEF WorkerLoses, Loses, GoTo, WorkerFrame, Life
<1>13. ASSUME NEW e \in Execution, NEW t \in Turn, WorkerCancels(e, t)  PROVE Life(f)'
  <2>1. /\ worker[e][t] = "cancels" /\ UNCHANGED <<turn, active, refused, submitting, up, orphans>>
        /\ worker' = worker \/ GoTo(e, t, "closes")
    BY <1>13 DEF WorkerCancels
  <2>2. CASE UNCHANGED <<exec, task>>  BY <1>1, <2>1, <2>2, LifeGoes
  <2>3. CASE CancelExecutions({e}) /\ Unlocked
    <3>1. /\ exec'[f] = IF exec[f] = "completed" THEN "completed" ELSE "cancelled"
          /\ task' = "cancelled" /\ submitting = None
      BY <2>3 DEF CancelExecutions
    <3>2. f \in orphans => \A u \in Turn : worker'[f][u] = "none"
      BY <1>1, <2>1, OrphansIdle DEF Life
    <3>3. f # None  BY TurnsAssumption DEF TurnsAssumption
    <3>. QED  BY <1>1, <1>2, <2>1, <3>1, <3>2, <3>3 DEF Life
  <2>. QED  BY <1>13, <2>2, <2>3 DEF WorkerCancels
<1>14. ASSUME NEW e \in Execution, NEW t \in Turn, WorkerHearsAsk(e, t)  PROVE Life(f)'
  BY <1>14, <1>1, <1>2, ShapeTypes DEF WorkerHearsAsk, Hears, Heard, GoTo, WorkerFrame,
     Life
<1>15. ASSUME NEW e \in Execution, NEW t \in Turn, WorkerAsks(e, t)  PROVE Life(f)'
  <2>1. /\ UNCHANGED <<exec, turn, task, active, refused, submitting, up, orphans>>
        /\ worker[e][t] # "none" /\ \E p : GoTo(e, t, p)
    BY <1>15 DEF WorkerAsks, WorkerFrame
  <2>. QED  BY <1>1, <2>1, LifeGoes
<1>16. ASSUME NEW e \in Execution, NEW t \in Turn, WorkerReads(e, t)  PROVE Life(f)'
  <2>1. /\ UNCHANGED <<exec, turn, task, active, refused, submitting, up, orphans>>
        /\ worker[e][t] # "none" /\ \E p : GoTo(e, t, p)
    BY <1>16 DEF WorkerReads, WorkerFrame
  <2>. QED  BY <1>1, <2>1, LifeGoes
<1>17. ASSUME NEW e \in Execution, NEW t \in Turn, WorkerWakes(e, t)  PROVE Life(f)'
  BY <1>17, <1>1, <1>2, ShapeTypes DEF WorkerWakes, GoTo, WorkerFrame, Life
<1>18. ASSUME NEW e \in Execution, NEW t \in Turn, WorkerAnswers(e, t)  PROVE Life(f)'
  <2>1. /\ UNCHANGED <<exec, turn, task, active, refused, submitting, up, orphans>>
        /\ worker[e][t] # "none" /\ \E p : GoTo(e, t, p)
    BY <1>18 DEF WorkerAnswers, WorkerFrame, Loses
  <2>. QED  BY <1>1, <2>1, LifeGoes
<1>19. ASSUME NEW e \in Execution, NEW t \in Turn, WorkerStarts(e, t)  PROVE Life(f)'
  BY <1>19, <1>1, <1>2, ShapeTypes DEF WorkerStarts, GoTo, WorkerFrame, Life
<1>20. ASSUME NEW e \in Execution, NEW t \in Turn, WorkerCompletes(e, t)  PROVE Life(f)'
  <2>1. /\ worker[e][t] = "completes" /\ UNCHANGED <<task, turn, active, refused, submitting, up, orphans>>
        /\ submitting = None /\ \E p : GoTo(e, t, p)
    BY <1>20 DEF WorkerCompletes, WorkerFrame
  <2>2. CASE exec' = exec  BY <1>1, <2>1, <2>2, LifeGoes
  <2>3. CASE exec[e] = "waiting" /\ exec' = [exec EXCEPT ![e] = "completed"]
    <3>1. f \in orphans => f # e /\ \A u \in Turn : worker'[f][u] = "none"
      BY <1>1, <2>1, OrphansIdle DEF Life
    <3>2. turn[e] = t  BY <1>1, <2>1 DEF Owner, Reporting
    <3>3. server[e][t] = "completed"  BY <2>1 DEF TurnInv, QueueInv, Queue
    <3>4. server'[e][turn[e]] = "completed"  BY <3>2, <3>3, BegunStays DEF Moves, Ended
    <3>5. exec'[e] = "completed" /\ (f # e => exec'[f] = exec[f])
      BY <1>1, <2>3, ShapeTypes
    <3>. QED  BY <1>1, <1>2, <2>1, <2>3, <3>1, <3>4, <3>5 DEF Life
  <2>. QED  BY <1>20, <2>2, <2>3 DEF WorkerCompletes
<1>21. ASSUME NEW e \in Execution, NEW t \in Turn, WorkerResumes(e, t)  PROVE Life(f)'
  <2>1. /\ worker[e][t] = "resumes" /\ UNCHANGED <<exec, turn, active, submitting, up, orphans>>
        /\ GoTo(e, t, "closes")
        /\ \/ UNCHANGED <<task, refused>>
           \/ /\ Refusals /\ task = "waiting" /\ task' = "failed"
              /\ refused' = refused \cup {e}
    BY <1>21 DEF WorkerResumes, WorkerFrame
  <2>2. f \in orphans => f # e /\ \A u \in Turn : worker'[f][u] = "none"
    BY <1>1, <2>1, OrphansIdle DEF Life
  <2>3. exec[e] = "completed"  BY <1>1, <2>1 DEF Owner
  <2>. QED  BY <1>1, <1>2, <2>1, <2>2, <2>3 DEF Life
<1>22. ASSUME NEW e \in Execution, NEW t \in Turn, WorkerLost(e, t)  PROVE Life(f)'
  BY <1>22, <1>1, <1>2, ShapeTypes DEF WorkerLost, GoTo, WorkerFrame, Life
<1>23. ASSUME NEW e \in Execution, NEW t \in Turn, WorkerFails(e, t)  PROVE Life(f)'
  BY <1>23, <1>1, <1>2, ShapeTypes DEF WorkerFails, GoTo, CloseExecution, Hangs,
     WorkerFrame, Life
<1>24. ASSUME NEW e \in Execution, NEW t \in Turn, WorkerPersists(e, t)  PROVE Life(f)'
  <2>1. /\ worker[e][t] = "persists" /\ UNCHANGED <<turn, active, refused, submitting, up, orphans>>
        /\ GoTo(e, t, "closes") /\ submitting = None
    BY <1>24 DEF WorkerPersists, WorkerFrame
  <2>2. CASE UNCHANGED <<exec, task>>  BY <1>1, <2>1, <2>2, LifeGoes
  <2>3. CASE exec[e] = "waiting" /\ task # "cancelled" /\ FailExecution(e)
    <3>1. f \in orphans => f # e /\ \A u \in Turn : worker'[f][u] = "none"
      BY <1>1, <2>1, OrphansIdle DEF Life
    <3>2. active[e] = 0  BY <1>1, <2>1 DEF Owner
    <3>3. exec'[e] = "failed" /\ task' = "failed" /\ (f # e => exec'[f] = exec[f])
      BY <1>1, <2>3, ShapeTypes DEF FailExecution
    <3>. QED  BY <1>1, <1>2, <2>1, <2>3, <3>1, <3>2, <3>3 DEF Life
  <2>. QED  BY <1>24, <2>2, <2>3 DEF WorkerPersists, FailTurn
<1>25. ASSUME NEW e \in Execution, NEW t \in Turn, WorkerErrs(e, t)  PROVE Life(f)'
  BY <1>25, <1>1, <1>2, ShapeTypes DEF WorkerErrs, GoTo, WorkerFrame, Life
<1>26. ASSUME NEW e \in Execution, NEW t \in Turn, WorkerCloses(e, t)  PROVE Life(f)'
  BY <1>26, <1>1, <1>2, ShapeTypes DEF WorkerCloses, GoTo, CloseExecution, Hangs,
     WorkerFrame, Life
<1>27. ASSUME NEW c \in Caller, CancelApprovals(c)  PROVE Life(f)'
  <2>1. UNCHANGED <<exec, turn, task, active, refused, submitting, up, orphans>>
    BY <1>27 DEF CancelApprovals, CancelEnds
  <2>2. CASE c = Client
    <3>1. worker' = worker  BY <1>27, <2>2 DEF CancelApprovals, CancelEnds
    <3>. QED  BY <1>1, <1>2, <2>1, <3>1 DEF Life
  <2>3. CASE c # Client
    <3>1. PICK e \in Execution, t \in Turn : c = <<e, t>>  BY <2>3 DEF Caller, Worker
    <3>2. GoTo(e, t, "closes") /\ cancelling[c].at # "none"
      BY <1>27, <2>3, <3>1 DEF CancelApprovals, CancelEnds
    <3>3. worker[e][t] = "cancels"  BY <3>1, <3>2 DEF TurnInv, CallingInv
    <3>. QED  BY <1>1, <2>1, <3>2, <3>3, LifeGoes
  <2>. QED  BY <2>2, <2>3
<1>28. ASSUME Retry  PROVE Life(f)'
  BY <1>28, <1>1, <1>2, ShapeTypes DEF Retry, Life
<1>29. ASSUME Cancel  PROVE Life(f)'
  <2>1. /\ exec'[f] = IF exec[f] = "completed" THEN "completed" ELSE "cancelled"
        /\ task' = "cancelled" /\ submitting = None
        /\ UNCHANGED <<turn, active, refused, submitting, up, orphans, worker>>
    BY <1>29 DEF Cancel, CancelExecutions
  <2>2. f # None  BY TurnsAssumption DEF TurnsAssumption
  <2>. QED  BY <1>1, <1>2, <2>1, <2>2 DEF Life
<1>30. ASSUME Crash  PROVE Life(f)'
  <2>1. Stop /\ up  BY <1>30, <1>1, ShapeTypes DEF Crash
  <2>2. /\ active'[f] = 0 /\ submitting' = None /\ up' = FALSE
        /\ \A u \in Turn : worker'[f][u] = "none"
        /\ f \in orphans' => exec[f] = "waiting" /\ turn[f] # 0
        /\ UNCHANGED <<task, exec, turn, refused>>
    BY <2>1 DEF Stop
  <2>3. f # None  BY TurnsAssumption DEF TurnsAssumption
  <2>. QED  BY <1>1, <1>2, <2>1, <2>2, <2>3 DEF Life
<1>31. ASSUME CloseSupervisor  PROVE Life(f)'
  BY <1>31, <1>1, <1>2, ShapeTypes DEF CloseSupervisor, Life
<1>32. ASSUME Exit  PROVE Life(f)'
  <2>1. Stop /\ up  BY <1>32, <1>1, ShapeTypes DEF Exit
  <2>2. /\ active'[f] = 0 /\ submitting' = None /\ up' = FALSE
        /\ \A u \in Turn : worker'[f][u] = "none"
        /\ f \in orphans' => exec[f] = "waiting" /\ turn[f] # 0
        /\ UNCHANGED <<task, exec, turn, refused>>
    BY <2>1 DEF Stop
  <2>3. f # None  BY TurnsAssumption DEF TurnsAssumption
  <2>. QED  BY <1>1, <1>2, <2>1, <2>2, <2>3 DEF Life
<1>33. ASSUME Startup  PROVE Life(f)'
  BY <1>33, <1>1, <1>2, ShapeTypes DEF Startup, Withdraw, Resolve, Life
<1>34. ASSUME NEW e \in Execution, Reattach(e)  PROVE Life(f)'
  BY <1>34, <1>1, <1>2, ShapeTypes DEF Reattach, GoTo, Life
<1>35. ASSUME NEW e \in Execution, Orphaned(e)  PROVE Life(f)'
  BY <1>35, <1>1, <1>2, ShapeTypes DEF Orphaned, FailTurn, FailExecution, Life
<1>36. ASSUME UNCHANGED vars  PROVE UNCHANGED <<exec, turn, task, active, refused, submitting, up, orphans, worker>>
  BY <1>36 DEF vars
<1>37. CASE UNCHANGED <<exec, turn, task, active, refused, submitting, up, orphans, worker>>
  BY <1>37, <1>1, <1>2 DEF Life
<1>. QED
  BY <1>3, <1>4, <1>5, <1>6, <1>7, <1>8, <1>9, <1>10, <1>11, <1>12, <1>13, <1>14, <1>15,
     <1>16, <1>17, <1>18, <1>19, <1>20, <1>21, <1>22, <1>23, <1>24, <1>25, <1>26, <1>27,
     <1>28, <1>29, <1>30, <1>31, <1>32, <1>33, <1>34, <1>35, <1>36, <1>37
     DEF TurnNext, NodeSteps, AskSteps, TurnSteps, WorkerSteps, CancelSteps, ServerSteps,
         StopSteps, StartSteps

\* A message that is queued changes nothing else.
LEMMA SaysOnly ==
  ASSUME Shape, NEW e \in Execution, NEW t \in Turn, NEW m, Says(e, t, m),
         NEW f \in Execution, NEW u \in Turn
  PROVE  session'[f][u].done = session[f][u].done /\ session'[f][u].open = session[f][u].open
<1>1. session[e][t] \in Sessions  BY DEF Shape, AdapterTypes
<1>2. CASE session' = session  BY <1>2
<1>3. CASE session' = [session EXCEPT ![e][t].inbox = Append(@, m)]
  <2>1. CASE f = e /\ u = t  BY <1>1, <1>3, <2>1 DEF Shape, AdapterTypes, Sessions
  <2>2. CASE ~(f = e /\ u = t)  BY <1>3, <2>2 DEF Shape, AdapterTypes
  <2>. QED  BY <2>1, <2>2
<1>. QED  BY <1>2, <1>3 DEF Says

\* A worker that goes on is no news of one that never started.
LEMMA NoneStays ==
  ASSUME Shape, NEW e \in Execution, NEW t \in Turn, NEW p, GoTo(e, t, p),
         worker[e][t] # "none", NEW f \in Execution, NEW u \in Turn, worker[f][u] = "none"
  PROVE  worker'[f][u] = "none"
BY Going, TurnNumbers DEF OnlyWorker

\* What is set between the commits of a node.
LEMMA SubmissionKept ==
  ASSUME Shape, Moves, NEW f \in Execution, Submission(f), Life(f),
         UNCHANGED <<exec, active, submitting, returned, closing, refused>>,
         \A u \in Turn : u = active[f] /\ (exec[f] \in {"submitted", "running"} \/ f \in refused)
           => session'[f][u].done = session[f][u].done,
         submitting = f => \A u \in Turn : worker[f][u] = "none" => worker'[f][u] = "none"
  PROVE  Submission(f)'
<1>1. submitting = f /\ returned # None /\ server[f][returned[2]] = "completed"
        => server'[f][returned[2]] = "completed"
  BY ShapeTypes, BegunStays DEF Moves, Ended
<1>. QED  BY <1>1, ShapeTypes, TurnNumbers DEF Submission, Life

LEMMA SubmissionCloses ==
  ASSUME TurnInv, Moves, NEW f \in Execution, NEW e \in Execution, NEW t \in Turn, NEW p,
         worker[e][t] \in {"fails", "closes"}, GoTo(e, t, p), CloseExecution(e, t),
         UNCHANGED <<exec, submitting, returned, closing, refused>>
  PROVE  Submission(f)'
<1>1. Shape /\ Submission(f) /\ Life(f) /\ AdapterTypes
  BY DEF TurnInv, SubmissionInv, LifeInv, Shape
<1>2. submitting = f => \A u \in Turn : worker[f][u] = "none" => worker'[f][u] = "none"
  BY <1>1, NoneStays
<1>3. CASE UNCHANGED <<server, session, active>>  BY <1>1, <1>2, <1>3, SubmissionKept
<1>4. CASE active[e] = t /\ Hangs(e, t) /\ active' = [active EXCEPT ![e] = 0]
  <2>1. CASE f # e
    <3>1. active'[f] = active[f] /\ worker'[f] = worker[f]
      BY <1>1, <1>4, <2>1, ShapeTypes, TurnNumbers DEF GoTo
    <3>2. session'[f] = session[f]  BY <1>1, <1>4, <2>1 DEF Hangs, AdapterTypes
    <3>3. submitting = f /\ returned # None /\ server[f][returned[2]] = "completed"
            => server'[f][returned[2]] = "completed"
      BY <1>1, ShapeTypes, BegunStays DEF Moves, Ended
    <3>. QED  BY <1>1, <3>1, <3>2, <3>3 DEF Submission
  <2>2. CASE f = e
    <3>1. active'[f] = 0  BY <1>1, <1>4, <2>2, ShapeTypes
    <3>2. submitting = f /\ returned # None
            => /\ returned[1] = "completed" /\ server[f][returned[2]] = "completed"
               /\ returned[2] \in Turn
      BY <1>1, <1>4, <2>2, ShapeTypes, TurnNumbers DEF Submission
    <3>3. submitting = f /\ returned # None => server'[f][returned[2]] = "completed"
      BY <1>1, <3>2, BegunStays DEF Moves, Ended
    <3>. QED  BY <1>1, <3>1, <3>2, <3>3 DEF Submission
  <2>. QED  BY <2>1, <2>2
<1>. QED  BY <1>3, <1>4, Closes

LEMMA SubmissionStep == TurnInv /\ Moves /\ [TurnNext]_vars => SubmissionInv'
<1>. SUFFICES ASSUME TurnInv, Moves, [TurnNext]_vars, NEW f \in Execution  PROVE Submission(f)'
  BY DEF SubmissionInv
<1>. USE TurnNumbers DEF product, adapter, node, watching, asking, backend, bounds, Unlocked
<1>1. Shape /\ \A e \in Execution : Life(e) /\ Owner(e) /\ Submission(e)
  BY DEF TurnInv, LifeInv, OwnerInv, SubmissionInv
<1>2. AdapterTypes /\ f # None  BY <1>1, TurnsAssumption DEF Shape, TurnsAssumption
<1>3. ASSUME NEW e \in Execution, NEW t \in Turn,
             Decide(e, t)
      PROVE  UNCHANGED <<exec, active, submitting, returned, session, worker, closing, refused>>
  BY <1>3 DEF Decide
<1>4. ASSUME NEW c \in Caller,
             RecordDispatch(c)
      PROVE  UNCHANGED <<exec, active, submitting, returned, session, worker, closing, refused>>
  BY <1>4 DEF RecordDispatch
<1>5. ASSUME 
             Startup
      PROVE  UNCHANGED <<exec, active, submitting, returned, session, worker, closing, refused>>
  BY <1>5 DEF Startup
<1>6. ASSUME NEW e \in Execution, Submit(e)  PROVE Submission(f)'
  BY <1>6, <1>1, <1>2, ShapeTypes DEF Submit, Submission
<1>7. ASSUME NEW e \in Execution, Execute(e)  PROVE Submission(f)'
  <2>1. submitting = e /\ returned = None /\ UNCHANGED <<exec, submitting, closing, refused, worker>>
    BY <1>7 DEF Execute
  <2>2. CASE active[e] # 0
    <3>1. /\ UNCHANGED <<server, session, active>>
          /\ returned' = <<IF session[e][active[e]].done THEN "completed" ELSE "waiting",
                           active[e]>>
      BY <1>7, <2>2 DEF Execute
    <3>2. exec[e] = "running" /\ active[e] \in Turn  BY <1>1, <2>1, <2>2, ShapeTypes DEF Life
    <3>3. session[e][active[e]].done  BY <1>1, <2>1, <2>2, <3>2 DEF Submission
    <3>4. server[e][active[e]] = "completed"  BY <3>2, <3>3 DEF TurnInv, QueueInv, Queue
    <3>. QED  BY <1>1, <1>2, <2>1, <3>1, <3>2, <3>3, <3>4 DEF Submission
  <2>3. CASE active[e] = 0
    <3>1. Started(e) < MaxTurns  BY <1>7, <2>3 DEF Execute
    <3>2. PICK t \in Turn : /\ ~Begun(e, t) /\ returned' = <<"waiting", t>>
                            /\ session' = [session EXCEPT ![e][t].open = TRUE]
                            /\ active' = [active EXCEPT ![e] = t]
      BY <1>7, <2>3, <3>1, NextTurnIsNew DEF Execute, TurnInv
    <3>3. worker[e][t] = "none"  BY <3>2 DEF TurnInv, BegunInv
    <3>4. CASE f = e
      <4>1. active'[f] = t /\ f \notin refused  BY <1>1, <2>1, <3>2, <3>4, ShapeTypes DEF Life
      <4>2. returned' # None  BY <3>2, TurnsAssumption DEF TurnsAssumption
      <4>. QED  BY <2>1, <3>2, <3>3, <3>4, <4>1, <4>2 DEF Submission
    <3>5. CASE f # e
      <4>1. active'[f] = active[f] /\ session'[f] = session[f]
        BY <1>1, <1>2, <3>2, <3>5, ShapeTypes DEF AdapterTypes
      <4>. QED  BY <1>1, <2>1, <3>5, <4>1 DEF Submission
    <3>. QED  BY <3>4, <3>5
  <2>. QED  BY <2>2, <2>3
<1>8. ASSUME NEW e \in Execution, ExecuteFails(e)  PROVE Submission(f)'
  BY <1>8, <1>1, <1>2, ShapeTypes DEF ExecuteFails, FailExecution, Submission
<1>9. ASSUME NEW e \in Execution, Commit(e)  PROVE Submission(f)'
  BY <1>9, <1>1, <1>2, ShapeTypes DEF Commit, Submission
<1>10. ASSUME NEW e \in Execution, WatchWaiting(e)  PROVE Submission(f)'
  <2>1. /\ UNCHANGED <<exec, active, submitting, returned, closing, refused, session>>
        /\ exec[e] = "waiting" /\ GoTo(e, active[e], "starts")
    BY <1>10 DEF WatchWaiting, Watch
  <2>2. submitting = f => f # e  BY <1>1, <2>1 DEF Life
  <2>3. f # e => worker'[f] = worker[f]  BY <1>1, <2>1, ShapeTypes DEF GoTo
  <2>. QED  BY <1>1, <2>1, <2>2, <2>3, SubmissionKept
<1>11. ASSUME NEW e \in Execution, NEW t \in Turn, ServerAsks(e, t)  PROVE Submission(f)'
  <2>1. UNCHANGED <<exec, active, submitting, returned, closing, refused, worker>>
    BY <1>11 DEF ServerAsks
  <2>2. Says(e, t, "ask")  BY <1>11 DEF ServerAsks
  <2>. QED  BY <1>1, <2>1, <2>2, SaysOnly, SubmissionKept
<1>12. ASSUME NEW e \in Execution, NEW t \in Turn, ServerEnds(e, t)  PROVE Submission(f)'
  <2>1. UNCHANGED <<exec, active, submitting, returned, closing, refused, worker>>
    BY <1>12 DEF ServerEnds
  <2>2. Says(e, t, "end")  BY <1>12 DEF ServerEnds
  <2>. QED  BY <1>1, <2>1, <2>2, SaysOnly, SubmissionKept
<1>13. ASSUME NEW e \in Execution, NEW t \in Turn, ConnectionLost(e, t)  PROVE Submission(f)'
  <2>1. UNCHANGED <<exec, active, submitting, returned, closing, refused, worker>> /\ Hangs(e, t)
    BY <1>13 DEF ConnectionLost
  <2>2. \A u \in Turn : session'[f][u].done = session[f][u].done
    BY <1>2, <2>1, Hanging DEF OnlySession
  <2>. QED  BY <1>1, <2>1, <2>2, SubmissionKept
<1>14. ASSUME NEW e \in Execution, NEW t \in Turn, WorkerHearsEnd(e, t)  PROVE Submission(f)'
  <2>1. /\ UNCHANGED <<exec, active, submitting, returned, closing, refused>>
        /\ worker[e][t] = "waits" /\ \E p : GoTo(e, t, p)
    BY <1>14 DEF WorkerHearsEnd, WorkerFrame
  <2>2. f = e => f \notin refused /\ exec[f] \notin {"submitted", "running"} /\ submitting # f
    BY <1>1, <2>1 DEF Owner, Life, Reporting
  <2>3. f # e => session'[f] = session[f]
    BY <1>14, <1>2 DEF WorkerHearsEnd, AdapterTypes
  <2>4. submitting = f => \A u \in Turn : worker[f][u] = "none" => worker'[f][u] = "none"
    BY <1>1, <2>1, NoneStays
  <2>. QED  BY <1>1, <2>1, <2>2, <2>3, <2>4, SubmissionKept
<1>15. ASSUME NEW e \in Execution, NEW t \in Turn, WorkerLoses(e, t)  PROVE Submission(f)'
  <2>1. /\ UNCHANGED <<exec, active, submitting, returned, closing, refused, session>>
        /\ worker[e][t] # "none" /\ \E p : GoTo(e, t, p)
    BY <1>15 DEF WorkerLoses, WorkerFrame, Loses
  <2>. QED  BY <1>1, <2>1, NoneStays, SubmissionKept
<1>16. ASSUME NEW e \in Execution, NEW t \in Turn, WorkerCancels(e, t)  PROVE Submission(f)'
  <2>1. UNCHANGED <<active, submitting, returned, closing, refused, session>>
    BY <1>16 DEF WorkerCancels
  <2>2. CASE UNCHANGED exec
    <3>1. worker[e][t] # "none" /\ (worker' = worker \/ GoTo(e, t, "closes"))
      BY <1>16 DEF WorkerCancels
    <3>. QED  BY <1>1, <2>1, <2>2, <3>1, NoneStays, SubmissionKept
  <2>3. CASE CancelExecutions({e}) /\ submitting = None
    BY <1>1, <1>2, <2>1, <2>3 DEF Submission, CancelExecutions
  <2>. QED  BY <1>16, <2>2, <2>3 DEF WorkerCancels
<1>17. ASSUME NEW e \in Execution, NEW t \in Turn, WorkerHearsAsk(e, t)  PROVE Submission(f)'
  <2>1. /\ UNCHANGED <<exec, active, submitting, returned, closing, refused>>
        /\ worker[e][t] = "waits" /\ \E p : GoTo(e, t, p)
        /\ session' = [session EXCEPT ![e][t].inbox = Tail(session[e][t].inbox)]
    BY <1>17 DEF WorkerHearsAsk, WorkerFrame, Heard
  <2>2. Tail(session[e][t].inbox) \in Queues  BY <1>2, <1>17, Hearing DEF WorkerHearsAsk
  <2>3. \A u \in Turn : session'[f][u].done = session[f][u].done
    BY <1>2, <2>1, <2>2, Queueing DEF OnlySession
  <2>4. submitting = f => \A u \in Turn : worker[f][u] = "none" => worker'[f][u] = "none"
    BY <1>1, <2>1, NoneStays
  <2>. QED  BY <1>1, <2>1, <2>3, <2>4, SubmissionKept
<1>18. ASSUME NEW e \in Execution, NEW t \in Turn, WorkerAsks(e, t)  PROVE Submission(f)'
  <2>1. /\ UNCHANGED <<exec, active, submitting, returned, closing, refused, session>>
        /\ worker[e][t] # "none" /\ \E p : GoTo(e, t, p)
    BY <1>18 DEF WorkerAsks, WorkerFrame
  <2>. QED  BY <1>1, <2>1, NoneStays, SubmissionKept
<1>19. ASSUME NEW e \in Execution, NEW t \in Turn, WorkerReads(e, t)  PROVE Submission(f)'
  <2>1. /\ UNCHANGED <<exec, active, submitting, returned, closing, refused, session>>
        /\ worker[e][t] # "none" /\ \E p : GoTo(e, t, p)
    BY <1>19 DEF WorkerReads, WorkerFrame
  <2>. QED  BY <1>1, <2>1, NoneStays, SubmissionKept
<1>20. ASSUME NEW e \in Execution, NEW t \in Turn, WorkerWakes(e, t)  PROVE Submission(f)'
  <2>1. /\ UNCHANGED <<exec, active, submitting, returned, closing, refused, session>>
        /\ worker[e][t] # "none" /\ \E p : GoTo(e, t, p)
    BY <1>20 DEF WorkerWakes, WorkerFrame
  <2>. QED  BY <1>1, <2>1, NoneStays, SubmissionKept
<1>21. ASSUME NEW e \in Execution, NEW t \in Turn, WorkerAnswers(e, t)  PROVE Submission(f)'
  <2>1. /\ UNCHANGED <<exec, active, submitting, returned, closing, refused>>
        /\ worker[e][t] # "none" /\ \E p : GoTo(e, t, p)
    BY <1>21 DEF WorkerAnswers, WorkerFrame, Loses
  <2>2. session' = session \/ Says(e, t, "end")  BY <1>21 DEF WorkerAnswers
  <2>3. \A u \in Turn : session'[f][u].done = session[f][u].done
    BY <1>1, <2>2, SaysOnly
  <2>4. submitting = f => \A u \in Turn : worker[f][u] = "none" => worker'[f][u] = "none"
    BY <1>1, <2>1, NoneStays
  <2>. QED  BY <1>1, <2>1, <2>3, <2>4, SubmissionKept
<1>22. ASSUME NEW e \in Execution, NEW t \in Turn, WorkerStarts(e, t)  PROVE Submission(f)'
  <2>1. /\ UNCHANGED <<exec, active, submitting, returned, closing, refused, session>>
        /\ worker[e][t] # "none" /\ \E p : GoTo(e, t, p)
    BY <1>22 DEF WorkerStarts, WorkerFrame
  <2>. QED  BY <1>1, <2>1, NoneStays, SubmissionKept
<1>23. ASSUME NEW e \in Execution, NEW t \in Turn, WorkerCompletes(e, t)  PROVE Submission(f)'
  <2>1. /\ UNCHANGED <<active, submitting, returned, closing, refused, session>>
        /\ submitting = None
    BY <1>23 DEF WorkerCompletes, WorkerFrame
  <2>2. exec'[f] = exec[f] \/ exec'[f] = "completed"
    BY <1>23, <1>1, ShapeTypes DEF WorkerCompletes
  <2>. QED  BY <1>1, <1>2, <2>1, <2>2 DEF Submission
<1>24. ASSUME NEW e \in Execution, NEW t \in Turn, WorkerResumes(e, t)  PROVE Submission(f)'
  <2>1. /\ UNCHANGED <<exec, active, submitting, returned, closing, session>>
        /\ worker[e][t] = "resumes" /\ GoTo(e, t, "closes")
        /\ refused' \in {refused, refused \cup {e}}
    BY <1>24 DEF WorkerResumes, WorkerFrame
  <2>2. session[e][t].done  BY <2>1 DEF TurnInv, QueueInv, Queue
  <2>3. turn[e] = t /\ active[e] \in {0, t} /\ exec[e] = "completed"
    BY <1>1, <2>1 DEF Owner, Reporting
  <2>4. CASE f = e
    <3>1. submitting # f  BY <1>1, <2>3, <2>4 DEF Life
    <3>. QED  BY <1>1, <2>1, <2>2, <2>3, <2>4, <3>1 DEF Submission
  <2>5. CASE f # e
    <3>1. worker'[f] = worker[f]  BY <1>1, <2>1, <2>5, ShapeTypes DEF GoTo
    <3>2. submitting = f /\ returned # None /\ server[f][returned[2]] = "completed"
            => server'[f][returned[2]] = "completed"
      BY <1>1, ShapeTypes, BegunStays DEF Moves, Ended
    <3>. QED  BY <1>1, <2>1, <2>5, <3>1, <3>2 DEF Submission
  <2>. QED  BY <2>4, <2>5
<1>25. ASSUME NEW e \in Execution, NEW t \in Turn, WorkerLost(e, t)  PROVE Submission(f)'
  <2>1. /\ UNCHANGED <<exec, active, submitting, returned, closing, refused, session>>
        /\ worker[e][t] # "none" /\ \E p : GoTo(e, t, p)
    BY <1>25 DEF WorkerLost, WorkerFrame
  <2>. QED  BY <1>1, <2>1, NoneStays, SubmissionKept
<1>26. ASSUME NEW e \in Execution, NEW t \in Turn, WorkerFails(e, t)  PROVE Submission(f)'
  <2>1. /\ UNCHANGED <<exec, submitting, returned, closing, refused>>
        /\ worker[e][t] = "fails" /\ GoTo(e, t, "persists") /\ CloseExecution(e, t)
    BY <1>26 DEF WorkerFails, WorkerFrame
  <2>2. submitting # e  BY <1>1, <2>1 DEF Owner, Reporting, Life
  <2>. QED  BY <1>1, <1>2, <2>1, <2>2, SubmissionCloses
<1>27. ASSUME NEW e \in Execution, NEW t \in Turn, WorkerPersists(e, t)  PROVE Submission(f)'
  <2>1. /\ UNCHANGED <<active, submitting, returned, closing, refused, session>>
        /\ submitting = None
    BY <1>27 DEF WorkerPersists, WorkerFrame
  <2>2. exec'[f] = exec[f] \/ exec'[f] = "failed"
    BY <1>27, <1>1, ShapeTypes DEF WorkerPersists, FailTurn, FailExecution
  <2>. QED  BY <1>1, <1>2, <2>1, <2>2 DEF Submission
<1>28. ASSUME NEW e \in Execution, NEW t \in Turn, WorkerErrs(e, t)  PROVE Submission(f)'
  <2>1. /\ UNCHANGED <<exec, active, submitting, returned, closing, refused, session>>
        /\ worker[e][t] # "none" /\ \E p : GoTo(e, t, p)
    BY <1>28 DEF WorkerErrs, WorkerFrame
  <2>. QED  BY <1>1, <2>1, NoneStays, SubmissionKept
<1>29. ASSUME NEW e \in Execution, NEW t \in Turn, WorkerCloses(e, t)  PROVE Submission(f)'
  <2>1. /\ UNCHANGED <<exec, submitting, returned, closing, refused>>
        /\ worker[e][t] = "closes" /\ GoTo(e, t, "ended") /\ CloseExecution(e, t)
    BY <1>29 DEF WorkerCloses, WorkerFrame
  <2>. QED  BY <1>1, <1>2, <2>1, SubmissionCloses
<1>30. ASSUME NEW c \in Caller, Dispatch(c)  PROVE Submission(f)'
  <2>1. UNCHANGED <<exec, active, submitting, returned, closing, refused, worker>>
    BY <1>30 DEF Dispatch
  <2>2. session' = session
          \/ \E e \in Execution, t \in Turn : Says(e, t, "end")
    <3>1. cancelling[c].targets \subseteq Execution  BY <1>1 DEF Shape, CallTypes, Calls
    <3>. QED  BY <1>30, <1>1, <3>1, ShapeTypes DEF Dispatch
  <2>3. \A u \in Turn : session'[f][u].done = session[f][u].done
    BY <1>1, <2>2, SaysOnly
  <2>. QED  BY <1>1, <2>1, <2>3, SubmissionKept
<1>31. ASSUME NEW c \in Caller, Acknowledged(c)  PROVE Submission(f)'
  <2>1. UNCHANGED <<exec, active, submitting, returned, closing, refused, worker>>
    BY <1>31 DEF Acknowledged
  <2>2. session' = session
          \/ \E e \in Execution, t \in Turn : session' = [session EXCEPT ![e][t].ack = TRUE]
    BY <1>31 DEF Acknowledged, TurnInv, CallingInv, Calling
  <2>3. \A u \in Turn : session'[f][u].done = session[f][u].done
    BY <1>2, <2>2, Noting DEF OnlySession
  <2>. QED  BY <1>1, <2>1, <2>3, SubmissionKept
<1>32. ASSUME NEW c \in Caller, CancelApprovals(c)  PROVE Submission(f)'
  <2>1. UNCHANGED <<exec, active, submitting, returned, closing, refused, session>>
    BY <1>32 DEF CancelApprovals, CancelEnds
  <2>2. CASE c = Client
    <3>1. worker' = worker  BY <1>32, <2>2 DEF CancelApprovals, CancelEnds
    <3>. QED  BY <1>1, <2>1, <3>1, SubmissionKept
  <2>3. CASE c # Client
    <3>1. PICK e \in Execution, t \in Turn : c = <<e, t>>  BY <2>3 DEF Caller, Worker
    <3>2. GoTo(e, t, "closes") /\ cancelling[c].at # "none"
      BY <1>32, <2>3, <3>1 DEF CancelApprovals, CancelEnds
    <3>3. worker[e][t] = "cancels"  BY <3>1, <3>2 DEF TurnInv, CallingInv
    <3>. QED  BY <1>1, <2>1, <3>2, <3>3, NoneStays, SubmissionKept
  <2>. QED  BY <2>2, <2>3
<1>33. ASSUME Retry  PROVE Submission(f)'
  <2>1. /\ UNCHANGED <<active, submitting, session>> /\ submitting = None /\ refused' = {}
        /\ exec'[f] = IF exec[f] = "failed" \/ f \in refused THEN "submitted" ELSE exec[f]
    BY <1>33 DEF Retry
  <2>. QED  BY <1>1, <1>2, <2>1 DEF Submission, Life
<1>34. ASSUME Cancel  PROVE Submission(f)'
  <2>1. /\ UNCHANGED <<active, submitting, returned, closing, refused, session>>
        /\ submitting = None /\ CancelExecutions({})
    BY <1>34 DEF Cancel
  <2>. QED  BY <1>1, <1>2, <2>1 DEF Submission, CancelExecutions
<1>35. ASSUME CloseApprovals  PROVE Submission(f)'
  BY <1>35, <1>1, <1>2, ShapeTypes DEF CloseApprovals, Withdraw, Resolve, Submission
<1>36. ASSUME Crash  PROVE Submission(f)'
  <2>1. active'[f] = 0 /\ submitting' = None  BY <1>36 DEF Crash, Stop
  <2>. QED  BY <1>2, <2>1 DEF Submission
<1>37. ASSUME CloseSupervisor  PROVE Submission(f)'
  <2>1. /\ UNCHANGED <<exec, submitting, returned, refused, worker>>
        /\ active'[f] = 0 /\ closing' = "supervisor"
    BY <1>37 DEF CloseSupervisor
  <2>2. submitting = f /\ returned # None /\ server[f][returned[2]] = "completed"
          => server'[f][returned[2]] = "completed"
    BY <1>1, ShapeTypes, BegunStays DEF Moves, Ended
  <2>. QED  BY <1>1, <2>1, <2>2 DEF Submission
<1>38. ASSUME Exit  PROVE Submission(f)'
  <2>1. active'[f] = 0 /\ submitting' = None  BY <1>38 DEF Exit, Stop
  <2>. QED  BY <1>2, <2>1 DEF Submission
<1>39. ASSUME NEW e \in Execution, Reattach(e)  PROVE Submission(f)'
  <2>1. /\ e \in orphans /\ submitting = None /\ UNCHANGED <<exec, submitting, refused>>
        /\ active' = [active EXCEPT ![e] = turn[e]]
        /\ f # e => session'[f] = session[f]
    BY <1>39, <1>1, <1>2, ShapeTypes DEF Reattach, AdapterTypes
  <2>2. f = e => f \notin refused /\ exec[f] \notin {"submitted", "running"}
    BY <1>1, <2>1 DEF Life
  <2>3. f # e => active'[f] = active[f]  BY <1>1, <2>1, ShapeTypes
  <2>. QED  BY <1>1, <1>2, <2>1, <2>2, <2>3 DEF Submission
<1>40. ASSUME NEW e \in Execution, Orphaned(e)  PROVE Submission(f)'
  <2>1. /\ UNCHANGED <<active, submitting, returned, refused, session>>
        /\ submitting = None
    BY <1>40 DEF Orphaned
  <2>2. exec'[f] = exec[f] \/ exec'[f] = "failed"
    BY <1>40, <1>1, ShapeTypes DEF Orphaned, FailTurn, FailExecution
  <2>. QED  BY <1>1, <1>2, <2>1, <2>2 DEF Submission
<1>41. ASSUME UNCHANGED vars  PROVE UNCHANGED <<exec, active, submitting, returned, session, worker, closing, refused>>
  BY <1>41 DEF vars
<1>42. CASE UNCHANGED <<exec, active, submitting, returned, session, worker, closing, refused>>
  BY <1>42, <1>1, SubmissionKept
<1>. QED
  BY <1>3, <1>4, <1>5, <1>6, <1>7, <1>8, <1>9, <1>10, <1>11, <1>12, <1>13, <1>14, <1>15,
     <1>16, <1>17, <1>18, <1>19, <1>20, <1>21, <1>22, <1>23, <1>24, <1>25, <1>26, <1>27,
     <1>28, <1>29, <1>30, <1>31, <1>32, <1>33, <1>34, <1>35, <1>36, <1>37, <1>38, <1>39,
     <1>40, <1>41, <1>42
     DEF TurnNext, NodeSteps, AskSteps, TurnSteps, WorkerSteps, CancelSteps, ServerSteps,
         StopSteps, StartSteps

\* A worker goes on, and nothing else of its execution.
LEMMA OwnerGoes ==
  ASSUME Shape, NEW e \in Execution, NEW t \in Turn, NEW p, NEW f \in Execution, Owner(f),
         GoTo(e, t, p), p \in Reporting => worker[e][t] \in Reporting,
         worker[e][t] # "none", p = "persists" => active[e] = 0,
         p = "resumes" => exec[e] = "completed",
         UNCHANGED <<turn, active, threads, exec, refused>>
  PROVE  Owner(f)'
<1>1. CASE f # e
  <2>1. worker'[f] = worker[f]  BY <1>1, ShapeTypes, TurnNumbers DEF GoTo
  <2>. QED  BY <2>1 DEF Owner
<1>2. CASE f = e
  <2>1. /\ worker'[f][t] = p /\ \A u \in 0..MaxTurns : u # t => worker'[f][u] = worker[f][u]
        /\ t \in 0..MaxTurns /\ t # 0 /\ active[f] \in 0..MaxTurns
    BY <1>2, Going, ShapeTypes, TurnNumbers DEF OnlyWorker
  <2>2. \A u \in Turn : u \in 0..MaxTurns  BY TurnNumbers
  <2>. QED  BY <1>2, <2>1, <2>2, TurnNumbers DEF Owner
<1>. QED  BY <1>1, <1>2

\* The worker that has reported was the only one of its execution that had to.
LEMMA OwnerReports ==
  ASSUME Shape, NEW e \in Execution, NEW t \in Turn, Owner(e), worker[e][t] \in Reporting,
         GoTo(e, t, "closes"), UNCHANGED <<turn, active, threads>>
  PROVE  Owner(e)'
<1>1. OnlyWorker(e, t) /\ worker'[e][t] = "closes"  BY Going, TurnNumbers
<1>2. \A u \in 0..MaxTurns : u # t => worker'[e][u] = worker[e][u]  BY <1>1 DEF OnlyWorker
<1>3. \A u \in Turn : u \in 0..MaxTurns /\ u # 0  BY TurnNumbers
<1>4. \A u \in Turn : u # t => worker[e][u] \notin Reporting  BY DEF Owner
<1>5. active[e] \in 0..MaxTurns  BY ShapeTypes
<1>. QED  BY <1>1, <1>2, <1>3, <1>4, <1>5, TurnNumbers DEF Owner, Reporting

LEMMA OwnerStep == TurnInv /\ Moves /\ [TurnNext]_vars => OwnerInv'
<1>. SUFFICES ASSUME TurnInv, Moves, [TurnNext]_vars, NEW f \in Execution  PROVE Owner(f)'
  BY DEF OwnerInv
<1>. USE TurnNumbers DEF product, adapter, node, watching, asking, backend, bounds, Unlocked
<1>1. Shape /\ \A e \in Execution : Life(e) /\ Owner(e) /\ Submission(e)
  BY DEF TurnInv, LifeInv, OwnerInv, SubmissionInv
<1>2. f # None  BY TurnsAssumption DEF TurnsAssumption
<1>3. ASSUME NEW e \in Execution, NEW t \in Turn,
             ServerAsks(e, t) \/ ServerEnds(e, t) \/ ConnectionLost(e, t) \/ Decide(e, t)
      PROVE  UNCHANGED <<turn, active, worker, threads, exec, refused>>
  BY <1>3 DEF ServerAsks, ServerEnds, ConnectionLost, Decide
<1>4. ASSUME NEW c \in Caller,
             Dispatch(c) \/ Acknowledged(c) \/ RecordDispatch(c)
      PROVE  UNCHANGED <<turn, active, worker, threads, exec, refused>>
  BY <1>4 DEF Dispatch, Acknowledged, RecordDispatch
<1>5. ASSUME 
             CloseApprovals \/ Startup
      PROVE  UNCHANGED <<turn, active, worker, threads, exec, refused>>
  BY <1>5 DEF CloseApprovals, Startup
<1>6. ASSUME NEW e \in Execution, Submit(e)  PROVE Owner(f)'
  <2>1. /\ UNCHANGED <<turn, active, worker, threads, refused>>
        /\ exec[e] \in {"submitted", "running"} /\ exec' = [exec EXCEPT ![e] = "running"]
    BY <1>6 DEF Submit
  <2>2. turn[e] = 0  BY <1>1, <2>1 DEF Life
  <2>3. exec'[f] = IF f = e THEN "running" ELSE exec[f]  BY <1>1, <2>1, ShapeTypes
  <2>. QED  BY <1>1, <2>1, <2>2, <2>3 DEF Owner, Reporting
<1>7. ASSUME NEW e \in Execution, Execute(e)  PROVE Owner(f)'
  <2>1. submitting = e /\ UNCHANGED <<turn, worker, threads, exec, refused>>
    BY <1>7 DEF Execute
  <2>2. CASE active' = active  BY <1>1, <2>1, <2>2 DEF Owner
  <2>3. CASE active' # active
    <3>1. Started(e) < MaxTurns  BY <1>7, <2>3 DEF Execute
    <3>2. PICK t \in Turn : ~Begun(e, t) /\ active' = [active EXCEPT ![e] = t]
      BY <1>7, <2>3, <3>1, NextTurnIsNew DEF Execute, TurnInv
    <3>3. worker[e][t] = "none" /\ turn[e] = 0  BY <1>1, <2>1, <3>2 DEF TurnInv, BegunInv, Life
    <3>4. active'[f] = IF f = e THEN t ELSE active[f]  BY <1>1, <3>2, ShapeTypes
    <3>. QED  BY <1>1, <2>1, <3>3, <3>4 DEF Owner, Reporting
  <2>. QED  BY <2>2, <2>3
<1>8. ASSUME NEW e \in Execution, ExecuteFails(e)  PROVE Owner(f)'
  <2>1. /\ submitting = e /\ UNCHANGED <<turn, active, worker, threads, refused>>
        /\ exec' = [exec EXCEPT ![e] = "failed"]
    BY <1>8 DEF ExecuteFails, FailExecution
  <2>2. turn[e] = 0  BY <1>1, <2>1 DEF Life
  <2>3. exec'[f] = IF f = e THEN "failed" ELSE exec[f]  BY <1>1, <2>1, ShapeTypes
  <2>. QED  BY <1>1, <2>1, <2>2, <2>3 DEF Owner, Reporting
<1>9. ASSUME NEW e \in Execution, Commit(e)  PROVE Owner(f)'
  <2>1. /\ submitting = e /\ returned # None /\ UNCHANGED <<active, worker, threads, refused>>
        /\ exec' = [exec EXCEPT ![e] = returned[1]] /\ turn' = [turn EXCEPT ![e] = returned[2]]
    BY <1>9 DEF Commit
  <2>2. turn[e] = 0 /\ active[e] \in {0, returned[2]}  BY <1>1, <2>1 DEF Life, Submission
  <2>3. /\ f # e => exec'[f] = exec[f] /\ turn'[f] = turn[f]
        /\ f = e => turn'[f] = returned[2]
    BY <1>1, <2>1, ShapeTypes
  <2>. QED  BY <1>1, <2>1, <2>2, <2>3 DEF Owner, Reporting
<1>10. ASSUME NEW e \in Execution, WatchWaiting(e)  PROVE Owner(f)'
  <2>1. /\ UNCHANGED <<turn, active, exec, refused>> /\ exec[e] = "waiting" /\ turn[e] # 0
        /\ threads[e] = None \/ (active[e] # 0 /\ threads[e] # active[e])
        /\ threads' = [threads EXCEPT ![e] = active[e]] /\ GoTo(e, active[e], "starts")
        /\ up /\ closing # "supervisor"
    BY <1>10 DEF WatchWaiting, Watch
  <2>2. e \notin orphans /\ e \notin refused  BY <1>1, <2>1 DEF Life
  <2>3. active[e] = turn[e] /\ active[e] \in Turn
    <3>1. turn[e] \in Turn  BY <1>1, <2>1, ShapeTypes
    <3>2. threads[e] = None => worker[e][turn[e]] = "none"  BY <1>1, <3>1 DEF Owner
    <3>3. threads[e] = None => active[e] = turn[e]
      BY <2>1, <2>2, <3>2 DEF TurnInv, AttendedInv, Attended
    <3>4. active[e] \in {0, turn[e]}  BY <1>1, <2>1 DEF Owner
    <3>. QED  BY <2>1, <3>1, <3>3, <3>4
  <2>4. PICK t \in Turn : t = active[e]  BY <2>3
  <2>5. CASE f # e
    <3>1. worker'[f] = worker[f] /\ threads'[f] = threads[f]
      BY <1>1, <2>1, <2>5, ShapeTypes DEF GoTo
    <3>. QED  BY <1>1, <2>1, <3>1 DEF Owner
  <2>6. CASE f = e
    <3>1. OnlyWorker(e, t) /\ worker'[e][t] = "starts"  BY <1>1, <2>1, <2>4, Going
    <3>2. threads'[f] = t  BY <1>1, <2>1, <2>4, <2>6, ShapeTypes
    <3>3. t # None
      BY <2>4, TurnsAssumption DEF TurnsAssumption
    <3>4. \A u \in 0..MaxTurns : u # t => worker'[f][u] = worker[f][u]
      BY <2>6, <3>1 DEF OnlyWorker
    <3>5. \A u \in Turn : u \in 0..MaxTurns /\ u # 0  BY TurnNumbers
    <3>. QED  BY <1>1, <2>1, <2>2, <2>3, <2>4, <2>6, <3>1, <3>2, <3>3, <3>4, <3>5
             DEF Owner, Reporting
  <2>. QED  BY <2>5, <2>6
<1>11. ASSUME NEW e \in Execution, NEW t \in Turn, WorkerHearsEnd(e, t)  PROVE Owner(f)'
  <2>1. UNCHANGED <<turn, active, threads, exec, refused>>  BY <1>11 DEF WorkerHearsEnd, WorkerFrame
  <2>2. /\ worker[e][t] # "none"
        /\ \E p : /\ GoTo(e, t, p) /\ p \notin {"persists", "resumes"}
                  /\ p \in Reporting => worker[e][t] \in Reporting
    BY <1>11 DEF WorkerHearsEnd, Reporting
  <2>. QED  BY <1>1, <2>1, <2>2, OwnerGoes
<1>12. ASSUME NEW e \in Execution, NEW t \in Turn, WorkerLoses(e, t)  PROVE Owner(f)'
  <2>1. UNCHANGED <<turn, active, threads, exec, refused>>  BY <1>12 DEF WorkerLoses, WorkerFrame
  <2>2. /\ worker[e][t] # "none"
        /\ \E p : /\ GoTo(e, t, p) /\ p \notin {"persists", "resumes"}
                  /\ p \in Reporting => worker[e][t] \in Reporting
    BY <1>12 DEF WorkerLoses, Reporting, Loses
  <2>. QED  BY <1>1, <2>1, <2>2, OwnerGoes
<1>13. ASSUME NEW e \in Execution, NEW t \in Turn, WorkerCancels(e, t)  PROVE Owner(f)'
  <2>1. /\ worker[e][t] = "cancels" /\ UNCHANGED <<turn, active, threads, refused>>
        /\ \/ exec' = exec /\ (worker' = worker \/ GoTo(e, t, "closes"))
           \/ CancelExecutions({e}) /\ worker' = worker
    BY <1>13 DEF WorkerCancels
  <2>2. CASE exec' = exec /\ worker' = worker  BY <1>1, <2>1, <2>2 DEF Owner
  <2>3. CASE exec' = exec /\ GoTo(e, t, "closes")
    BY <1>1, <2>1, <2>3, OwnerGoes DEF Reporting
  <2>4. CASE CancelExecutions({e}) /\ worker' = worker
    BY <1>1, <2>1, <2>4 DEF Owner, CancelExecutions
  <2>. QED  BY <2>1, <2>2, <2>3, <2>4
<1>14. ASSUME NEW e \in Execution, NEW t \in Turn, WorkerHearsAsk(e, t)  PROVE Owner(f)'
  <2>1. UNCHANGED <<turn, active, threads, exec, refused>>  BY <1>14 DEF WorkerHearsAsk, WorkerFrame
  <2>2. /\ worker[e][t] # "none"
        /\ \E p : /\ GoTo(e, t, p) /\ p \notin {"persists", "resumes"}
                  /\ p \in Reporting => worker[e][t] \in Reporting
    BY <1>14 DEF WorkerHearsAsk, Reporting
  <2>. QED  BY <1>1, <2>1, <2>2, OwnerGoes
<1>15. ASSUME NEW e \in Execution, NEW t \in Turn, WorkerAsks(e, t)  PROVE Owner(f)'
  <2>1. UNCHANGED <<turn, active, threads, exec, refused>>  BY <1>15 DEF WorkerAsks, WorkerFrame
  <2>2. /\ worker[e][t] # "none"
        /\ \E p : /\ GoTo(e, t, p) /\ p \notin {"persists", "resumes"}
                  /\ p \in Reporting => worker[e][t] \in Reporting
    BY <1>15 DEF WorkerAsks, Reporting
  <2>. QED  BY <1>1, <2>1, <2>2, OwnerGoes
<1>16. ASSUME NEW e \in Execution, NEW t \in Turn, WorkerReads(e, t)  PROVE Owner(f)'
  <2>1. UNCHANGED <<turn, active, threads, exec, refused>>  BY <1>16 DEF WorkerReads, WorkerFrame
  <2>2. /\ worker[e][t] # "none"
        /\ \E p : /\ GoTo(e, t, p) /\ p \notin {"persists", "resumes"}
                  /\ p \in Reporting => worker[e][t] \in Reporting
    BY <1>16 DEF WorkerReads, Reporting
  <2>. QED  BY <1>1, <2>1, <2>2, OwnerGoes
<1>17. ASSUME NEW e \in Execution, NEW t \in Turn, WorkerWakes(e, t)  PROVE Owner(f)'
  <2>1. UNCHANGED <<turn, active, threads, exec, refused>>  BY <1>17 DEF WorkerWakes, WorkerFrame
  <2>2. /\ worker[e][t] # "none"
        /\ \E p : /\ GoTo(e, t, p) /\ p \notin {"persists", "resumes"}
                  /\ p \in Reporting => worker[e][t] \in Reporting
    BY <1>17 DEF WorkerWakes, Reporting
  <2>. QED  BY <1>1, <2>1, <2>2, OwnerGoes
<1>18. ASSUME NEW e \in Execution, NEW t \in Turn, WorkerAnswers(e, t)  PROVE Owner(f)'
  <2>1. UNCHANGED <<turn, active, threads, exec, refused>>  BY <1>18 DEF WorkerAnswers, WorkerFrame
  <2>2. /\ worker[e][t] # "none"
        /\ \E p : /\ GoTo(e, t, p) /\ p \notin {"persists", "resumes"}
                  /\ p \in Reporting => worker[e][t] \in Reporting
    BY <1>18 DEF WorkerAnswers, Reporting, Loses
  <2>. QED  BY <1>1, <2>1, <2>2, OwnerGoes
<1>19. ASSUME NEW e \in Execution, NEW t \in Turn, WorkerStarts(e, t)  PROVE Owner(f)'
  <2>1. UNCHANGED <<turn, active, threads, exec, refused>>  BY <1>19 DEF WorkerStarts, WorkerFrame
  <2>2. /\ worker[e][t] # "none"
        /\ \E p : /\ GoTo(e, t, p) /\ p \notin {"persists", "resumes"}
                  /\ p \in Reporting => worker[e][t] \in Reporting
    BY <1>19 DEF WorkerStarts, Reporting
  <2>. QED  BY <1>1, <2>1, <2>2, OwnerGoes
<1>20. ASSUME NEW e \in Execution, NEW t \in Turn, WorkerCompletes(e, t)  PROVE Owner(f)'
  <2>1. /\ worker[e][t] = "completes" /\ UNCHANGED <<turn, active, threads, refused>>
        /\ \/ exec' = exec /\ (GoTo(e, t, "closes") \/ GoTo(e, t, "errors"))
           \/ exec' = [exec EXCEPT ![e] = "completed"] /\ GoTo(e, t, "resumes")
    BY <1>20 DEF WorkerCompletes, WorkerFrame
  <2>2. CASE exec' = exec /\ (GoTo(e, t, "closes") \/ GoTo(e, t, "errors"))
    BY <1>1, <2>1, <2>2, OwnerGoes DEF Reporting
  <2>3. CASE exec' = [exec EXCEPT ![e] = "completed"] /\ GoTo(e, t, "resumes")
    <3>1. CASE f # e
      <4>1. worker'[f] = worker[f] /\ exec'[f] = exec[f]
        BY <1>1, <2>3, <3>1, ShapeTypes DEF GoTo
      <4>. QED  BY <1>1, <2>1, <4>1 DEF Owner
    <3>2. CASE f = e
      <4>1. OnlyWorker(e, t) /\ worker'[e][t] = "resumes"  BY <1>1, <2>3, Going
      <4>2. exec'[f] = "completed"  BY <1>1, <2>3, <3>2, ShapeTypes
      <4>3. \A u \in 0..MaxTurns : u # t => worker'[f][u] = worker[f][u]
        BY <3>2, <4>1 DEF OnlyWorker
      <4>4. \A u \in Turn : u \in 0..MaxTurns /\ u # 0  BY TurnNumbers
      <4>5. active[f] \in 0..MaxTurns  BY <1>1, ShapeTypes
      <4>. QED  BY <1>1, <2>1, <3>2, <4>1, <4>2, <4>3, <4>4, <4>5 DEF Owner, Reporting
    <3>. QED  BY <3>1, <3>2
  <2>. QED  BY <2>1, <2>2, <2>3
<1>21. ASSUME NEW e \in Execution, NEW t \in Turn, WorkerResumes(e, t)  PROVE Owner(f)'
  <2>1. /\ worker[e][t] = "resumes" /\ UNCHANGED <<exec, turn, active, threads>>
        /\ GoTo(e, t, "closes") /\ refused' \in {refused, refused \cup {e}}
    BY <1>21 DEF WorkerResumes, WorkerFrame
  <2>2. CASE f # e
    <3>1. worker'[f] = worker[f]  BY <1>1, <2>1, <2>2, ShapeTypes DEF GoTo
    <3>. QED  BY <1>1, <2>1, <2>2, <3>1 DEF Owner
  <2>3. CASE f = e  BY <1>1, <2>1, <2>3, OwnerReports DEF Reporting
  <2>. QED  BY <2>2, <2>3
<1>22. ASSUME NEW e \in Execution, NEW t \in Turn, WorkerLost(e, t)  PROVE Owner(f)'
  <2>1. UNCHANGED <<turn, active, threads, exec, refused>>  BY <1>22 DEF WorkerLost, WorkerFrame
  <2>2. /\ worker[e][t] # "none"
        /\ \E p : /\ GoTo(e, t, p) /\ p \notin {"persists", "resumes"}
                  /\ p \in Reporting => worker[e][t] \in Reporting
    BY <1>22 DEF WorkerLost, Reporting
  <2>. QED  BY <1>1, <2>1, <2>2, OwnerGoes
<1>23. ASSUME NEW e \in Execution, NEW t \in Turn, WorkerFails(e, t)  PROVE Owner(f)'
  <2>1. /\ UNCHANGED <<exec, refused, turn, threads>>
        /\ worker[e][t] = "fails" /\ GoTo(e, t, "persists") /\ CloseExecution(e, t)
    BY <1>23 DEF WorkerFails, WorkerFrame
  <2>2. turn[e] = t /\ active[e] \in {0, t}  BY <1>1, <2>1 DEF Owner, Reporting
  <2>3. active' = active \/ active' = [active EXCEPT ![e] = 0]
    BY <2>1, Closes
  <2>4. active'[e] = 0  BY <1>1, <2>1, <2>2, Closes, ShapeTypes
  <2>5. CASE f # e
    <3>1. worker'[f] = worker[f] /\ active'[f] = active[f]
      BY <1>1, <2>1, <2>3, <2>5, ShapeTypes DEF GoTo
    <3>. QED  BY <1>1, <2>1, <3>1 DEF Owner
  <2>6. CASE f = e
    <3>1. OnlyWorker(e, t) /\ worker'[e][t] = "persists"  BY <1>1, <2>1, Going
    <3>2. \A u \in 0..MaxTurns : u # t => worker'[f][u] = worker[f][u]
      BY <2>6, <3>1 DEF OnlyWorker
    <3>3. \A u \in Turn : u \in 0..MaxTurns /\ u # 0  BY TurnNumbers
    <3>. QED  BY <1>1, <2>1, <2>2, <2>4, <2>6, <3>1, <3>2, <3>3 DEF Owner, Reporting
  <2>. QED  BY <2>5, <2>6
<1>24. ASSUME NEW e \in Execution, NEW t \in Turn, WorkerPersists(e, t)  PROVE Owner(f)'
  <2>1. /\ worker[e][t] = "persists" /\ UNCHANGED <<refused, turn, active, threads>>
        /\ GoTo(e, t, "closes") /\ (f # e => exec'[f] = exec[f])
    BY <1>24, <1>1, ShapeTypes DEF WorkerPersists, WorkerFrame, FailTurn, FailExecution
  <2>2. CASE f # e
    <3>1. worker'[f] = worker[f]  BY <1>1, <2>1, <2>2, ShapeTypes DEF GoTo
    <3>. QED  BY <1>1, <2>1, <2>2, <3>1 DEF Owner
  <2>3. CASE f = e  BY <1>1, <2>1, <2>3, OwnerReports DEF Reporting
  <2>. QED  BY <2>2, <2>3
<1>25. ASSUME NEW e \in Execution, NEW t \in Turn, WorkerErrs(e, t)  PROVE Owner(f)'
  <2>1. UNCHANGED <<turn, active, threads, exec, refused>>  BY <1>25 DEF WorkerErrs, WorkerFrame
  <2>2. /\ worker[e][t] # "none"
        /\ \E p : /\ GoTo(e, t, p) /\ p \notin {"persists", "resumes"}
                  /\ p \in Reporting => worker[e][t] \in Reporting
    BY <1>25 DEF WorkerErrs, Reporting
  <2>. QED  BY <1>1, <2>1, <2>2, OwnerGoes
<1>26. ASSUME NEW e \in Execution, NEW t \in Turn, WorkerCloses(e, t)  PROVE Owner(f)'
  <2>1. /\ UNCHANGED <<exec, refused, turn, threads>>
        /\ worker[e][t] = "closes" /\ GoTo(e, t, "ended") /\ CloseExecution(e, t)
    BY <1>26 DEF WorkerCloses, WorkerFrame
  <2>2. active' = active \/ active' = [active EXCEPT ![e] = 0]  BY <2>1, Closes
  <2>3. CASE f # e
    <3>1. worker'[f] = worker[f] /\ active'[f] = active[f]
      BY <1>1, <2>1, <2>2, <2>3, ShapeTypes DEF GoTo
    <3>. QED  BY <1>1, <2>1, <3>1 DEF Owner
  <2>4. CASE f = e
    <3>1. OnlyWorker(e, t) /\ worker'[e][t] = "ended"  BY <1>1, <2>1, Going
    <3>2. \A u \in 0..MaxTurns : u # t => worker'[f][u] = worker[f][u]
      BY <2>4, <3>1 DEF OnlyWorker
    <3>3. \A u \in Turn : u \in 0..MaxTurns /\ u # 0  BY TurnNumbers
    <3>4. active'[f] \in {active[f], 0} /\ active[f] \in 0..MaxTurns
      BY <1>1, <2>2, <2>4, ShapeTypes
    <3>. QED  BY <1>1, <2>1, <2>4, <3>1, <3>2, <3>3, <3>4 DEF Owner, Reporting
  <2>. QED  BY <2>3, <2>4
<1>27. ASSUME NEW c \in Caller, CancelApprovals(c)  PROVE Owner(f)'
  <2>1. UNCHANGED <<turn, active, threads, exec, refused>>
    BY <1>27 DEF CancelApprovals, CancelEnds
  <2>2. CASE c = Client
    <3>1. worker' = worker  BY <1>27, <2>2 DEF CancelApprovals, CancelEnds
    <3>. QED  BY <1>1, <2>1, <3>1 DEF Owner
  <2>3. CASE c # Client
    <3>1. PICK e \in Execution, t \in Turn : c = <<e, t>>  BY <2>3 DEF Caller, Worker
    <3>2. GoTo(e, t, "closes") /\ cancelling[c].at # "none"
      BY <1>27, <2>3, <3>1 DEF CancelApprovals, CancelEnds
    <3>3. worker[e][t] = "cancels"  BY <3>1, <3>2 DEF TurnInv, CallingInv
    <3>. QED  BY <1>1, <2>1, <3>2, <3>3, OwnerGoes DEF Reporting
  <2>. QED  BY <2>2, <2>3
<1>28. ASSUME Retry  PROVE Owner(f)'
  <2>1. /\ UNCHANGED <<active, worker, threads>> /\ refused' = {}
        /\ \/ /\ exec[f] = "failed" \/ f \in refused
              /\ exec'[f] = "submitted" /\ turn'[f] = 0
           \/ /\ exec[f] # "failed" /\ f \notin refused
              /\ exec'[f] = exec[f] /\ turn'[f] = turn[f]
    BY <1>28 DEF Retry
  <2>. QED  BY <1>1, <2>1 DEF Owner, Reporting
<1>29. ASSUME Cancel  PROVE Owner(f)'
  <2>1. CancelExecutions({}) /\ UNCHANGED <<turn, active, worker, threads, refused>>
    BY <1>29 DEF Cancel
  <2>. QED  BY <1>1, <2>1 DEF Owner, CancelExecutions
<1>30. ASSUME Crash  PROVE Owner(f)'
  <2>1. Stop  BY <1>30 DEF Crash
  <2>2. /\ active'[f] = 0 /\ threads'[f] = None /\ \A u \in 0..MaxTurns : worker'[f][u] = "none"
    BY <2>1 DEF Stop
  <2>3. None # 0 /\ \A u \in Turn : u \in 0..MaxTurns
    BY TurnsAssumption DEF TurnsAssumption
  <2>. QED  BY <2>2, <2>3 DEF Owner, Reporting
<1>31. ASSUME CloseSupervisor  PROVE Owner(f)'
  <2>1. active'[f] = 0 /\ UNCHANGED <<turn, worker, threads, exec, refused>>
    BY <1>31 DEF CloseSupervisor
  <2>. QED  BY <1>1, <2>1 DEF Owner
<1>32. ASSUME Exit  PROVE Owner(f)'
  <2>1. Stop  BY <1>32 DEF Exit
  <2>2. /\ active'[f] = 0 /\ threads'[f] = None /\ \A u \in 0..MaxTurns : worker'[f][u] = "none"
    BY <2>1 DEF Stop
  <2>3. None # 0 /\ \A u \in Turn : u \in 0..MaxTurns
    BY TurnsAssumption DEF TurnsAssumption
  <2>. QED  BY <2>2, <2>3 DEF Owner, Reporting
<1>33. ASSUME NEW e \in Execution, Reattach(e)  PROVE Owner(f)'
  <2>1. /\ e \in orphans /\ UNCHANGED <<turn, exec, refused>>
        /\ active' = [active EXCEPT ![e] = turn[e]] /\ threads' = [threads EXCEPT ![e] = turn[e]]
        /\ GoTo(e, turn[e], "starts")
    BY <1>33 DEF Reattach
  <2>2. turn[e] \in Turn /\ exec[e] \in {"waiting", "cancelled"} /\ e \notin refused
    BY <1>1, <2>1, ShapeTypes DEF Life
  <2>3. PICK t \in Turn : t = turn[e]  BY <2>2
  <2>4. CASE f # e
    <3>1. worker'[f] = worker[f] /\ threads'[f] = threads[f] /\ active'[f] = active[f]
      BY <1>1, <2>1, <2>4, ShapeTypes DEF GoTo
    <3>. QED  BY <1>1, <2>1, <3>1 DEF Owner
  <2>5. CASE f = e
    <3>1. OnlyWorker(e, t) /\ worker'[e][t] = "starts"  BY <1>1, <2>1, <2>3, Going
    <3>2. threads'[f] = t /\ active'[f] = t  BY <1>1, <2>1, <2>3, <2>5, ShapeTypes
    <3>3. t # None  BY <2>3, TurnsAssumption DEF TurnsAssumption
    <3>4. \A u \in 0..MaxTurns : u # t => worker'[f][u] = worker[f][u]
      BY <2>5, <3>1 DEF OnlyWorker
    <3>5. \A u \in Turn : worker[f][u] = "none"  BY <1>1, <2>1, <2>5 DEF Life
    <3>6. \A u \in Turn : u \in 0..MaxTurns /\ u # 0  BY TurnNumbers
    <3>. QED  BY <1>1, <2>1, <2>2, <2>3, <2>5, <3>1, <3>2, <3>3, <3>4, <3>5, <3>6
             DEF Owner, Reporting
  <2>. QED  BY <2>4, <2>5
<1>34. ASSUME NEW e \in Execution, Orphaned(e)  PROVE Owner(f)'
  <2>1. /\ e \in orphans /\ UNCHANGED <<turn, active, worker, threads, refused>>
        /\ (f # e => exec'[f] = exec[f])
    BY <1>34, <1>1, ShapeTypes DEF Orphaned, FailTurn, FailExecution
  <2>2. f = e => \A u \in Turn : worker[f][u] = "none"  BY <1>1, <2>1 DEF Life
  <2>. QED  BY <1>1, <2>1, <2>2 DEF Owner, Reporting
<1>35. ASSUME UNCHANGED vars  PROVE UNCHANGED <<turn, active, worker, threads, exec, refused>>
  BY <1>35 DEF vars
<1>36. CASE UNCHANGED <<turn, active, worker, threads, exec, refused>>
  BY <1>36, <1>1 DEF Owner
<1>. QED
  BY <1>3, <1>4, <1>5, <1>6, <1>7, <1>8, <1>9, <1>10, <1>11, <1>12, <1>13, <1>14, <1>15,
     <1>16, <1>17, <1>18, <1>19, <1>20, <1>21, <1>22, <1>23, <1>24, <1>25, <1>26, <1>27,
     <1>28, <1>29, <1>30, <1>31, <1>32, <1>33, <1>34, <1>35, <1>36
     DEF TurnNext, NodeSteps, AskSteps, TurnSteps, WorkerSteps, CancelSteps, ServerSteps,
         StopSteps, StartSteps

\* The places of a worker that is done with the Turn, and of one about to report it.
Given == {"errors", "closes", "ended"}
Over == Given \cup {"persists", "cancels"}

\* Nothing changed for an execution, or its worker goes on.
LEMMA AttendedKept ==
  ASSUME Shape, Moves, NEW f \in Execution, Life(f), Attended(f),
         exec'[f] = exec[f], turn'[f] = turn[f], active'[f] = active[f],
         closing' = closing, f \in orphans => f \in orphans',
         worker'[f][turn[f]] = worker[f][turn[f]]
  PROVE  Attended(f)'
<1>1. exec[f] = "waiting" => turn[f] \in Turn  BY ShapeTypes, TurnNumbers DEF Life
<1>2. \A s \in {"silent", "interrupted"} :
        exec[f] = "waiting" /\ server[f][turn[f]] = s => server'[f][turn[f]] = s
  BY <1>1, BegunStays DEF Moves, Ended
<1>. QED  BY <1>1, <1>2 DEF Attended

LEMMA AttendedGoes ==
  ASSUME Shape, Moves, NEW f \in Execution, Life(f), Attended(f),
         UNCHANGED <<exec, turn, active, closing, orphans>>,
         NEW e \in Execution, NEW t \in Turn, NEW p, GoTo(e, t, p),
         turn[e] = t /\ exec[e] = "waiting" /\ closing # "supervisor" =>
           /\ p \notin Over => worker[e][t] \notin Over
           /\ p \in Given => \/ worker[e][t] \in Given \/ closing # "no"
                             \/ server[e][t] \in {"silent", "interrupted"}
  PROVE  Attended(f)'
<1>1. OnlyWorker(e, t) /\ worker'[e][t] = p  BY Going, TurnNumbers
<1>2. turn[f] \in 0..MaxTurns  BY ShapeTypes
<1>3. CASE ~(f = e /\ turn[f] = t)
  <2>1. worker'[f][turn[f]] = worker[f][turn[f]]  BY <1>1, <1>2, <1>3 DEF OnlyWorker
  <2>. QED  BY <2>1, AttendedKept
<1>4. CASE f = e /\ turn[f] = t
  <2>1. server[f][t] \in {"silent", "interrupted"} => server'[f][t] = server[f][t]
    BY <1>4, BegunStays DEF Moves, Ended
  <2>. QED  BY <1>1, <1>4, <2>1 DEF Attended, Given, Over
<1>. QED  BY <1>3, <1>4

\* The Turn that a waiting execution is watched for is the one that the adapter owns,
\* and it has no worker yet.
LEMMA Watched ==
  ASSUME TurnInv, NEW e \in Execution, WatchWaiting(e)
  PROVE  active[e] = turn[e] /\ active[e] \in Turn /\ worker[e][active[e]] = "none"
<1>1. Shape /\ Life(e) /\ Owner(e) /\ Attended(e)
  BY DEF TurnInv, LifeInv, OwnerInv, AttendedInv
<1>2. /\ exec[e] = "waiting" /\ turn[e] # 0 /\ up /\ closing # "supervisor"
      /\ threads[e] = None \/ (active[e] # 0 /\ threads[e] # active[e])
  BY DEF WatchWaiting, Watch
<1>3. turn[e] \in Turn  BY <1>1, <1>2, ShapeTypes, TurnNumbers
<1>4. threads[e] = None => worker[e][turn[e]] = "none"  BY <1>1, <1>3 DEF Owner
<1>5. threads[e] = None => active[e] = turn[e]  BY <1>1, <1>2, <1>4 DEF Life, Attended
<1>6. active[e] \in {0, turn[e]}  BY <1>1, <1>2 DEF Owner
<1>7. active[e] = turn[e]  BY <1>2, <1>5, <1>6
<1>8. threads[e] # None => worker[e][active[e]] = "none"  BY <1>1, <1>2 DEF Owner
<1>. QED  BY <1>3, <1>4, <1>7, <1>8

LEMMA AttendedStep == TurnInv /\ Moves /\ [TurnNext]_vars => AttendedInv'
<1>. SUFFICES ASSUME TurnInv, Moves, [TurnNext]_vars, NEW f \in Execution  PROVE Attended(f)'
  BY DEF AttendedInv
<1>. USE TurnNumbers DEF product, adapter, node, watching, asking, backend, bounds, Unlocked
<1>1. /\ Shape
      /\ \A e \in Execution : Life(e) /\ Owner(e) /\ Submission(e) /\ Attended(e)
      /\ \A e \in Execution, t \in Turn : Queue(e, t)
  BY DEF TurnInv, LifeInv, OwnerInv, SubmissionInv, AttendedInv, QueueInv
<1>2. ASSUME NEW e \in Execution, NEW t \in Turn,
             ServerAsks(e, t) \/ ServerEnds(e, t) \/ ConnectionLost(e, t) \/ Decide(e, t)
      PROVE  UNCHANGED <<exec, closing, orphans, worker, turn, active>>
  BY <1>2 DEF ServerAsks, ServerEnds, ConnectionLost, Decide
<1>3. ASSUME NEW c \in Caller,
             Dispatch(c) \/ Acknowledged(c) \/ RecordDispatch(c)
      PROVE  UNCHANGED <<exec, closing, orphans, worker, turn, active>>
  BY <1>3 DEF Dispatch, Acknowledged, RecordDispatch
<1>4. ASSUME 
             Startup
      PROVE  UNCHANGED <<exec, closing, orphans, worker, turn, active>>
  BY <1>4 DEF Startup
<1>5. ASSUME NEW e \in Execution, Submit(e)  PROVE Attended(f)'
  <2>1. /\ UNCHANGED <<turn, active, worker, closing, orphans>> /\ exec'[e] = "running"
        /\ f # e => exec'[f] = exec[f]
    BY <1>5, <1>1, ShapeTypes DEF Submit
  <2>. QED  BY <1>1, <2>1, AttendedKept DEF Attended
<1>6. ASSUME NEW e \in Execution, Execute(e)  PROVE Attended(f)'
  <2>1. UNCHANGED <<exec, turn, worker, closing, orphans>> /\ submitting = e
    BY <1>6 DEF Execute
  <2>2. exec[e] = "running"  BY <1>1, <2>1 DEF Life
  <2>3. f # e => active'[f] = active[f]  BY <1>6, <1>1, ShapeTypes DEF Execute
  <2>. QED  BY <1>1, <2>1, <2>2, <2>3, AttendedKept DEF Attended
<1>7. ASSUME NEW e \in Execution, ExecuteFails(e)  PROVE Attended(f)'
  <2>1. /\ UNCHANGED <<turn, active, worker, closing, orphans>> /\ exec'[e] = "failed"
        /\ f # e => exec'[f] = exec[f]
    BY <1>7, <1>1, ShapeTypes DEF ExecuteFails, FailExecution
  <2>. QED  BY <1>1, <2>1, AttendedKept DEF Attended
<1>8. ASSUME NEW e \in Execution, Commit(e)  PROVE Attended(f)'
  <2>1. /\ submitting = e /\ returned # None /\ UNCHANGED <<active, worker, closing, orphans>>
        /\ exec' = [exec EXCEPT ![e] = returned[1]] /\ turn' = [turn EXCEPT ![e] = returned[2]]
    BY <1>8 DEF Commit
  <2>2. CASE f # e
    <3>1. exec'[f] = exec[f] /\ turn'[f] = turn[f]  BY <1>1, <2>1, <2>2, ShapeTypes
    <3>. QED  BY <1>1, <2>1, <3>1, AttendedKept
  <2>3. CASE f = e
    <3>1. exec'[f] = returned[1] /\ turn'[f] = returned[2]  BY <1>1, <2>1, <2>3, ShapeTypes
    <3>. QED  BY <1>1, <2>1, <2>3, <3>1 DEF Submission, Attended
  <2>. QED  BY <2>2, <2>3
<1>9. ASSUME NEW e \in Execution, WatchWaiting(e)  PROVE Attended(f)'
  <2>1. /\ UNCHANGED <<turn, active, exec, closing, orphans>> /\ GoTo(e, active[e], "starts")
    BY <1>9 DEF WatchWaiting, Watch
  <2>2. PICK t \in Turn : t = active[e] /\ t = turn[e]  BY <1>9, Watched
  <2>3. OnlyWorker(e, t) /\ worker'[e][t] = "starts"  BY <1>1, <2>1, <2>2, Going
  <2>4. CASE f # e
    <3>1. worker'[f][turn[f]] = worker[f][turn[f]]
      BY <1>1, <2>3, <2>4, ShapeTypes DEF OnlyWorker
    <3>. QED  BY <1>1, <2>1, <3>1, AttendedKept
  <2>5. CASE f = e  BY <2>1, <2>2, <2>3, <2>5 DEF Attended
  <2>. QED  BY <2>4, <2>5
<1>10. ASSUME NEW e \in Execution, NEW t \in Turn, WorkerHearsEnd(e, t)  PROVE Attended(f)'
  <2>1. UNCHANGED <<exec, turn, active, closing, orphans>> /\ worker[e][t] = "waits"
    BY <1>10 DEF WorkerHearsEnd, WorkerFrame
  <2>2. \E p : /\ GoTo(e, t, p) /\ p \in {"completes", "errors", "cancels", "fails"}
               /\ p = "errors" => server[e][t] = "silent"
    BY <1>10 DEF WorkerHearsEnd
  <2>. QED  BY <1>1, <2>1, <2>2, AttendedGoes DEF Over, Given
<1>11. ASSUME NEW e \in Execution, NEW t \in Turn, WorkerLoses(e, t)  PROVE Attended(f)'
  <2>1. UNCHANGED <<exec, turn, active, closing, orphans>>  BY <1>11 DEF WorkerLoses, WorkerFrame
  <2>2. \E p : /\ GoTo(e, t, p)
               /\ p \notin Over => worker[e][t] \notin Over
               /\ p \in Given => worker[e][t] \in Given
    BY <1>11 DEF WorkerLoses, Over, Given, Loses
  <2>. QED  BY <1>1, <2>1, <2>2, AttendedGoes
<1>12. ASSUME NEW e \in Execution, NEW t \in Turn, WorkerCancels(e, t)  PROVE Attended(f)'
  <2>1. UNCHANGED <<turn, active, closing, orphans>>  BY <1>12 DEF WorkerCancels
  <2>2. CASE closing = "supervisor"  BY <2>1, <2>2 DEF Attended
  <2>3. CASE UNCHANGED <<exec, worker>>  BY <1>1, <2>1, <2>3, AttendedKept
  <2>4. CASE CancelExecutions({e})  BY <2>4 DEF CancelExecutions, Attended
  <2>. QED  BY <1>12, <2>2, <2>3, <2>4 DEF WorkerCancels, Closed
<1>13. ASSUME NEW e \in Execution, NEW t \in Turn, WorkerHearsAsk(e, t)  PROVE Attended(f)'
  <2>1. UNCHANGED <<exec, turn, active, closing, orphans>>  BY <1>13 DEF WorkerHearsAsk, WorkerFrame
  <2>2. \E p : /\ GoTo(e, t, p)
               /\ p \notin Over => worker[e][t] \notin Over
               /\ p \in Given => worker[e][t] \in Given
    BY <1>13 DEF WorkerHearsAsk, Over, Given
  <2>. QED  BY <1>1, <2>1, <2>2, AttendedGoes
<1>14. ASSUME NEW e \in Execution, NEW t \in Turn, WorkerAsks(e, t)  PROVE Attended(f)'
  <2>1. UNCHANGED <<exec, turn, active, closing, orphans>> /\ worker[e][t] = "asks"
    BY <1>14 DEF WorkerAsks, WorkerFrame
  <2>2. \E p : /\ GoTo(e, t, p) /\ p \in {"errors", "answers", "reads"}
               /\ p = "errors" => closing # "no" \/ ~(exec[e] = "waiting" /\ turn[e] = t)
    BY <1>14 DEF WorkerAsks
  <2>. QED  BY <1>1, <2>1, <2>2, AttendedGoes DEF Over, Given
<1>15. ASSUME NEW e \in Execution, NEW t \in Turn, WorkerReads(e, t)  PROVE Attended(f)'
  <2>1. UNCHANGED <<exec, turn, active, closing, orphans>>  BY <1>15 DEF WorkerReads, WorkerFrame
  <2>2. \E p : /\ GoTo(e, t, p)
               /\ p \notin Over => worker[e][t] \notin Over
               /\ p \in Given => worker[e][t] \in Given
    BY <1>15 DEF WorkerReads, Over, Given
  <2>. QED  BY <1>1, <2>1, <2>2, AttendedGoes
<1>16. ASSUME NEW e \in Execution, NEW t \in Turn, WorkerWakes(e, t)  PROVE Attended(f)'
  <2>1. UNCHANGED <<exec, turn, active, closing, orphans>>  BY <1>16 DEF WorkerWakes, WorkerFrame
  <2>2. \E p : /\ GoTo(e, t, p)
               /\ p \notin Over => worker[e][t] \notin Over
               /\ p \in Given => worker[e][t] \in Given
    BY <1>16 DEF WorkerWakes, Over, Given
  <2>. QED  BY <1>1, <2>1, <2>2, AttendedGoes
<1>17. ASSUME NEW e \in Execution, NEW t \in Turn, WorkerAnswers(e, t)  PROVE Attended(f)'
  <2>1. UNCHANGED <<exec, turn, active, closing, orphans>>  BY <1>17 DEF WorkerAnswers, WorkerFrame
  <2>2. \E p : /\ GoTo(e, t, p)
               /\ p \notin Over => worker[e][t] \notin Over
               /\ p \in Given => worker[e][t] \in Given
    BY <1>17 DEF WorkerAnswers, Over, Given, Loses
  <2>. QED  BY <1>1, <2>1, <2>2, AttendedGoes
<1>18. ASSUME NEW e \in Execution, NEW t \in Turn, WorkerStarts(e, t)  PROVE Attended(f)'
  <2>1. /\ UNCHANGED <<exec, turn, active, closing, orphans>> /\ worker[e][t] = "starts"
        /\ GoTo(e, t, IF active[e] # 0 /\ t \in {0, active[e]} THEN "waits" ELSE "errors")
    BY <1>18 DEF WorkerStarts, WorkerFrame
  <2>2. e \notin orphans  BY <1>1, <2>1 DEF Life
  <2>3. exec[e] = "waiting" /\ closing # "supervisor" => active[e] = t
    BY <1>1, <2>1, <2>2 DEF Attended, Owner, Reporting
  <2>4. PICK p : /\ GoTo(e, t, p)
                 /\ active[e] = t => p = "waits"
                 /\ p \in {"waits", "errors"}
    BY <2>1
  <2>. QED  BY <1>1, <2>1, <2>3, <2>4, AttendedGoes DEF Over, Given
<1>19. ASSUME NEW e \in Execution, NEW t \in Turn, WorkerCompletes(e, t)  PROVE Attended(f)'
  <2>1. UNCHANGED <<turn, active, closing, orphans>> /\ worker[e][t] = "completes"
    BY <1>19 DEF WorkerCompletes, WorkerFrame
  <2>2. CASE exec[e] = "waiting"
    <3>1. CASE closing = "supervisor"
      <4>1. exec'[f] \in {exec[f], "completed"}
        BY <1>19, <1>1, ShapeTypes DEF WorkerCompletes
      <4>. QED  BY <2>1, <3>1 DEF Attended
    <3>2. CASE closing # "supervisor"
      <4>1. task # "cancelled"  BY <1>1, <2>2 DEF Life
      <4>2. exec' = [exec EXCEPT ![e] = "completed"] /\ GoTo(e, t, "resumes")
        BY <1>19, <2>2, <3>2, <4>1 DEF WorkerCompletes, Closed
      <4>3. CASE f = e  BY <1>1, <4>2, <4>3, ShapeTypes DEF Attended
      <4>4. CASE f # e
        <5>1. exec'[f] = exec[f] /\ worker'[f] = worker[f]
          BY <1>1, <4>2, <4>4, ShapeTypes DEF GoTo
        <5>. QED  BY <1>1, <2>1, <5>1, AttendedKept
      <4>. QED  BY <4>3, <4>4
    <3>. QED  BY <3>1, <3>2
  <2>3. CASE exec[e] # "waiting"
    <3>1. exec' = exec /\ \E p : GoTo(e, t, p)  BY <1>19, <2>3 DEF WorkerCompletes
    <3>. QED  BY <1>1, <2>1, <2>3, <3>1, AttendedGoes
  <2>. QED  BY <2>2, <2>3
<1>20. ASSUME NEW e \in Execution, NEW t \in Turn, WorkerResumes(e, t)  PROVE Attended(f)'
  <2>1. /\ UNCHANGED <<exec, turn, active, closing, orphans>> /\ worker[e][t] = "resumes"
        /\ GoTo(e, t, "closes")
    BY <1>20 DEF WorkerResumes, WorkerFrame
  <2>2. exec[e] # "waiting"  BY <1>1, <2>1 DEF Owner
  <2>. QED  BY <1>1, <2>1, <2>2, AttendedGoes
<1>21. ASSUME NEW e \in Execution, NEW t \in Turn, WorkerLost(e, t)  PROVE Attended(f)'
  <2>1. /\ UNCHANGED <<exec, turn, active, closing, orphans>> /\ worker[e][t] = "lost"
        /\ \E p : GoTo(e, t, p) /\ (p = "fails" \/ (p = "closes" /\ closing = "supervisor"))
    BY <1>21 DEF WorkerLost, WorkerFrame, Closed
  <2>. QED  BY <1>1, <2>1, AttendedGoes DEF Over, Given
<1>22. ASSUME NEW e \in Execution, NEW t \in Turn, WorkerFails(e, t)  PROVE Attended(f)'
  <2>1. /\ UNCHANGED <<exec, turn, closing, orphans>> /\ worker[e][t] = "fails"
        /\ GoTo(e, t, "persists") /\ CloseExecution(e, t)
    BY <1>22 DEF WorkerFails, WorkerFrame
  <2>2. turn[e] = t /\ (active' = active \/ active' = [active EXCEPT ![e] = 0])
    BY <1>1, <2>1, Closes DEF Owner, Reporting
  <2>3. CASE f # e
    <3>1. worker'[f] = worker[f] /\ active'[f] = active[f]
      BY <1>1, <2>1, <2>2, <2>3, ShapeTypes DEF GoTo
    <3>. QED  BY <1>1, <2>1, <3>1, AttendedKept
  <2>4. CASE f = e
    <3>1. worker'[f][t] = "persists"  BY <1>1, <2>1, <2>4, Going
    <3>. QED  BY <2>1, <2>2, <2>4, <3>1 DEF Attended
  <2>. QED  BY <2>3, <2>4
<1>23. ASSUME NEW e \in Execution, NEW t \in Turn, WorkerPersists(e, t)  PROVE Attended(f)'
  <2>1. /\ UNCHANGED <<turn, active, closing, orphans>> /\ worker[e][t] = "persists"
        /\ GoTo(e, t, "closes") /\ (f # e => exec'[f] = exec[f])
        /\ exec[e] = "waiting" /\ task # "cancelled" => exec'[e] = "failed"
        /\ exec'[e] \in {exec[e], "failed"}
    BY <1>23, <1>1, ShapeTypes DEF WorkerPersists, WorkerFrame, FailTurn, FailExecution
  <2>2. CASE f # e
    <3>1. worker'[f] = worker[f]  BY <1>1, <2>1, <2>2, ShapeTypes DEF GoTo
    <3>. QED  BY <1>1, <2>1, <2>2, <3>1, AttendedKept
  <2>3. CASE f = e  BY <1>1, <2>1, <2>3 DEF Life, Attended
  <2>. QED  BY <2>2, <2>3
<1>24. ASSUME NEW e \in Execution, NEW t \in Turn, WorkerErrs(e, t)  PROVE Attended(f)'
  <2>1. UNCHANGED <<exec, turn, active, closing, orphans>>  BY <1>24 DEF WorkerErrs, WorkerFrame
  <2>2. \E p : /\ GoTo(e, t, p)
               /\ p \notin Over => worker[e][t] \notin Over
               /\ p \in Given => worker[e][t] \in Given
    BY <1>24 DEF WorkerErrs, Over, Given
  <2>. QED  BY <1>1, <2>1, <2>2, AttendedGoes
<1>25. ASSUME NEW e \in Execution, NEW t \in Turn, WorkerCloses(e, t)  PROVE Attended(f)'
  <2>1. /\ UNCHANGED <<exec, turn, closing, orphans>> /\ worker[e][t] = "closes"
        /\ GoTo(e, t, "ended") /\ CloseExecution(e, t)
    BY <1>25 DEF WorkerCloses, WorkerFrame
  <2>2. active' = active \/ (active[e] = t /\ active' = [active EXCEPT ![e] = 0])
    BY <2>1, Closes
  <2>3. CASE f # e
    <3>1. worker'[f] = worker[f] /\ active'[f] = active[f]
      BY <1>1, <2>1, <2>2, <2>3, ShapeTypes DEF GoTo
    <3>. QED  BY <1>1, <2>1, <3>1, AttendedKept
  <2>4. CASE f = e /\ turn[e] # t
    <3>1. exec[e] = "waiting" => active[e] # t  BY <1>1, <2>4 DEF Owner, Life
    <3>2. active' # active => exec'[f] # "waiting"  BY <2>1, <2>2, <2>4, <3>1
    <3>3. worker'[f][turn[f]] = worker[f][turn[f]]
      BY <1>1, <2>1, <2>4, Going, ShapeTypes DEF OnlyWorker
    <3>. QED  BY <1>1, <2>1, <3>2, <3>3, AttendedKept DEF Attended
  <2>5. CASE f = e /\ turn[e] = t
    <3>1. worker'[f][t] = "ended"  BY <1>1, <2>1, <2>5, Going
    <3>2. server[f][t] \in {"silent", "interrupted"} => server'[f][t] = server[f][t]
      BY BegunStays DEF Moves, Ended
    <3>. QED  BY <1>1, <2>1, <2>5, <3>1, <3>2 DEF Attended
  <2>. QED  BY <2>3, <2>4, <2>5
<1>26. ASSUME NEW c \in Caller, CancelApprovals(c)  PROVE Attended(f)'
  <2>1. UNCHANGED <<exec, turn, active, closing, orphans>>
    BY <1>26 DEF CancelApprovals, CancelEnds
  <2>2. CASE c = Client
    <3>1. worker' = worker  BY <1>26, <2>2 DEF CancelApprovals, CancelEnds
    <3>. QED  BY <1>1, <2>1, <3>1, AttendedKept
  <2>3. CASE c # Client
    <3>1. PICK e \in Execution, t \in Turn : c = <<e, t>>  BY <2>3 DEF Caller, Worker
    <3>2. GoTo(e, t, "closes") /\ cancelling[c].at # "none"
      BY <1>26, <2>3, <3>1 DEF CancelApprovals, CancelEnds
    <3>3. worker[e][t] = "cancels"  BY <3>1, <3>2 DEF TurnInv, CallingInv
    <3>4. server[e][t] = "interrupted"  BY <1>1, <3>3 DEF Queue
    <3>. QED  BY <1>1, <2>1, <3>2, <3>4, AttendedGoes DEF Over, Given
  <2>. QED  BY <2>2, <2>3
<1>27. ASSUME Retry  PROVE Attended(f)'
  <2>1. /\ UNCHANGED <<active, worker, closing, orphans>>
        /\ \/ exec'[f] = "submitted"
           \/ exec'[f] = exec[f] /\ turn'[f] = turn[f]
    BY <1>27 DEF Retry
  <2>. QED  BY <1>1, <2>1, AttendedKept DEF Attended
<1>28. ASSUME Cancel  PROVE Attended(f)'
  <2>1. CancelExecutions({})  BY <1>28 DEF Cancel
  <2>. QED  BY <2>1 DEF Attended, CancelExecutions
<1>29. ASSUME CloseApprovals  PROVE Attended(f)'
  <2>1. UNCHANGED <<exec, server, turn, active, worker, orphans>> /\ closing' = "approvals" /\ closing = "no"
    BY <1>29 DEF CloseApprovals
  <2>. QED  BY <1>1, <2>1 DEF Attended
<1>30. ASSUME Crash  PROVE Attended(f)'
  <2>1. /\ UNCHANGED <<exec, turn>>
        /\ orphans' = {e \in Execution : exec[e] = "waiting" /\ turn[e] # 0}
    BY <1>30 DEF Crash, Stop
  <2>. QED  BY <1>1, <2>1 DEF Life, Attended
<1>31. ASSUME CloseSupervisor  PROVE Attended(f)'
  <2>1. closing' = "supervisor"  BY <1>31 DEF CloseSupervisor
  <2>. QED  BY <2>1 DEF Attended
<1>32. ASSUME Exit  PROVE Attended(f)'
  <2>1. /\ UNCHANGED <<exec, turn>>
        /\ orphans' = {e \in Execution : exec[e] = "waiting" /\ turn[e] # 0}
    BY <1>32 DEF Exit, Stop
  <2>. QED  BY <1>1, <2>1 DEF Life, Attended
<1>33. ASSUME NEW e \in Execution, Reattach(e)  PROVE Attended(f)'
  <2>1. /\ e \in orphans /\ UNCHANGED <<turn, exec, server, closing>> /\ orphans' = orphans \ {e}
        /\ active' = [active EXCEPT ![e] = turn[e]] /\ GoTo(e, turn[e], "starts")
    BY <1>33 DEF Reattach
  <2>2. CASE f # e
    <3>1. worker'[f] = worker[f] /\ active'[f] = active[f]
      BY <1>1, <2>1, <2>2, ShapeTypes DEF GoTo
    <3>. QED  BY <1>1, <2>1, <2>2, <3>1, AttendedKept
  <2>3. CASE f = e
    <3>1. active'[f] = turn[f] /\ worker'[f][turn[f]] = "starts"
      BY <1>1, <2>1, <2>3, Going, ShapeTypes
    <3>. QED  BY <2>1, <2>3, <3>1 DEF Attended
  <2>. QED  BY <2>2, <2>3
<1>34. ASSUME NEW e \in Execution, Orphaned(e)  PROVE Attended(f)'
  <2>1. /\ e \in orphans /\ UNCHANGED <<turn, active, worker, closing>>
        /\ (f # e => exec'[f] = exec[f]) /\ orphans' = orphans \ {e}
        /\ exec[e] = "waiting" /\ task # "cancelled" => exec'[e] = "failed"
        /\ exec'[e] \in {exec[e], "failed"}
    BY <1>34, <1>1, ShapeTypes DEF Orphaned, FailTurn, FailExecution
  <2>2. CASE f # e  BY <1>1, <2>1, <2>2, AttendedKept
  <2>3. CASE f = e  BY <1>1, <2>1, <2>3 DEF Life, Attended
  <2>. QED  BY <2>2, <2>3
<1>35. ASSUME UNCHANGED vars  PROVE UNCHANGED <<exec, closing, orphans, worker, turn, active>>
  BY <1>35 DEF vars
<1>36. CASE UNCHANGED <<exec, closing, orphans, worker, turn, active>>
  BY <1>36, <1>1, AttendedKept
<1>. QED
  BY <1>2, <1>3, <1>4, <1>5, <1>6, <1>7, <1>8, <1>9, <1>10, <1>11, <1>12, <1>13, <1>14,
     <1>15, <1>16, <1>17, <1>18, <1>19, <1>20, <1>21, <1>22, <1>23, <1>24, <1>25, <1>26,
     <1>27, <1>28, <1>29, <1>30, <1>31, <1>32, <1>33, <1>34, <1>35, <1>36
     DEF TurnNext, NodeSteps, AskSteps, TurnSteps, WorkerSteps, CancelSteps, ServerSteps,
         StopSteps, StartSteps

\* What a call of cancel is told stays true while the task is cancelled.
LEMMA CallingKept ==
  ASSUME TurnInv, Moves, NEW c \in Caller, Calling(c), cancelling'[c] = cancelling[c],
         task = "cancelled" => task' = "cancelled" /\ turn' = turn
  PROVE  Calling(c)'
<1>1. \A e \in Execution, t \in 0..MaxTurns :
        t # 0 /\ server[e][t] = "interrupted" => server'[e][t] = "interrupted"
  BY BegunStays, TurnNumbers DEF Moves, Ended
<1>. QED  BY <1>1 DEF Calling

\* A worker that calls nobody goes on.
LEMMA CallingGoes ==
  ASSUME TurnInv, Moves, UNCHANGED <<cancelling, turn>>,
         task = "cancelled" => task' = "cancelled",
         NEW e \in Execution, NEW t \in Turn, NEW p, GoTo(e, t, p),
         worker[e][t] # "cancels" \/ cancelling[<<e, t>>].at = "none"
  PROVE  CallingInv'
<1>1. CallingInv /\ Shape  BY DEF TurnInv
<1>2. \A c \in Caller : Calling(c)'  BY <1>1, CallingKept DEF CallingInv
<1>3. ASSUME NEW f \in Execution, NEW u \in Turn, cancelling[<<f, u>>].at # "none"
      PROVE  worker'[f][u] = "cancels"
  <2>1. worker[f][u] = "cancels" /\ ~(f = e /\ u = t)  BY <1>1, <1>3 DEF CallingInv
  <2>. QED  BY <1>1, <2>1, Going, TurnNumbers DEF OnlyWorker
<1>. QED  BY <1>2, <1>3 DEF CallingInv

LEMMA CallingStep == TurnInv /\ Moves /\ [TurnNext]_vars => CallingInv'
<1>. SUFFICES ASSUME TurnInv, Moves, [TurnNext]_vars  PROVE CallingInv'
  OBVIOUS
<1>. USE TurnNumbers DEF product, adapter, node, watching, asking, backend, bounds, Unlocked
<1>1. /\ Shape /\ CallingInv /\ cancelling \in [Caller -> Calls]
      /\ \A c \in Caller : Calling(c)
      /\ \A e \in Execution : Life(e) /\ Owner(e)
  BY DEF TurnInv, LifeInv, OwnerInv, CallingInv, Shape, CallTypes
<1>2. ASSUME NEW e \in Execution,
             Submit(e) \/ Execute(e)
      PROVE  UNCHANGED <<cancelling, task, turn, worker>>
  BY <1>2 DEF Submit, Execute
<1>3. ASSUME NEW e \in Execution, NEW t \in Turn,
             ServerAsks(e, t) \/ ServerEnds(e, t) \/ ConnectionLost(e, t) \/ Decide(e, t)
      PROVE  UNCHANGED <<cancelling, task, turn, worker>>
  BY <1>3 DEF ServerAsks, ServerEnds, ConnectionLost, Decide
<1>4. ASSUME 
             CloseApprovals \/ CloseSupervisor \/ Startup
      PROVE  UNCHANGED <<cancelling, task, turn, worker>>
  BY <1>4 DEF CloseApprovals, CloseSupervisor, Startup
<1>5. ASSUME NEW e \in Execution, ExecuteFails(e)  PROVE CallingInv'
  <2>1. UNCHANGED <<cancelling, worker>> /\ (task = "cancelled" => task' = "cancelled" /\ turn' = turn)
    BY <1>5, <1>1 DEF ExecuteFails, FailExecution, Life
  <2>. QED  BY <1>1, <2>1, CallingKept DEF CallingInv
<1>6. ASSUME NEW e \in Execution, Commit(e)  PROVE CallingInv'
  <2>1. UNCHANGED <<cancelling, worker>> /\ (task = "cancelled" => task' = "cancelled" /\ turn' = turn)
    BY <1>6, <1>1 DEF Commit, Life
  <2>. QED  BY <1>1, <2>1, CallingKept DEF CallingInv
<1>7. ASSUME NEW e \in Execution, WatchWaiting(e)  PROVE CallingInv'
  <2>1. UNCHANGED <<cancelling, turn, task>> /\ GoTo(e, active[e], "starts")
    BY <1>7 DEF WatchWaiting, Watch
  <2>2. PICK t \in Turn : t = active[e] /\ worker[e][t] = "none"  BY <1>7, Watched
  <2>. QED  BY <2>1, <2>2, CallingGoes
<1>8. ASSUME NEW e \in Execution, NEW t \in Turn, WorkerHearsEnd(e, t)  PROVE CallingInv'
  <2>1. /\ UNCHANGED <<cancelling, turn>> /\ (task = "cancelled" => task' = "cancelled")
        /\ worker[e][t] # "cancels" /\ \E p : GoTo(e, t, p)
    BY <1>8 DEF WorkerHearsEnd, WorkerFrame
  <2>. QED  BY <2>1, CallingGoes
<1>9. ASSUME NEW e \in Execution, NEW t \in Turn, WorkerLoses(e, t)  PROVE CallingInv'
  <2>1. /\ UNCHANGED <<cancelling, turn>> /\ (task = "cancelled" => task' = "cancelled")
        /\ worker[e][t] # "cancels" /\ \E p : GoTo(e, t, p)
    BY <1>9 DEF WorkerLoses, WorkerFrame, Loses
  <2>. QED  BY <2>1, CallingGoes
<1>10. ASSUME NEW e \in Execution, NEW t \in Turn, WorkerCancels(e, t)  PROVE CallingInv'
  <2>1. /\ worker[e][t] = "cancels" /\ cancelling[<<e, t>>].at = "none" /\ turn' = turn
        /\ \/ UNCHANGED <<task, cancelling>> /\ GoTo(e, t, "closes")
           \/ /\ task' = task /\ worker' = worker
              /\ Cancels(<<e, t>>, {})
           \/ /\ task' = "cancelled" /\ worker' = worker
              /\ Cancels(<<e, t>>, Interrupted({e}))
    BY <1>10 DEF WorkerCancels, CancelExecutions
  <2>2. CASE UNCHANGED <<task, cancelling>> /\ GoTo(e, t, "closes")
    BY <2>1, <2>2, CallingGoes
  <2>3. ASSUME worker' = worker, task' \in {task, "cancelled"}, NEW s, Cancels(<<e, t>>, s),
               s # {} => task' = "cancelled"
        PROVE  CallingInv'
    <3>1. <<e, t>> \in Caller  BY DEF Caller, Worker
    <3>2. /\ cancelling'[<<e, t>>].at = "dispatch" /\ cancelling'[<<e, t>>].targets = s
          /\ \A c \in Caller : c # <<e, t>> => cancelling'[c] = cancelling[c]
      BY <1>1, <2>3, <3>1 DEF Cancels, Calls
    <3>3. Calling(<<e, t>>)'  BY <2>3, <3>2 DEF Calling
    <3>4. \A c \in Caller : c # <<e, t>> => Calling(c)'
      BY <1>1, <2>1, <2>3, <3>2, CallingKept
    <3>5. \A f \in Execution, u \in Turn : cancelling'[<<f, u>>].at # "none"
            => worker'[f][u] = "cancels"
      BY <1>1, <2>1, <2>3, <3>2 DEF CallingInv, Caller, Worker
    <3>. QED  BY <3>3, <3>4, <3>5 DEF CallingInv
  <2>. QED  BY <2>1, <2>2, <2>3
<1>11. ASSUME NEW e \in Execution, NEW t \in Turn, WorkerHearsAsk(e, t)  PROVE CallingInv'
  <2>1. /\ UNCHANGED <<cancelling, turn>> /\ (task = "cancelled" => task' = "cancelled")
        /\ worker[e][t] # "cancels" /\ \E p : GoTo(e, t, p)
    BY <1>11 DEF WorkerHearsAsk, WorkerFrame
  <2>. QED  BY <2>1, CallingGoes
<1>12. ASSUME NEW e \in Execution, NEW t \in Turn, WorkerAsks(e, t)  PROVE CallingInv'
  <2>1. /\ UNCHANGED <<cancelling, turn>> /\ (task = "cancelled" => task' = "cancelled")
        /\ worker[e][t] # "cancels" /\ \E p : GoTo(e, t, p)
    BY <1>12 DEF WorkerAsks, WorkerFrame
  <2>. QED  BY <2>1, CallingGoes
<1>13. ASSUME NEW e \in Execution, NEW t \in Turn, WorkerReads(e, t)  PROVE CallingInv'
  <2>1. /\ UNCHANGED <<cancelling, turn>> /\ (task = "cancelled" => task' = "cancelled")
        /\ worker[e][t] # "cancels" /\ \E p : GoTo(e, t, p)
    BY <1>13 DEF WorkerReads, WorkerFrame
  <2>. QED  BY <2>1, CallingGoes
<1>14. ASSUME NEW e \in Execution, NEW t \in Turn, WorkerWakes(e, t)  PROVE CallingInv'
  <2>1. /\ UNCHANGED <<cancelling, turn>> /\ (task = "cancelled" => task' = "cancelled")
        /\ worker[e][t] # "cancels" /\ \E p : GoTo(e, t, p)
    BY <1>14 DEF WorkerWakes, WorkerFrame
  <2>. QED  BY <2>1, CallingGoes
<1>15. ASSUME NEW e \in Execution, NEW t \in Turn, WorkerAnswers(e, t)  PROVE CallingInv'
  <2>1. /\ UNCHANGED <<cancelling, turn>> /\ (task = "cancelled" => task' = "cancelled")
        /\ worker[e][t] # "cancels" /\ \E p : GoTo(e, t, p)
    BY <1>15 DEF WorkerAnswers, WorkerFrame, Loses
  <2>. QED  BY <2>1, CallingGoes
<1>16. ASSUME NEW e \in Execution, NEW t \in Turn, WorkerStarts(e, t)  PROVE CallingInv'
  <2>1. /\ UNCHANGED <<cancelling, turn>> /\ (task = "cancelled" => task' = "cancelled")
        /\ worker[e][t] # "cancels" /\ \E p : GoTo(e, t, p)
    BY <1>16 DEF WorkerStarts, WorkerFrame
  <2>. QED  BY <2>1, CallingGoes
<1>17. ASSUME NEW e \in Execution, NEW t \in Turn, WorkerCompletes(e, t)  PROVE CallingInv'
  <2>1. /\ UNCHANGED <<cancelling, turn>> /\ (task = "cancelled" => task' = "cancelled")
        /\ worker[e][t] # "cancels" /\ \E p : GoTo(e, t, p)
    BY <1>17 DEF WorkerCompletes, WorkerFrame
  <2>. QED  BY <2>1, CallingGoes
<1>18. ASSUME NEW e \in Execution, NEW t \in Turn, WorkerResumes(e, t)  PROVE CallingInv'
  <2>1. /\ UNCHANGED <<cancelling, turn>> /\ (task = "cancelled" => task' = "cancelled")
        /\ worker[e][t] # "cancels" /\ \E p : GoTo(e, t, p)
    BY <1>18 DEF WorkerResumes, WorkerFrame
  <2>. QED  BY <2>1, CallingGoes
<1>19. ASSUME NEW e \in Execution, NEW t \in Turn, WorkerLost(e, t)  PROVE CallingInv'
  <2>1. /\ UNCHANGED <<cancelling, turn>> /\ (task = "cancelled" => task' = "cancelled")
        /\ worker[e][t] # "cancels" /\ \E p : GoTo(e, t, p)
    BY <1>19 DEF WorkerLost, WorkerFrame
  <2>. QED  BY <2>1, CallingGoes
<1>20. ASSUME NEW e \in Execution, NEW t \in Turn, WorkerFails(e, t)  PROVE CallingInv'
  <2>1. /\ UNCHANGED <<cancelling, turn>> /\ (task = "cancelled" => task' = "cancelled")
        /\ worker[e][t] # "cancels" /\ \E p : GoTo(e, t, p)
    BY <1>20 DEF WorkerFails, WorkerFrame
  <2>. QED  BY <2>1, CallingGoes
<1>21. ASSUME NEW e \in Execution, NEW t \in Turn, WorkerPersists(e, t)  PROVE CallingInv'
  <2>1. /\ UNCHANGED <<cancelling, turn>> /\ (task = "cancelled" => task' = "cancelled")
        /\ worker[e][t] # "cancels" /\ \E p : GoTo(e, t, p)
    BY <1>21 DEF WorkerPersists, WorkerFrame, FailTurn, FailExecution
  <2>. QED  BY <2>1, CallingGoes
<1>22. ASSUME NEW e \in Execution, NEW t \in Turn, WorkerErrs(e, t)  PROVE CallingInv'
  <2>1. /\ UNCHANGED <<cancelling, turn>> /\ (task = "cancelled" => task' = "cancelled")
        /\ worker[e][t] # "cancels" /\ \E p : GoTo(e, t, p)
    BY <1>22 DEF WorkerErrs, WorkerFrame
  <2>. QED  BY <2>1, CallingGoes
<1>23. ASSUME NEW e \in Execution, NEW t \in Turn, WorkerCloses(e, t)  PROVE CallingInv'
  <2>1. /\ UNCHANGED <<cancelling, turn>> /\ (task = "cancelled" => task' = "cancelled")
        /\ worker[e][t] # "cancels" /\ \E p : GoTo(e, t, p)
    BY <1>23 DEF WorkerCloses, WorkerFrame
  <2>. QED  BY <2>1, CallingGoes
<1>24. ASSUME NEW c \in Caller, Dispatch(c)  PROVE CallingInv'
  <2>1. UNCHANGED <<task, turn, worker>> /\ cancelling[c].at = "dispatch"
    BY <1>24 DEF Dispatch
  <2>2. PICK e \in cancelling[c].targets, ok \in BOOLEAN :
          /\ cancelling' = [cancelling EXCEPT
                              ![c].at = IF ok THEN "accepted" ELSE "refused",
                              ![c].targets = @ \ {e}, ![c].sent = <<e, active[e]>>]
          /\ ok => active[e] # 0 /\ server' = [server EXCEPT ![e][active[e]] = "interrupted"]
    BY <1>24 DEF Dispatch
  <2>3. e \in Execution /\ active[e] \in 0..MaxTurns  BY <1>1, ShapeTypes DEF Calls
  <2>4. task = "cancelled"  BY <1>1 DEF Calling
  <2>5. /\ cancelling'[c].at = IF ok THEN "accepted" ELSE "refused"
        /\ cancelling'[c].sent = <<e, active[e]>>
        /\ \A d \in Caller : d # c => cancelling'[d] = cancelling[d]
    BY <1>1, <2>2, <2>3 DEF Calls
  <2>6. ok => /\ active[e] # 0 /\ server'[e][active[e]] = "interrupted"
              /\ turn[e] \in {0, active[e]}
    BY <1>1, <2>2, <2>3 DEF Owner, Shape, AdapterTypes
  <2>7. Calling(c)'  BY <2>1, <2>3, <2>4, <2>5, <2>6 DEF Calling
  <2>8. \A d \in Caller : d # c => Calling(d)'  BY <1>1, <2>1, <2>5, CallingKept
  <2>9. \A f \in Execution, u \in Turn : cancelling'[<<f, u>>].at # "none"
          => worker'[f][u] = "cancels"
    BY <1>1, <2>1, <2>5 DEF CallingInv, Caller, Worker
  <2>. QED  BY <2>7, <2>8, <2>9 DEF CallingInv
<1>25. ASSUME NEW c \in Caller, Acknowledged(c)  PROVE CallingInv'
  <2>1. /\ UNCHANGED <<task, turn, worker, server>> /\ cancelling[c].at = "accepted"
        /\ cancelling' = [cancelling EXCEPT ![c].at = "records"]
    BY <1>25 DEF Acknowledged
  <2>2. /\ cancelling'[c].at = "records" /\ cancelling'[c].sent = cancelling[c].sent
        /\ \A d \in Caller : d # c => cancelling'[d] = cancelling[d]
    BY <1>1, <2>1 DEF Calls
  <2>3. Calling(c)'  BY <1>1, <2>1, <2>2 DEF Calling
  <2>4. \A d \in Caller : d # c => Calling(d)'  BY <1>1, <2>1, <2>2, CallingKept
  <2>5. \A f \in Execution, u \in Turn : cancelling'[<<f, u>>].at # "none"
          => worker'[f][u] = "cancels"
    BY <1>1, <2>1, <2>2 DEF CallingInv, Caller, Worker
  <2>. QED  BY <2>3, <2>4, <2>5 DEF CallingInv
<1>26. ASSUME NEW c \in Caller, RecordDispatch(c)  PROVE CallingInv'
  <2>1. /\ UNCHANGED <<task, turn, worker>> /\ cancelling[c].at \in {"refused", "records"}
        /\ cancelling' = [cancelling EXCEPT ![c].at = "dispatch", ![c].sent = None]
    BY <1>26 DEF RecordDispatch
  <2>2. /\ cancelling'[c].at = "dispatch"
        /\ \A d \in Caller : d # c => cancelling'[d] = cancelling[d]
    BY <1>1, <2>1 DEF Calls
  <2>3. Calling(c)'  BY <1>1, <2>1, <2>2 DEF Calling
  <2>4. \A d \in Caller : d # c => Calling(d)'  BY <1>1, <2>1, <2>2, CallingKept
  <2>5. \A f \in Execution, u \in Turn : cancelling'[<<f, u>>].at # "none"
          => worker'[f][u] = "cancels"
    BY <1>1, <2>1, <2>2 DEF CallingInv, Caller, Worker
  <2>. QED  BY <2>3, <2>4, <2>5 DEF CallingInv
<1>27. ASSUME NEW c \in Caller, CancelApprovals(c)  PROVE CallingInv'
  <2>1. /\ UNCHANGED <<task, turn>> /\ cancelling[c].at = "dispatch"
        /\ cancelling' = [cancelling EXCEPT ![c] = NoCancel]
        /\ IF c = Client THEN UNCHANGED worker ELSE GoTo(c[1], c[2], "closes")
    BY <1>27 DEF CancelApprovals, CancelEnds
  <2>2. /\ cancelling'[c] = NoCancel
        /\ \A d \in Caller : d # c => cancelling'[d] = cancelling[d]
    BY <1>1, <2>1
  <2>3. Calling(c)'  BY <2>2 DEF Calling, NoCancel
  <2>4. \A d \in Caller : d # c => Calling(d)'  BY <1>1, <2>1, <2>2, CallingKept
  <2>5. ASSUME NEW f \in Execution, NEW u \in Turn, cancelling'[<<f, u>>].at # "none"
        PROVE  worker'[f][u] = "cancels"
    <3>1. <<f, u>> \in Caller  BY DEF Caller, Worker
    <3>2. <<f, u>> # c /\ worker[f][u] = "cancels"
      BY <1>1, <2>2, <2>5, <3>1 DEF CallingInv, NoCancel
    <3>3. CASE c = Client  BY <2>1, <3>2, <3>3
    <3>4. CASE c # Client
      <4>1. PICK e \in Execution, t \in Turn : c = <<e, t>>  BY <3>4 DEF Caller, Worker
      <4>2. GoTo(e, t, "closes")  BY <2>1, <3>4, <4>1
      <4>. QED  BY <1>1, <3>2, <4>1, <4>2, Going DEF OnlyWorker
    <3>. QED  BY <3>3, <3>4
  <2>. QED  BY <2>3, <2>4, <2>5 DEF CallingInv
<1>28. ASSUME Retry  PROVE CallingInv'
  <2>1. UNCHANGED <<cancelling, worker>> /\ (task = "cancelled" => task' = "cancelled" /\ turn' = turn)
    BY <1>28, <1>1 DEF Retry, Life
  <2>. QED  BY <1>1, <2>1, CallingKept DEF CallingInv
<1>29. ASSUME Cancel  PROVE CallingInv'
  <2>1. /\ UNCHANGED <<turn, worker>> /\ task' = "cancelled"
        /\ \E s : Cancels(Client, s)
    BY <1>29 DEF Cancel, CancelExecutions
  <2>2. Client \in Caller /\ Client \notin Worker
    BY TurnsAssumption DEF TurnsAssumption, Caller
  <2>3. /\ cancelling'[Client].at = "dispatch"
        /\ \A c \in Caller : c # Client => cancelling'[c] = cancelling[c]
    BY <1>1, <2>1, <2>2 DEF Cancels, Calls
  <2>4. Calling(Client)'  BY <2>1, <2>3 DEF Calling
  <2>5. \A c \in Caller : c # Client => Calling(c)'  BY <1>1, <2>1, <2>3, CallingKept
  <2>6. ASSUME NEW f \in Execution, NEW u \in Turn
        PROVE  cancelling'[<<f, u>>] = cancelling[<<f, u>>]
    <3>1. <<f, u>> \in Worker  BY DEF Worker
    <3>. QED  BY <2>2, <2>3, <3>1 DEF Caller
  <2>. QED  BY <1>1, <2>1, <2>4, <2>5, <2>6 DEF CallingInv
<1>30. ASSUME Crash  PROVE CallingInv'
  <2>1. \A c \in Caller : cancelling'[c] = NoCancel  BY <1>30 DEF Crash, Stop
  <2>2. \A f \in Execution, u \in Turn : <<f, u>> \in Caller  BY DEF Caller, Worker
  <2>. QED  BY <2>1, <2>2 DEF CallingInv, Calling, NoCancel
<1>31. ASSUME Exit  PROVE CallingInv'
  <2>1. \A c \in Caller : cancelling'[c] = NoCancel  BY <1>31 DEF Exit, Stop
  <2>2. \A f \in Execution, u \in Turn : <<f, u>> \in Caller  BY DEF Caller, Worker
  <2>. QED  BY <2>1, <2>2 DEF CallingInv, Calling, NoCancel
<1>32. ASSUME NEW e \in Execution, Reattach(e)  PROVE CallingInv'
  <2>1. e \in orphans /\ UNCHANGED <<cancelling, turn, task>> /\ GoTo(e, turn[e], "starts")
    BY <1>32 DEF Reattach
  <2>2. PICK t \in Turn : t = turn[e] /\ worker[e][t] = "none"
    BY <1>1, <2>1, ShapeTypes DEF Life
  <2>. QED  BY <2>1, <2>2, CallingGoes
<1>33. ASSUME NEW e \in Execution, Orphaned(e)  PROVE CallingInv'
  <2>1. UNCHANGED <<cancelling, worker>> /\ (task = "cancelled" => task' = "cancelled" /\ turn' = turn)
    BY <1>33, <1>1 DEF Orphaned, FailTurn, FailExecution, Life
  <2>. QED  BY <1>1, <2>1, CallingKept DEF CallingInv
<1>34. ASSUME UNCHANGED vars  PROVE UNCHANGED <<cancelling, task, turn, worker>>
  BY <1>34 DEF vars
<1>35. CASE UNCHANGED <<cancelling, task, turn, worker>>
  BY <1>35, <1>1, CallingKept DEF CallingInv
<1>. QED
  BY <1>2, <1>3, <1>4, <1>5, <1>6, <1>7, <1>8, <1>9, <1>10, <1>11, <1>12, <1>13, <1>14,
     <1>15, <1>16, <1>17, <1>18, <1>19, <1>20, <1>21, <1>22, <1>23, <1>24, <1>25, <1>26,
     <1>27, <1>28, <1>29, <1>30, <1>31, <1>32, <1>33, <1>34, <1>35
     DEF TurnNext, NodeSteps, AskSteps, TurnSteps, WorkerSteps, CancelSteps, ServerSteps,
         StopSteps, StartSteps


\* A prompt that is left in a cancelled task.
Prompted(e, t) ==
  up /\ task = "cancelled" /\ Pends(e, t) => \E c \in Caller : cancelling[c].at # "none"

LEMMA PromptedKept ==
  ASSUME NEW e \in Execution, NEW t \in Turn, Prompted(e, t),
         up' => up, task' = "cancelled" => task = "cancelled", Pends(e, t)' => Pends(e, t),
         \A c \in Caller : cancelling[c].at # "none" => cancelling'[c].at # "none"
  PROVE  Prompted(e, t)'
BY DEF Prompted

\* A call of cancel that is under way.
LEMMA Cancelling ==
  ASSUME Shape, NEW c \in Caller, NEW s, Cancels(c, s)
  PROVE  /\ cancelling'[c].at = "dispatch" /\ cancelling'[c].targets = s
         /\ \A d \in Caller : d # c => cancelling'[d] = cancelling[d]
BY DEF Shape, CallTypes, Calls, Cancels

LEMMA PromptsStep == TurnInv /\ Moves /\ [TurnNext]_vars => PromptsInv'
<1>. SUFFICES ASSUME TurnInv, Moves, [TurnNext]_vars, NEW f \in Execution, NEW u \in Turn
              PROVE  Prompted(f, u)'
  BY DEF PromptsInv, Prompted
<1>. USE DEF product, adapter, node, watching, asking, backend, bounds, Unlocked
<1>1. /\ Shape /\ cancelling \in [Caller -> Calls]
      /\ approval \in [Execution -> [Turn -> Decisions \cup {"none", "pending"}]]
      /\ Prompted(f, u) /\ Life(f)
  BY DEF TurnInv, PromptsInv, Prompted, LifeInv, Shape, CallTypes, ProductTypes
<1>2. ASSUME NEW e \in Execution,
             Submit(e) \/ Execute(e) \/ WatchWaiting(e) \/ Reattach(e)
      PROVE  UNCHANGED <<up, task, approval, cancelling>>
  BY <1>2 DEF Submit, Execute, WatchWaiting, Reattach
<1>3. ASSUME NEW e \in Execution, NEW t \in Turn,
             ServerAsks(e, t) \/ ServerEnds(e, t) \/ ConnectionLost(e, t) \/
             WorkerHearsEnd(e, t) \/ WorkerLoses(e, t) \/ WorkerHearsAsk(e, t) \/
             WorkerReads(e, t) \/ WorkerWakes(e, t) \/ WorkerAnswers(e, t) \/
             WorkerStarts(e, t) \/ WorkerCompletes(e, t) \/ WorkerLost(e, t) \/
             WorkerFails(e, t) \/ WorkerErrs(e, t) \/ WorkerCloses(e, t)
      PROVE  UNCHANGED <<up, task, approval, cancelling>>
  BY <1>3 DEF ServerAsks, ServerEnds, ConnectionLost, WorkerHearsEnd, WorkerLoses,
     WorkerHearsAsk, WorkerReads, WorkerWakes, WorkerAnswers, WorkerStarts,
     WorkerCompletes, WorkerLost, WorkerFails, WorkerErrs, WorkerCloses, WorkerFrame
<1>4. ASSUME 
             CloseSupervisor
      PROVE  UNCHANGED <<up, task, approval, cancelling>>
  BY <1>4 DEF CloseSupervisor
<1>5. ASSUME NEW e \in Execution, ExecuteFails(e)  PROVE Prompted(f, u)'
  BY <1>5, <1>1, PromptedKept DEF ExecuteFails, FailExecution, Pends
<1>6. ASSUME NEW e \in Execution, NEW t \in Turn, Decide(e, t)  PROVE Prompted(f, u)'
  <2>1. /\ UNCHANGED <<up, task, cancelling>>
        /\ \E d \in Decisions : approval' = [approval EXCEPT ![e][t] = d]
    BY <1>6 DEF Decide
  <2>2. "pending" \notin Decisions  BY DEF Decisions
  <2>3. Pends(f, u)' => Pends(f, u)  BY <1>1, <2>1, <2>2 DEF Pends
  <2>. QED  BY <1>1, <2>1, <2>3, PromptedKept
<1>7. ASSUME NEW e \in Execution, NEW t \in Turn, WorkerCancels(e, t)  PROVE Prompted(f, u)'
  <2>1. /\ UNCHANGED <<up, approval>>
        /\ \/ UNCHANGED <<task, cancelling>>
           \/ \E s : Cancels(<<e, t>>, s)
    BY <1>7 DEF WorkerCancels
  <2>2. <<e, t>> \in Caller  BY DEF Caller, Worker
  <2>3. CASE UNCHANGED <<task, cancelling>>
    BY <1>1, <2>1, <2>3, PromptedKept DEF Pends
  <2>4. CASE \E s : Cancels(<<e, t>>, s)
    BY <1>1, <2>2, <2>4, Cancelling DEF Prompted
  <2>. QED  BY <2>1, <2>3, <2>4
<1>8. ASSUME NEW e \in Execution, NEW t \in Turn, WorkerAsks(e, t)  PROVE Prompted(f, u)'
  <2>1. UNCHANGED <<up, task, cancelling>> /\ (approval' = approval \/ task # "cancelled")
    BY <1>8 DEF WorkerAsks, WorkerFrame
  <2>. QED  BY <1>1, <2>1, PromptedKept DEF Prompted, Pends
<1>9. ASSUME NEW e \in Execution, NEW t \in Turn, WorkerResumes(e, t)  PROVE Prompted(f, u)'
  <2>1. UNCHANGED <<up, approval, cancelling>> /\ (task' = task \/ task' = "failed")
    BY <1>9 DEF WorkerResumes, WorkerFrame
  <2>. QED  BY <1>1, <2>1, PromptedKept DEF Pends
<1>10. ASSUME NEW e \in Execution, NEW t \in Turn, WorkerPersists(e, t)  PROVE Prompted(f, u)'
  BY <1>10, <1>1, PromptedKept DEF WorkerPersists, GoTo, FailTurn, FailExecution, WorkerFrame, Pends
<1>11. ASSUME NEW c \in Caller, Dispatch(c)  PROVE Prompted(f, u)'
  <2>1. UNCHANGED <<up, task, approval>> /\ cancelling[c].at = "dispatch"
    BY <1>11 DEF Dispatch
  <2>2. PICK e \in cancelling[c].targets, ok \in BOOLEAN :
          cancelling' = [cancelling EXCEPT
                           ![c].at = IF ok THEN "accepted" ELSE "refused",
                           ![c].targets = @ \ {e}, ![c].sent = <<e, active[e]>>]
    BY <1>11 DEF Dispatch
  <2>3. /\ cancelling'[c].at # "none"
        /\ \A d \in Caller : d # c => cancelling'[d] = cancelling[d]
    BY <1>1, <2>2 DEF Calls
  <2>. QED  BY <1>1, <2>1, <2>3 DEF Prompted
<1>12. ASSUME NEW c \in Caller, Acknowledged(c)  PROVE Prompted(f, u)'
  <2>1. /\ UNCHANGED <<up, task, approval>>
        /\ cancelling' = [cancelling EXCEPT ![c].at = "records"]
    BY <1>12 DEF Acknowledged
  <2>2. cancelling'[c].at # "none"  BY <1>1, <2>1 DEF Calls
  <2>. QED  BY <2>2 DEF Prompted
<1>13. ASSUME NEW c \in Caller, RecordDispatch(c)  PROVE Prompted(f, u)'
  <2>1. /\ UNCHANGED <<up, task, approval>>
        /\ cancelling' = [cancelling EXCEPT ![c].at = "dispatch", ![c].sent = None]
    BY <1>13 DEF RecordDispatch
  <2>2. cancelling'[c].at # "none"  BY <1>1, <2>1 DEF Calls
  <2>. QED  BY <2>2 DEF Prompted
<1>14. ASSUME NEW c \in Caller, CancelApprovals(c)  PROVE Prompted(f, u)'
  <2>1. Withdraw(Worker) /\ <<f, u>> \in Worker  BY <1>14 DEF CancelApprovals, Worker
  <2>2. ~Pends(f, u)'  BY <2>1, Withdrawing DEF Pends
  <2>. QED  BY <2>2 DEF Prompted
<1>15. ASSUME Retry  PROVE Prompted(f, u)'
  BY <1>15, <1>1, PromptedKept DEF Retry, Pends
<1>16. ASSUME Cancel  PROVE Prompted(f, u)'
  <2>1. \E s : Cancels(Client, s)  BY <1>16 DEF Cancel
  <2>2. Client \in Caller  BY DEF Caller
  <2>. QED  BY <1>1, <2>1, <2>2, Cancelling DEF Prompted
<1>17. ASSUME CloseApprovals  PROVE Prompted(f, u)'
  <2>1. UNCHANGED <<up, task, cancelling>> /\ Withdraw(waiters)
    BY <1>17 DEF CloseApprovals
  <2>2. Pends(f, u)' => Pends(f, u)  BY <2>1, Withdrawing DEF Pends
  <2>. QED  BY <1>1, <2>1, <2>2, PromptedKept
<1>18. ASSUME Crash  PROVE Prompted(f, u)'
  BY <1>18 DEF Crash, Stop, Prompted
<1>19. ASSUME Exit  PROVE Prompted(f, u)'
  BY <1>19 DEF Exit, Stop, Prompted
<1>20. ASSUME Startup  PROVE Prompted(f, u)'
  <2>1. /\ UNCHANGED <<task, exec>>
        /\ Resolve({w \in Worker : exec[w[1]] # "waiting"}, "orphaned")
    BY <1>20 DEF Startup
  <2>2. task = "cancelled" => <<f, u>> \in {w \in Worker : exec[w[1]] # "waiting"}
    BY <1>1 DEF Life, Worker
  <2>3. task = "cancelled" => ~Pends(f, u)'  BY <2>1, <2>2, Resolving DEF Pends
  <2>. QED  BY <2>1, <2>3 DEF Prompted
<1>21. ASSUME NEW e \in Execution, Orphaned(e)  PROVE Prompted(f, u)'
  BY <1>21, <1>1, PromptedKept DEF Orphaned, FailTurn, FailExecution, Pends
<1>22. ASSUME UNCHANGED vars  PROVE UNCHANGED <<up, task, approval, cancelling>>
  BY <1>22 DEF vars
<1>23. CASE UNCHANGED <<up, task, approval, cancelling>>
  BY <1>23, <1>1, PromptedKept DEF Pends
<1>24. ASSUME NEW e \in Execution, Commit(e)  PROVE Prompted(f, u)'
  <2>1. UNCHANGED <<up, approval, cancelling>> /\ task' \in {"waiting", task}
    BY <1>24 DEF Commit
  <2>. QED  BY <1>1, <2>1 DEF Prompted, Pends
<1>. QED
  BY <1>2, <1>3, <1>4, <1>5, <1>6, <1>7, <1>8, <1>9, <1>10, <1>11, <1>12, <1>13, <1>14,
     <1>15, <1>16, <1>17, <1>18, <1>19, <1>20, <1>21, <1>22, <1>23, <1>24
     DEF TurnNext, NodeSteps, AskSteps, TurnSteps, WorkerSteps, CancelSteps, ServerSteps,
         StopSteps, StartSteps


\* A Turn that runs on, while nothing crashed.
Lives(e, t) ==
  crashes = 0 /\ server[e][t] \in Live => <<e, t>> \in failures \/ Current(e, t)

LEMMA LivesKept ==
  ASSUME TurnInv, Moves, NEW e \in Execution, NEW t \in Turn, crashes' = 0 => crashes = 0,
         failures \subseteq failures', ~Begins(e, t),
         Current(e, t) /\ server[e][t] \in Live => Current(e, t)' \/ <<e, t>> \in failures'
  PROVE  Lives(e, t)'
<1>1. Lives(e, t)  BY DEF TurnInv, LiveInv, Lives
<1>2. server'[e][t] \in Live => server[e][t] \in Live
  BY BegunStays DEF Moves, Begun, Live
<1>. QED  BY <1>1, <1>2 DEF Lives

LEMMA LiveStep == TurnInv /\ Moves /\ [TurnNext]_vars => LiveInv'
<1>. SUFFICES ASSUME TurnInv, Moves, [TurnNext]_vars, NEW f \in Execution, NEW u \in Turn
              PROVE  Lives(f, u)'
  BY DEF LiveInv, Lives
<1>. USE DEF product, adapter, node, watching, asking, backend, bounds, Unlocked
<1>1. /\ Shape /\ None \notin Execution /\ None \notin {"waiting", "completed"} \X Turn
      /\ \A e \in Execution : Life(e) /\ Owner(e) /\ Submission(e)
  BY TurnsAssumption DEF TurnInv, LifeInv, OwnerInv, SubmissionInv, TurnsAssumption
<1>2. returned' = returned => ~Begins(f, u)  BY <1>1 DEF Begins
<1>3. ASSUME NEW e \in Execution, WatchWaiting(e) \/ Reattach(e)
      PROVE  UNCHANGED <<crashes, failures, exec, turn, node>>
  BY <1>3 DEF WatchWaiting, Reattach
<1>4. ASSUME NEW e \in Execution, NEW t \in Turn,
             ServerAsks(e, t) \/ ServerEnds(e, t) \/ ConnectionLost(e, t) \/
             Decide(e, t) \/ WorkerHearsEnd(e, t) \/ WorkerLoses(e, t) \/
             WorkerHearsAsk(e, t) \/ WorkerAsks(e, t) \/ WorkerReads(e, t) \/
             WorkerWakes(e, t) \/ WorkerAnswers(e, t) \/ WorkerStarts(e, t) \/
             WorkerResumes(e, t) \/ WorkerLost(e, t) \/ WorkerFails(e, t) \/
             WorkerErrs(e, t) \/ WorkerCloses(e, t)
      PROVE  UNCHANGED <<crashes, failures, exec, turn, node>>
  BY <1>4 DEF ServerAsks, ServerEnds, ConnectionLost, Decide, WorkerHearsEnd, WorkerLoses,
     WorkerHearsAsk, WorkerAsks, WorkerReads, WorkerWakes, WorkerAnswers, WorkerStarts,
     WorkerResumes, WorkerLost, WorkerFails, WorkerErrs, WorkerCloses, WorkerFrame
<1>5. ASSUME NEW c \in Caller,
             Dispatch(c) \/ Acknowledged(c) \/ RecordDispatch(c) \/ CancelApprovals(c)
      PROVE  UNCHANGED <<crashes, failures, exec, turn, node>>
  BY <1>5 DEF Dispatch, Acknowledged, RecordDispatch, CancelApprovals, CancelEnds
<1>6. ASSUME CloseApprovals \/ CloseSupervisor \/ Startup
      PROVE  UNCHANGED <<crashes, failures, exec, turn, node>>
  BY <1>6 DEF CloseApprovals, CloseSupervisor, Startup
<1>7. ASSUME NEW e \in Execution, Submit(e)  PROVE Lives(f, u)'
  <2>1. /\ UNCHANGED <<crashes, failures, turn, returned>> /\ submitting = None
        /\ exec[e] \in {"submitted", "running"} /\ exec' = [exec EXCEPT ![e] = "running"]
    BY <1>7 DEF Submit
  <2>2. Current(f, u) => Current(f, u)'  BY <1>1, <2>1, ShapeTypes DEF Current
  <2>. QED  BY <1>1, <1>2, <2>1, <2>2, LivesKept
<1>8. ASSUME NEW e \in Execution, Execute(e)  PROVE Lives(f, u)'
  <2>1. UNCHANGED <<crashes, failures, turn, exec, submitting>> /\ returned = None
    BY <1>8 DEF Execute
  <2>2. CASE Begins(f, u)
    <3>1. submitting' = f /\ returned' = <<"waiting", u>> /\ returned' # None
      BY <1>1, <2>1, <2>2 DEF Begins
    <3>. QED  BY <3>1 DEF Lives, Current
  <2>3. CASE ~Begins(f, u)
    <3>1. Current(f, u) => Current(f, u)'  BY <2>1 DEF Current
    <3>. QED  BY <1>1, <2>1, <2>3, <3>1, LivesKept
  <2>. QED  BY <2>2, <2>3
<1>9. ASSUME NEW e \in Execution, ExecuteFails(e)  PROVE Lives(f, u)'
  <2>1. /\ UNCHANGED <<crashes, failures, turn, returned>> /\ submitting = e /\ returned = None
        /\ exec' = [exec EXCEPT ![e] = "failed"]
    BY <1>9 DEF ExecuteFails, FailExecution
  <2>2. exec[e] = "running"  BY <1>1, <2>1 DEF Life
  <2>3. Current(f, u) => Current(f, u)'  BY <1>1, <2>1, <2>2, ShapeTypes DEF Current
  <2>. QED  BY <1>1, <1>2, <2>1, <2>3, LivesKept
<1>10. ASSUME NEW e \in Execution, Commit(e)  PROVE Lives(f, u)'
  <2>1. /\ UNCHANGED <<crashes, failures>> /\ submitting = e /\ returned # None
        /\ returned' = None
        /\ exec' = [exec EXCEPT ![e] = returned[1]] /\ turn' = [turn EXCEPT ![e] = returned[2]]
    BY <1>10 DEF Commit
  <2>2. exec[e] = "running" /\ Submission(e)  BY <1>1, <2>1 DEF Life
  <2>3. ~Begins(f, u)  BY <2>1 DEF Begins
  <2>4. CASE f = e
    <3>1. exec'[e] = returned[1] /\ turn'[e] = returned[2]  BY <1>1, <2>1, ShapeTypes
    <3>2. Current(f, u) => returned[2] = u  BY <2>2, <2>4 DEF Current
    <3>3. returned[1] = "waiting" \/ server[e][returned[2]] = "completed"
      BY <2>1, <2>2 DEF Submission
    <3>4. Current(f, u) /\ server[f][u] \in Live => Current(f, u)'
      BY <2>4, <3>1, <3>2, <3>3 DEF Current, Live
    <3>. QED  BY <2>1, <2>3, <3>4, LivesKept
  <2>5. CASE f # e
    <3>1. exec'[f] = exec[f] /\ turn'[f] = turn[f]  BY <1>1, <2>1, <2>5, ShapeTypes
    <3>2. Current(f, u) => Current(f, u)'  BY <2>1, <2>5, <3>1 DEF Current
    <3>. QED  BY <2>1, <2>3, <3>2, LivesKept
  <2>. QED  BY <2>4, <2>5
<1>11. ASSUME Retry  PROVE Lives(f, u)'
  <2>1. /\ UNCHANGED <<crashes, failures, returned>> /\ submitting = None /\ task = "failed"
        /\ exec[f] # "failed" /\ f \notin refused => exec'[f] = exec[f] /\ turn'[f] = turn[f]
    BY <1>11 DEF Retry
  <2>2. Current(f, u) => Current(f, u)'  BY <1>1, <2>1 DEF Current, Life
  <2>. QED  BY <1>2, <2>1, <2>2, LivesKept
<1>12. ASSUME NEW e \in Execution, NEW t \in Turn, WorkerCompletes(e, t)  PROVE Lives(f, u)'
  <2>1. /\ UNCHANGED <<crashes, failures, turn, node>> /\ worker[e][t] = "completes"
        /\ exec' = exec \/ exec' = [exec EXCEPT ![e] = "completed"]
    BY <1>12 DEF WorkerCompletes, WorkerFrame
  <2>2. turn[e] = t /\ server[e][t] = "completed"
    BY <1>1, <2>1 DEF Owner, Reporting, TurnInv, QueueInv, Queue
  <2>3. Current(f, u) /\ server[f][u] \in Live => Current(f, u)'
    BY <1>1, <2>1, <2>2, ShapeTypes DEF Current, Live
  <2>. QED  BY <1>2, <2>1, <2>3, LivesKept
<1>13. ASSUME NEW e \in Execution, NEW t \in Turn, WorkerPersists(e, t)  PROVE Lives(f, u)'
  <2>1. UNCHANGED <<crashes, turn, node>> /\ worker[e][t] = "persists" /\ submitting = None
        /\ FailTurn(e, t)
    BY <1>13 DEF WorkerPersists, WorkerFrame
  <2>2. turn[e] = t  BY <1>1, <2>1 DEF Owner, Reporting
  <2>3. failures \subseteq failures'  BY <2>1 DEF FailTurn
  <2>4. Current(f, u) => Current(f, u)' \/ <<f, u>> \in failures'
    BY <1>1, <2>1, <2>2, ShapeTypes DEF Current, FailTurn, FailExecution
  <2>. QED  BY <1>2, <2>1, <2>3, <2>4, LivesKept
<1>14. ASSUME NEW e \in Execution, NEW t \in Turn, WorkerCancels(e, t)  PROVE Lives(f, u)'
  <2>1. UNCHANGED <<crashes, failures, turn, node>> /\ (exec' = exec \/ CancelExecutions({e}))
    BY <1>14 DEF WorkerCancels
  <2>2. Current(f, u) => Current(f, u)'  BY <2>1 DEF CancelExecutions, Current
  <2>. QED  BY <1>2, <2>1, <2>2, LivesKept
<1>15. ASSUME Cancel  PROVE Lives(f, u)'
  <2>1. UNCHANGED <<crashes, failures, turn, node>> /\ CancelExecutions({})
    BY <1>15 DEF Cancel
  <2>2. Current(f, u) => Current(f, u)'  BY <2>1 DEF CancelExecutions, Current
  <2>. QED  BY <1>2, <2>1, <2>2, LivesKept
<1>16. ASSUME Crash \/ Exit  PROVE Lives(f, u)'
  <2>1. crashes' = crashes + 1  BY <1>16 DEF Crash, Exit, Stop
  <2>2. crashes' # 0  BY <1>1, <2>1, TurnsAssumption DEF Shape, BackendTypes, TurnsAssumption
  <2>. QED  BY <2>2 DEF Lives
<1>17. ASSUME NEW e \in Execution, Orphaned(e)  PROVE Lives(f, u)'
  <2>1. UNCHANGED <<crashes, turn, node>> /\ submitting = None /\ FailTurn(e, turn[e])
    BY <1>17 DEF Orphaned
  <2>2. failures \subseteq failures'  BY <2>1 DEF FailTurn
  <2>3. Current(f, u) => Current(f, u)' \/ <<f, u>> \in failures'
    BY <1>1, <2>1, ShapeTypes DEF Current, FailTurn, FailExecution
  <2>. QED  BY <1>2, <2>1, <2>2, <2>3, LivesKept
<1>18. ASSUME UNCHANGED vars  PROVE UNCHANGED <<crashes, failures, exec, turn, node>>
  BY <1>18 DEF vars
<1>19. CASE UNCHANGED <<crashes, failures, exec, turn, node>>
  <2>1. Current(f, u) => Current(f, u)'  BY <1>19 DEF Current
  <2>. QED  BY <1>2, <1>19, <2>1, LivesKept
<1>. QED
  BY <1>3, <1>4, <1>5, <1>6, <1>7, <1>8, <1>9, <1>10, <1>11, <1>12, <1>13, <1>14, <1>15,
     <1>16, <1>17, <1>18, <1>19
     DEF TurnNext, NodeSteps, AskSteps, TurnSteps, WorkerSteps, CancelSteps, ServerSteps,
         StopSteps, StartSteps

\* What runs on after the cancellation of its task, while nothing crashed.
Uncovered(e, t) == crashes = 0 /\ task = "cancelled" /\ server[e][t] \in Live
Cover(e, t) == Uncovered(e, t) => <<e, t>> \in failures \/ Covered(e)

LEMMA CoverKept ==
  ASSUME TurnInv, Moves, NEW e \in Execution, NEW t \in Turn, Cover(e, t),
         crashes' = 0 => crashes = 0, task' = "cancelled" => task = "cancelled",
         failures \subseteq failures', Covered(e) => Covered(e)'
  PROVE  Cover(e, t)'
<1>1. task = "cancelled" => ~Begins(e, t)
  BY DEF TurnInv, LifeInv, Life, Begins
<1>2. task = "cancelled" /\ server'[e][t] \in Live => server[e][t] \in Live
  BY <1>1, BegunStays DEF Moves, Begun, Live
<1>3. Uncovered(e, t)' => Uncovered(e, t)  BY <1>2 DEF Uncovered
<1>. QED  BY <1>3 DEF Cover

\* What a cancellation finds running on is what an execution waits for, or failed.
LEMMA LiveIsOfTurn ==
  ASSUME TurnInv, NEW e \in Execution, NEW t \in Turn, submitting = None \/ task = "cancelled",
         crashes = 0, server[e][t] \in Live, <<e, t>> \notin failures
  PROVE  turn[e] = t /\ exec[e] \in {"waiting", "cancelled"}
<1>1. submitting # e
  BY TurnsAssumption DEF TurnInv, LifeInv, Life, TurnsAssumption
<1>. QED  BY <1>1 DEF TurnInv, LiveInv, Current

LEMMA CoverStep == TurnInv /\ Moves /\ [TurnNext]_vars => CoverInv'
<1>. SUFFICES ASSUME TurnInv, Moves, [TurnNext]_vars, NEW f \in Execution, NEW u \in Turn
              PROVE  Cover(f, u)'
  BY DEF CoverInv, Cover, Uncovered
<1>. USE DEF product, adapter, node, watching, asking, backend, bounds, Unlocked
<1>1. /\ Shape /\ cancelling \in [Caller -> Calls] /\ Cover(f, u)
      /\ \A e \in Execution : Life(e) /\ Owner(e)
      /\ \A c \in Caller : Calling(c)
  BY DEF TurnInv, CoverInv, Cover, Uncovered, LifeInv, OwnerInv, CallingInv, Shape, CallTypes
<1>2. ASSUME NEW e \in Execution,
             Submit(e) \/ Execute(e) \/ WatchWaiting(e) \/ Reattach(e)
      PROVE  UNCHANGED <<crashes, failures, task, unconfirmed, cancelling>>
  BY <1>2 DEF Submit, Execute, WatchWaiting, Reattach
<1>3. ASSUME NEW e \in Execution, NEW t \in Turn,
             ServerAsks(e, t) \/ ServerEnds(e, t) \/ ConnectionLost(e, t) \/
             Decide(e, t) \/ WorkerHearsEnd(e, t) \/ WorkerLoses(e, t) \/
             WorkerHearsAsk(e, t) \/ WorkerAsks(e, t) \/ WorkerReads(e, t) \/
             WorkerWakes(e, t) \/ WorkerAnswers(e, t) \/ WorkerStarts(e, t) \/
             WorkerCompletes(e, t) \/ WorkerLost(e, t) \/ WorkerFails(e, t) \/
             WorkerErrs(e, t) \/ WorkerCloses(e, t)
      PROVE  UNCHANGED <<crashes, failures, task, unconfirmed, cancelling>>
  BY <1>3 DEF ServerAsks, ServerEnds, ConnectionLost, Decide, WorkerHearsEnd, WorkerLoses,
     WorkerHearsAsk, WorkerAsks, WorkerReads, WorkerWakes, WorkerAnswers, WorkerStarts,
     WorkerCompletes, WorkerLost, WorkerFails, WorkerErrs, WorkerCloses, WorkerFrame
<1>4. ASSUME 
             CloseApprovals \/ CloseSupervisor \/ Startup
      PROVE  UNCHANGED <<crashes, failures, task, unconfirmed, cancelling>>
  BY <1>4 DEF CloseApprovals, CloseSupervisor, Startup
<1>5. ASSUME NEW e \in Execution, ExecuteFails(e)  PROVE Cover(f, u)'
  BY <1>5, <1>1 DEF ExecuteFails, FailExecution, Cover, Uncovered
<1>6. ASSUME NEW e \in Execution, Commit(e)  PROVE Cover(f, u)'
  <2>1. submitting = e /\ task' \in {"waiting", task}  BY <1>6 DEF Commit
  <2>2. task # "cancelled"  BY <1>1, <2>1 DEF Life
  <2>. QED  BY <2>1, <2>2 DEF Cover, Uncovered
<1>7. ASSUME NEW e \in Execution, NEW t \in Turn, WorkerCancels(e, t)  PROVE Cover(f, u)'
  <2>1. UNCHANGED <<crashes, failures, server>> /\ cancelling[<<e, t>>].at = "none"
        /\ worker[e][t] = "cancels"
    BY <1>7 DEF WorkerCancels
  <2>2. <<e, t>> \in Caller /\ cancelling[<<e, t>>].targets = {}
    BY <1>1, <2>1 DEF Caller, Worker, Calling
  <2>3. CASE task # "failed" /\ Unlocked /\ CancelExecutions({e}) /\ Cancels(<<e, t>>, Interrupted({e}))
    <3>1. CASE f = e
      <4>1. turn[f] = t  BY <1>1, <2>1, <3>1 DEF Owner, Reporting
      <4>2. server[f][t] = "interrupted"  BY <2>1, <3>1 DEF TurnInv, QueueInv, Queue
      <4>. QED  BY <2>1, <2>3, <4>1, <4>2, LiveIsOfTurn DEF Cover, Uncovered, Live
    <3>2. CASE f # e /\ task = "cancelled"
      <4>1. unconfirmed' = unconfirmed \ {e} /\ Cancels(<<e, t>>, {})
        BY <2>3, <3>2 DEF CancelExecutions, Interrupted
      <4>2. \A c \in Caller : c # <<e, t>> => cancelling'[c] = cancelling[c]
        BY <1>1, <2>2, <4>1, Cancelling
      <4>3. Covered(f) => Covered(f)'  BY <2>1, <2>2, <3>2, <4>1, <4>2 DEF Covered
      <4>. QED  BY <1>1, <2>1, <3>2, <4>3, CoverKept
    <3>3. CASE f # e /\ task = "waiting"
      <4>1. Uncovered(f, u)' => <<f, u>> \in failures \/ f \in Interrupted({e})
        BY <1>1, <2>1, <2>3, <3>3, LiveIsOfTurn DEF Uncovered, Interrupted, Life
      <4>2. cancelling'[<<e, t>>].targets = Interrupted({e})
        BY <1>1, <2>2, <2>3, Cancelling
      <4>. QED  BY <2>1, <2>2, <4>1, <4>2 DEF Cover, Covered
    <3>. QED  BY <1>1, <2>3, <3>1, <3>2, <3>3, ShapeTypes
  <2>4. CASE UNCHANGED <<task, unconfirmed, cancelling>>
    BY <1>1, <2>1, <2>4, CoverKept DEF Covered
  <2>5. CASE task = "failed" /\ task' = task  BY <2>5 DEF Cover, Uncovered
  <2>. QED  BY <1>7, <2>3, <2>4, <2>5 DEF WorkerCancels
<1>8. ASSUME NEW e \in Execution, NEW t \in Turn, WorkerResumes(e, t)  PROVE Cover(f, u)'
  <2>1. UNCHANGED <<crashes, failures, unconfirmed, cancelling>> /\ (task' = task \/ task' = "failed")
    BY <1>8 DEF WorkerResumes, WorkerFrame
  <2>. QED  BY <1>1, <2>1, CoverKept DEF Covered
<1>9. ASSUME NEW e \in Execution, NEW t \in Turn, WorkerPersists(e, t)  PROVE Cover(f, u)'
  BY <1>9, <1>1, CoverKept DEF WorkerPersists, GoTo, FailTurn, FailExecution, WorkerFrame, Covered
<1>10. ASSUME NEW c \in Caller, Dispatch(c)  PROVE Cover(f, u)'
  <2>1. UNCHANGED <<crashes, failures, task, unconfirmed>> /\ cancelling[c].at = "dispatch"
    BY <1>10 DEF Dispatch
  <2>2. PICK e \in cancelling[c].targets, ok \in BOOLEAN :
          /\ cancelling' = [cancelling EXCEPT
                              ![c].at = IF ok THEN "accepted" ELSE "refused",
                              ![c].targets = @ \ {e}, ![c].sent = <<e, active[e]>>]
          /\ ok => active[e] # 0 /\ server' = [server EXCEPT ![e][active[e]] = "interrupted"]
    BY <1>10 DEF Dispatch
  <2>3. e \in Execution /\ active[e] \in 0..MaxTurns  BY <1>1, ShapeTypes DEF Calls
  <2>4. /\ cancelling'[c].at = IF ok THEN "accepted" ELSE "refused"
        /\ cancelling'[c].sent = <<e, active[e]>>
        /\ cancelling'[c].targets = cancelling[c].targets \ {e}
        /\ \A d \in Caller : d # c => cancelling'[d] = cancelling[d]
    BY <1>1, <2>2, <2>3 DEF Calls
  <2>5. CASE f = e /\ ok
    <3>1. active[e] # 0 /\ server'[e][active[e]] = "interrupted"
      BY <1>1, <2>2, <2>3, <2>5, TurnNumbers DEF Shape, AdapterTypes
    <3>2. turn[e] \in {0, active[e]}  BY <1>1, <2>3, <3>1 DEF Owner
    <3>3. task = "cancelled"  BY <1>1, <2>2 DEF Calling
    <3>4. server'[f][u] \in Live => server[f][u] \in Live /\ u # active[e]
      BY <1>1, <2>2, <2>3, <2>5, <3>1, TurnNumbers DEF Live, Shape, AdapterTypes
    <3>. QED
      BY <2>1, <2>5, <3>2, <3>3, <3>4, LiveIsOfTurn, TurnNumbers DEF Cover, Uncovered
  <2>6. CASE f = e /\ ~ok  BY <2>4, <2>6 DEF Cover, Covered
  <2>7. CASE f # e
    <3>1. Covered(f) => Covered(f)'  BY <2>1, <2>4, <2>7 DEF Covered
    <3>. QED  BY <1>1, <2>1, <3>1, CoverKept
  <2>. QED  BY <2>5, <2>6, <2>7
<1>11. ASSUME NEW c \in Caller, Acknowledged(c)  PROVE Cover(f, u)'
  <2>1. /\ UNCHANGED <<crashes, failures, task, unconfirmed>> /\ cancelling[c].at = "accepted"
        /\ cancelling' = [cancelling EXCEPT ![c].at = "records"]
    BY <1>11 DEF Acknowledged
  <2>2. /\ cancelling'[c].targets = cancelling[c].targets
        /\ \A d \in Caller : d # c => cancelling'[d] = cancelling[d]
    BY <1>1, <2>1 DEF Calls
  <2>3. Covered(f) => Covered(f)'  BY <2>1, <2>2 DEF Covered
  <2>. QED  BY <1>1, <2>1, <2>3, CoverKept
<1>12. ASSUME NEW c \in Caller, RecordDispatch(c)  PROVE Cover(f, u)'
  <2>. DEFINE e == cancelling[c].sent[1]
  <2>1. /\ UNCHANGED <<crashes, failures, task, server>>
        /\ cancelling[c].at \in {"refused", "records"}
        /\ cancelling' = [cancelling EXCEPT ![c].at = "dispatch", ![c].sent = None]
        /\ unconfirmed' = IF cancelling[c].at = "refused"
                          THEN unconfirmed \cup {e} ELSE unconfirmed \ {e}
    BY <1>12 DEF RecordDispatch
  <2>2. /\ cancelling'[c].targets = cancelling[c].targets
        /\ \A d \in Caller : d # c => cancelling'[d] = cancelling[d]
    BY <1>1, <2>1 DEF Calls
  <2>3. CASE f = e /\ cancelling[c].at = "records"
    <3>1. turn[f] # 0 => server[f][turn[f]] = "interrupted"
      BY <1>1, <2>3 DEF Calling
    <3>. QED  BY <2>1, <3>1, LiveIsOfTurn, TurnNumbers DEF Cover, Uncovered, Live
  <2>4. CASE f # e \/ cancelling[c].at = "refused"
    <3>1. Covered(f) => Covered(f)'  BY <2>1, <2>2, <2>4 DEF Covered
    <3>. QED  BY <1>1, <2>1, <3>1, CoverKept
  <2>. QED  BY <2>1, <2>3, <2>4
<1>13. ASSUME NEW c \in Caller, CancelApprovals(c)  PROVE Cover(f, u)'
  <2>1. /\ UNCHANGED <<crashes, failures, task, unconfirmed>>
        /\ cancelling[c].at = "dispatch" /\ cancelling[c].targets = {}
        /\ cancelling' = [cancelling EXCEPT ![c] = NoCancel]
    BY <1>13 DEF CancelApprovals, CancelEnds
  <2>2. \A d \in Caller : d # c => cancelling'[d] = cancelling[d]  BY <1>1, <2>1
  <2>3. Covered(f) => Covered(f)'  BY <2>1, <2>2 DEF Covered
  <2>. QED  BY <1>1, <2>1, <2>3, CoverKept
<1>14. ASSUME Retry  PROVE Cover(f, u)'
  BY <1>14 DEF Retry, Cover, Uncovered
<1>15. ASSUME Cancel  PROVE Cover(f, u)'
  <2>1. /\ UNCHANGED <<crashes, failures, server>> /\ cancelling[Client].at = "none"
        /\ submitting = None /\ task # "failed" /\ unconfirmed' = unconfirmed \ {}
        /\ Cancels(Client, IF task = "cancelled" THEN unconfirmed ELSE Interrupted({}))
    BY <1>15 DEF Cancel, CancelExecutions
  <2>2. Client \in Caller /\ cancelling[Client].targets = {}
    BY <1>1, <2>1 DEF Caller, Calling
  <2>3. CASE task = "cancelled"
    <3>1. Cancels(Client, unconfirmed)  BY <2>1, <2>3
    <3>2. \A c \in Caller : c # Client => cancelling'[c] = cancelling[c]
      BY <1>1, <2>2, <3>1, Cancelling
    <3>3. Covered(f) => Covered(f)'  BY <2>1, <2>2, <3>2 DEF Covered
    <3>. QED  BY <1>1, <2>1, <2>3, <3>3, CoverKept
  <2>4. CASE task = "waiting"
    <3>1. Uncovered(f, u)' => <<f, u>> \in failures \/ f \in Interrupted({})
      BY <1>1, <2>1, <2>4, LiveIsOfTurn DEF Uncovered, Interrupted, Life
    <3>2. Cancels(Client, Interrupted({}))  BY <2>1, <2>4
    <3>3. cancelling'[Client].targets = Interrupted({})  BY <1>1, <2>2, <3>2, Cancelling
    <3>. QED  BY <2>1, <2>2, <3>1, <3>3 DEF Cover, Covered
  <2>. QED  BY <1>1, <2>1, <2>3, <2>4, ShapeTypes
<1>16. ASSUME Crash  PROVE Cover(f, u)'
  <2>1. crashes' = crashes + 1  BY <1>16 DEF Crash, Stop
  <2>2. crashes' # 0  BY <1>1, <2>1, TurnsAssumption DEF Shape, BackendTypes, TurnsAssumption
  <2>. QED  BY <2>2 DEF Cover, Uncovered
<1>17. ASSUME Exit  PROVE Cover(f, u)'
  <2>1. crashes' = crashes + 1  BY <1>17 DEF Exit, Stop
  <2>2. crashes' # 0  BY <1>1, <2>1, TurnsAssumption DEF Shape, BackendTypes, TurnsAssumption
  <2>. QED  BY <2>2 DEF Cover, Uncovered
<1>18. ASSUME NEW e \in Execution, Orphaned(e)  PROVE Cover(f, u)'
  BY <1>18, <1>1, CoverKept DEF Orphaned, FailTurn, FailExecution, Covered
<1>19. ASSUME UNCHANGED vars  PROVE UNCHANGED <<crashes, failures, task, unconfirmed, cancelling>>
  BY <1>19 DEF vars
<1>20. CASE UNCHANGED <<crashes, failures, task, unconfirmed, cancelling>>
  BY <1>20, <1>1, CoverKept DEF Covered
<1>. QED
  BY <1>2, <1>3, <1>4, <1>5, <1>6, <1>7, <1>8, <1>9, <1>10, <1>11, <1>12, <1>13, <1>14,
     <1>15, <1>16, <1>17, <1>18, <1>19, <1>20
     DEF TurnNext, NodeSteps, AskSteps, TurnSteps, WorkerSteps, CancelSteps, ServerSteps,
         StopSteps, StartSteps


\* Nothing changed for an execution but the state of its task.
LEMMA FreshKept ==
  ASSUME NEW e \in Execution, Fresh(e), turn'[e] = turn[e], spent'[e] = spent[e],
         active'[e] \in {0, active[e]},
         exec'[e] \in {"submitted", "running"} => exec[e] \in {"submitted", "running"},
         returned' # None /\ submitting' = e => returned' = returned /\ submitting = e
  PROVE  Fresh(e)'
BY DEF Fresh

LEMMA FreshStep == TurnInv /\ Moves /\ [TurnNext]_vars => FreshInv'
<1>. SUFFICES ASSUME TurnInv, Moves, [TurnNext]_vars, ~Refusals, NEW f \in Execution
              PROVE  Fresh(f)'
  BY DEF FreshInv
<1>. USE DEF product, adapter, node, watching, asking, backend, bounds, Unlocked
<1>1. /\ Shape /\ BegunInv /\ Fresh(f) /\ Life(f) /\ Submission(f) /\ Owner(f)
      /\ turn \in [Execution -> 0..MaxTurns] /\ spent \in [Execution -> 0..MaxTurns]
      /\ exec \in [Execution -> {"submitted", "running", "waiting", "completed",
                                 "failed", "cancelled"}]
      /\ active \in [Execution -> 0..MaxTurns]
      /\ submitting \in Execution \cup {None}
      /\ f # None
  BY ShapeTypes, TurnsAssumption
     DEF TurnInv, FreshInv, LifeInv, SubmissionInv, OwnerInv, TurnsAssumption
<1>2. ASSUME NEW e \in Execution,
             WatchWaiting(e)
      PROVE  UNCHANGED <<turn, spent, exec, active, submitting, returned>>
  BY <1>2 DEF WatchWaiting
<1>3. ASSUME NEW e \in Execution, NEW t \in Turn,
             ServerAsks(e, t) \/ ServerEnds(e, t) \/ ConnectionLost(e, t) \/
             Decide(e, t) \/ WorkerHearsEnd(e, t) \/ WorkerLoses(e, t) \/
             WorkerHearsAsk(e, t) \/ WorkerAsks(e, t) \/ WorkerReads(e, t) \/
             WorkerWakes(e, t) \/ WorkerAnswers(e, t) \/ WorkerStarts(e, t) \/
             WorkerResumes(e, t) \/ WorkerLost(e, t) \/ WorkerErrs(e, t)
      PROVE  UNCHANGED <<turn, spent, exec, active, submitting, returned>>
  BY <1>3 DEF ServerAsks, ServerEnds, ConnectionLost, Decide, WorkerHearsEnd, WorkerLoses,
     WorkerHearsAsk, WorkerAsks, WorkerReads, WorkerWakes, WorkerAnswers, WorkerStarts,
     WorkerResumes, WorkerLost, WorkerErrs, WorkerFrame
<1>4. ASSUME NEW c \in Caller,
             Dispatch(c) \/ Acknowledged(c) \/ RecordDispatch(c) \/ CancelApprovals(c)
      PROVE  UNCHANGED <<turn, spent, exec, active, submitting, returned>>
  BY <1>4 DEF Dispatch, Acknowledged, RecordDispatch, CancelApprovals, CancelEnds
<1>5. ASSUME 
             CloseApprovals \/ Startup
      PROVE  UNCHANGED <<turn, spent, exec, active, submitting, returned>>
  BY <1>5 DEF CloseApprovals, Startup
<1>6. ASSUME NEW e \in Execution, Submit(e)  PROVE Fresh(f)'
  <2>1. /\ UNCHANGED <<turn, spent, active, returned>> /\ submitting = None
        /\ exec[e] \in {"submitted", "running"} /\ exec' = [exec EXCEPT ![e] = "running"]
    BY <1>6 DEF Submit
  <2>2. returned' = None  BY <1>1, <2>1, ShapeTypes
  <2>3. exec'[f] \in {"submitted", "running"} => exec[f] \in {"submitted", "running"}
    BY <1>1, <2>1
  <2>. QED  BY <1>1, <2>1, <2>2, <2>3, FreshKept
<1>7. ASSUME NEW e \in Execution, Execute(e)  PROVE Fresh(f)'
  <2>1. UNCHANGED <<turn, spent, exec, submitting>> /\ submitting = e
    BY <1>7 DEF Execute
  <2>2. CASE f # e
    <3>1. active'[f] = active[f]  BY <1>1, <1>7, <2>2 DEF Execute
    <3>. QED  BY <1>1, <2>1, <2>2, <3>1, FreshKept
  <2>3. CASE f = e /\ active[e] # 0
    <3>1. active' = active /\ returned'[2] = active[e]  BY <1>7, <2>3 DEF Execute
    <3>2. exec[f] = "running"  BY <1>1, <2>1, <2>3 DEF Life
    <3>. QED  BY <1>1, <2>1, <2>3, <3>1, <3>2 DEF Fresh
  <2>4. CASE f = e /\ active[e] = 0
    <3>1. PICK t : /\ t = Started(e) + 1 /\ Started(e) < MaxTurns
                   /\ active' = [active EXCEPT ![e] = t] /\ returned' = <<"waiting", t>>
      BY <1>7, <2>4 DEF Execute
    <3>2. t \in Turn /\ \A u \in Turn : Begun(f, u) <=> u < t
      BY <1>1, <2>4, <3>1, NextTurnIsNew
    <3>3. spent[f] # 0 => spent[f] \in Turn /\ Begun(f, spent[f])
      BY <1>1, TurnNumbers DEF BegunInv
    <3>4. spent[f] < t  BY <1>1, <3>2, <3>3, TurnNumbers
    <3>5. exec[f] = "running" /\ turn[f] = 0  BY <1>1, <2>1, <2>4 DEF Life
    <3>6. active'[f] = t /\ returned'[2] = t  BY <1>1, <2>4, <3>1
    <3>. QED  BY <2>1, <3>4, <3>5, <3>6 DEF Fresh
  <2>. QED  BY <2>2, <2>3, <2>4
<1>8. ASSUME NEW e \in Execution, ExecuteFails(e)  PROVE Fresh(f)'
  <2>1. /\ UNCHANGED <<turn, spent, active, returned>> /\ submitting' = None
        /\ exec' = [exec EXCEPT ![e] = "failed"]
    BY <1>8 DEF ExecuteFails, FailExecution
  <2>2. exec'[f] \in {exec[f], "failed"}  BY <1>1, <2>1
  <2>. QED  BY <1>1, <2>1, <2>2, FreshKept
<1>9. ASSUME NEW e \in Execution, Commit(e)  PROVE Fresh(f)'
  <2>1. /\ UNCHANGED <<spent, active>> /\ submitting' = None /\ submitting = e
        /\ returned # None /\ returned[1] \in {"waiting", "completed"}
        /\ exec' = [exec EXCEPT ![e] = returned[1]]
        /\ turn' = [turn EXCEPT ![e] = returned[2]]
    BY <1>1, <1>9, ShapeTypes DEF Commit
  <2>2. CASE f # e  BY <1>1, <2>1, <2>2 DEF Fresh
  <2>3. CASE f = e  BY <1>1, <2>1, <2>3 DEF Fresh
  <2>. QED  BY <2>2, <2>3
<1>10. ASSUME NEW e \in Execution, NEW t \in Turn, WorkerCancels(e, t)  PROVE Fresh(f)'
  <2>1. /\ UNCHANGED <<turn, spent, active, submitting, returned>>
        /\ exec' = exec \/ CancelExecutions({e})
    BY <1>10 DEF WorkerCancels
  <2>2. exec'[f] \in {exec[f], "completed", "cancelled"}  BY <1>1, <2>1 DEF CancelExecutions
  <2>. QED  BY <1>1, <2>1, <2>2, FreshKept
<1>11. ASSUME NEW e \in Execution, NEW t \in Turn, WorkerCompletes(e, t)  PROVE Fresh(f)'
  <2>1. /\ UNCHANGED <<turn, spent, active, submitting, returned>>
        /\ exec' = exec \/ exec' = [exec EXCEPT ![e] = "completed"]
    BY <1>11 DEF WorkerCompletes, WorkerFrame
  <2>2. exec'[f] \in {exec[f], "completed"}  BY <1>1, <2>1
  <2>. QED  BY <1>1, <2>1, <2>2, FreshKept
<1>12. ASSUME NEW e \in Execution, NEW t \in Turn, WorkerFails(e, t)  PROVE Fresh(f)'
  <2>1. /\ UNCHANGED <<turn, spent, exec, submitting, returned>>
        /\ active' = active \/ active' = [active EXCEPT ![e] = 0]
    BY <1>12 DEF WorkerFails, WorkerFrame, CloseExecution
  <2>2. active'[f] \in {0, active[f]}  BY <1>1, <2>1
  <2>. QED  BY <1>1, <2>1, <2>2, FreshKept
<1>13. ASSUME NEW e \in Execution, NEW t \in Turn, WorkerPersists(e, t)  PROVE Fresh(f)'
  <2>1. /\ UNCHANGED <<turn, spent, active, submitting, returned>>
        /\ exec' = exec \/ exec' = [exec EXCEPT ![e] = "failed"]
    BY <1>13 DEF WorkerPersists, WorkerFrame, FailTurn, FailExecution
  <2>2. exec'[f] \in {exec[f], "failed"}  BY <1>1, <2>1
  <2>. QED  BY <1>1, <2>1, <2>2, FreshKept
<1>14. ASSUME NEW e \in Execution, NEW t \in Turn, WorkerCloses(e, t)  PROVE Fresh(f)'
  <2>1. /\ UNCHANGED <<turn, spent, exec, submitting, returned>>
        /\ active' = active \/ active' = [active EXCEPT ![e] = 0]
    BY <1>14 DEF WorkerCloses, WorkerFrame, CloseExecution
  <2>2. active'[f] \in {0, active[f]}  BY <1>1, <2>1
  <2>. QED  BY <1>1, <2>1, <2>2, FreshKept
<1>15. ASSUME Retry  PROVE Fresh(f)'
  <2>. DEFINE again == {e \in Execution : exec[e] = "failed"} \cup refused
  <2>1. /\ UNCHANGED <<active, submitting, returned>> /\ submitting = None
        /\ exec' = [e \in Execution |-> IF e \in again THEN "submitted" ELSE exec[e]]
        /\ spent' = [e \in Execution |-> IF e \in again THEN turn[e] ELSE spent[e]]
        /\ turn' = [e \in Execution |-> IF e \in again THEN 0 ELSE turn[e]]
    BY <1>15 DEF Retry
  <2>2. CASE f \in again
    <3>1. active[f] = 0  BY <1>1, <2>2 DEF Life
    <3>2. turn'[f] = 0 /\ active'[f] = 0 /\ submitting' # f  BY <1>1, <2>1, <2>2, <3>1
    <3>. QED  BY <3>2 DEF Fresh
  <2>3. CASE f \notin again
    <3>1. turn'[f] = turn[f] /\ spent'[f] = spent[f] /\ exec'[f] = exec[f]
      BY <2>1, <2>3
    <3>. QED  BY <1>1, <2>1, <3>1, FreshKept
  <2>. QED  BY <2>2, <2>3
<1>16. ASSUME Cancel  PROVE Fresh(f)'
  <2>1. UNCHANGED <<turn, spent, active, submitting, returned>> /\ CancelExecutions({})
    BY <1>16 DEF Cancel
  <2>2. exec'[f] \in {exec[f], "completed", "cancelled"}  BY <1>1, <2>1 DEF CancelExecutions
  <2>. QED  BY <1>1, <2>1, <2>2, FreshKept
<1>17. ASSUME Crash  PROVE Fresh(f)'
  <2>1. /\ UNCHANGED <<turn, spent, exec>> /\ submitting' = None
        /\ active' = [e \in Execution |-> 0]
    BY <1>17 DEF Crash, Stop
  <2>. QED  BY <1>1, <2>1 DEF Fresh
<1>18. ASSUME CloseSupervisor  PROVE Fresh(f)'
  <2>1. /\ UNCHANGED <<turn, spent, exec, submitting, returned>>
        /\ active' = [e \in Execution |-> 0]
    BY <1>18 DEF CloseSupervisor
  <2>. QED  BY <1>1, <2>1, FreshKept
<1>19. ASSUME Exit  PROVE Fresh(f)'
  <2>1. /\ UNCHANGED <<turn, spent, exec>> /\ submitting' = None
        /\ active' = [e \in Execution |-> 0]
    BY <1>19 DEF Exit, Stop
  <2>. QED  BY <1>1, <2>1 DEF Fresh
<1>20. ASSUME NEW e \in Execution, Reattach(e)  PROVE Fresh(f)'
  <2>1. /\ UNCHANGED <<turn, spent, exec, submitting, returned>> /\ e \in orphans
        /\ active' = [active EXCEPT ![e] = turn[e]] /\ ~up
    BY <1>20 DEF Reattach
  <2>2. submitting = None  BY <1>1, <2>1, ShapeTypes
  <2>3. CASE f # e
    <3>1. active'[f] = active[f]  BY <1>1, <2>1, <2>3
    <3>. QED  BY <1>1, <2>1, <3>1, FreshKept
  <2>4. CASE f = e
    <3>1. exec[f] \in {"waiting", "cancelled"}  BY <1>1, <2>1, <2>4 DEF Life
    <3>. QED  BY <1>1, <2>1, <2>2, <3>1 DEF Fresh
  <2>. QED  BY <2>3, <2>4
<1>21. ASSUME NEW e \in Execution, Orphaned(e)  PROVE Fresh(f)'
  <2>1. /\ UNCHANGED <<turn, spent, active, submitting, returned>>
        /\ exec' = exec \/ exec' = [exec EXCEPT ![e] = "failed"]
    BY <1>21 DEF Orphaned, FailTurn, FailExecution
  <2>2. exec'[f] \in {exec[f], "failed"}  BY <1>1, <2>1
  <2>. QED  BY <1>1, <2>1, <2>2, FreshKept
<1>22. ASSUME UNCHANGED vars  PROVE UNCHANGED <<turn, spent, exec, active, submitting, returned>>
  BY <1>22 DEF vars
<1>23. CASE UNCHANGED <<turn, spent, exec, active, submitting, returned>>
  BY <1>23, <1>1, FreshKept
<1>. QED
  BY <1>2, <1>3, <1>4, <1>5, <1>6, <1>7, <1>8, <1>9, <1>10, <1>11, <1>12, <1>13, <1>14,
     <1>15, <1>16, <1>17, <1>18, <1>19, <1>20, <1>21, <1>22, <1>23
     DEF TurnNext, NodeSteps, AskSteps, TurnSteps, WorkerSteps, CancelSteps, ServerSteps,
         StopSteps, StartSteps


-----------------------------------------------------------------------------
(* The invariant holds, and what it says.                                  *)

LEMMA TurnStart == TurnInit => TurnInv
<1>. SUFFICES ASSUME TurnInit  PROVE TurnInv
  OBVIOUS
<1>. USE TurnNumbers
<1>1. /\ None \notin Execution /\ None \notin 0..MaxTurns /\ Endpoints \subseteq BOOLEAN
  BY TurnsAssumption DEF TurnsAssumption
<1>2. /\ task = "waiting" /\ submitting = None /\ returned = None /\ orphans = {}
      /\ refused = {} /\ closing = "no" /\ up /\ crashes = 0
      /\ \A e \in Execution :
           /\ exec[e] = "submitted" /\ turn[e] = 0 /\ spent[e] = 0 /\ active[e] = 0
           /\ threads[e] = None /\ \A t \in 0..MaxTurns : worker[e][t] = "none"
      /\ \A e \in Execution, t \in Turn :
           server[e][t] = "none" /\ session[e][t] = NoSession /\ approval[e][t] = "none"
      /\ \A c \in Caller : cancelling[c] = NoCancel
      /\ \A e \in Execution : e # None
  BY <1>1 DEF TurnInit
<1>3. Shape
  <2>1. ProductTypes  BY <1>1 DEF TurnInit, ProductTypes
  <2>2. NoSession \in Sessions  BY DEF NoSession, Sessions, Queues
  <2>3. AdapterTypes  BY <2>2 DEF TurnInit, AdapterTypes, ServerStatus
  <2>4. NodeTypes  BY <1>2 DEF NodeTypes
  <2>5. WorkerTypes  BY DEF TurnInit, WorkerTypes, Places
  <2>6. NoCancel \in Calls  BY DEF NoCancel, Calls
  <2>7. AskTypes /\ CallTypes  BY <2>6 DEF TurnInit, AskTypes, CallTypes
  <2>8. BackendTypes  BY <1>1 DEF TurnInit, BackendTypes
  <2>. QED  BY <2>1, <2>3, <2>4, <2>5, <2>7, <2>8 DEF Shape
<1>4. BegunInv /\ QueueInv
  BY <1>2 DEF BegunInv, Begun, QueueInv, Queue, NoSession
<1>5. LifeInv /\ SubmissionInv  BY <1>2 DEF LifeInv, Life, SubmissionInv, Submission
<1>6. OwnerInv  BY <1>1, <1>2 DEF OwnerInv, Owner, Reporting
<1>7. AttendedInv  BY <1>2 DEF AttendedInv, Attended
<1>8. CallingInv  BY <1>2 DEF CallingInv, Calling, NoCancel, Caller, Worker
<1>9. PromptsInv /\ LiveInv /\ CoverInv  BY <1>2 DEF PromptsInv, LiveInv, CoverInv, Live
<1>10. FreshInv  BY <1>2 DEF FreshInv, Fresh
<1>. QED  BY <1>3, <1>4, <1>5, <1>6, <1>7, <1>8, <1>9, <1>10 DEF TurnInv

LEMMA TurnInductive == TurnInv /\ [Next]_vars => TurnInv'
<1>. SUFFICES ASSUME TurnInv, [Next]_vars  PROVE TurnInv'
  OBVIOUS
<1>1. [TurnNext]_vars  BY WorkersHaveTurns
<1>2. Moves  BY <1>1, ShapeStep
<1>3. Shape'  BY <1>2 DEF Moves
<1>. QED  BY <1>1, <1>2, <1>3, BegunStep, QueueStep, LifeStep, SubmissionStep, OwnerStep,
             AttendedStep, CallingStep, PromptsStep, LiveStep, CoverStep, FreshStep DEF TurnInv

LEMMA TurnInvariant == Spec => []TurnInv
BY TurnStart, TurnInductive, PTL DEF Spec

\* Every row, session, thread and call of the Turns of a task stays of its type; a
\* session is asked something only before its Turn ends, and ends once.
THEOREM TurnTypeCorrect == Spec => []TurnTypeOK
<1>1. TurnInv => TurnTypeOK
  BY DEF TurnInv, Shape, ProductTypes, AdapterTypes, NodeTypes, WorkerTypes, AskTypes,
         CallTypes, BackendTypes, TurnTypeOK, Sessions, Queues, Calls
<1>. QED  BY <1>1, TurnInvariant, PTL

\* While the backend serves, a waiting execution belongs to somebody, for any number of
\* executions and Turns: CodexRuntimeAdapter owns its Turn, or the worker of that Turn
\* has yet to report its end.
THEOREM NoExecutionIsLost == Spec => []WaitingIsOwned
<1>1. ASSUME TurnInv, NEW e \in Execution, up, closing = "no", exec[e] = "waiting",
             server[e][turn[e]] \notin {"silent", "interrupted"}
      PROVE  active[e] = turn[e] \/ worker[e][turn[e]] \in Reporting
  <2>1. e \notin orphans  BY <1>1 DEF TurnInv, LifeInv, Life
  <2>2. Attended(e)  BY <1>1 DEF TurnInv, AttendedInv
  <2>. QED  BY <1>1, <2>1, <2>2 DEF Attended, Reporting
<1>2. TurnInv => WaitingIsOwned  BY <1>1 DEF WaitingIsOwned
<1>. QED  BY <1>2, TurnInvariant, PTL

\* A retried execution waits for, or ended with, a Turn that began after its retry, as
\* long as no delivery was refused: the Turn of a refused delivery is still owned.
THEOREM RetriesAnswerAnew == ASSUME ~Refusals PROVE Spec => []FreshAnswers
<1>1. TurnInv => FreshAnswers
  BY DEF TurnInv, FreshInv, Fresh, LifeInv, Life, FreshAnswers
<1>. QED  BY <1>1, TurnInvariant, PTL

\* No prompt outlives the cancellation of its task, whichever worker asks while
\* RuntimeApprovalCoordinator withdraws the others and whatever a crash cuts off.
THEOREM NoPromptsAreLeft == Spec => []CancelledHasNoPrompts
<1>1. TurnInv => CancelledHasNoPrompts  BY DEF TurnInv, PromptsInv, CancelledHasNoPrompts
<1>. QED  BY <1>1, TurnInvariant, PTL

\* While nothing crashed, every Turn that runs on after the cancellation of its task is
\* on record, however the calls of cancel overlap, and whichever sibling makes a task
\* wait again that failed: as an interrupt that was not confirmed, or as a failed Turn.
THEOREM CancellationIsComplete == Spec => []CancelCovers
<1>1. ASSUME TurnInv, NEW e \in Execution, NEW t \in Turn, crashes = 0, task = "cancelled",
             \A c \in Caller : cancelling[c].at = "none", server[e][t] \in Live
      PROVE  e \in unconfirmed \/ <<e, t>> \in failures
  <2>1. Covered(e) \/ <<e, t>> \in failures  BY <1>1 DEF TurnInv, CoverInv
  <2>2. \A c \in Caller : cancelling[c].targets = {}
    BY <1>1 DEF TurnInv, CallingInv, Calling
  <2>. QED  BY <1>1, <2>1, <2>2 DEF Covered
<1>2. TurnInv => CancelCovers  BY <1>1 DEF CancelCovers
<1>. QED  BY <1>2, TurnInvariant, PTL

==============================================================================
