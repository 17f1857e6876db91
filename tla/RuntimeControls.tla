-------------------------- MODULE RuntimeControls --------------------------
(***************************************************************************)
(* Product-owned admission of Runtime executions: the concurrency slots    *)
(* and the token ledger of one owner and one Runtime provider.             *)
(*                                                                         *)
(* services/runtime_controls.py owns the arithmetic (admit, settle,        *)
(* active_execution_count); orchestration/task_orchestrator.py owns the    *)
(* execution status that decides who holds a slot.  Every action below is  *)
(* the execution-and-ledger part of one transaction of the orchestrator,   *)
(* all of which run under its execution lock.  The lock is held across     *)
(* AgentRuntimeAdapter.execute, between the commit that stores "running"   *)
(* and the commit that stores the outcome: variable submitting names the   *)
(* execution in that window, and every locked transaction waits for it.    *)
(***************************************************************************)
EXTENDS Naturals, FiniteSets

CONSTANTS
  Execution,      \* every RuntimeExecution the owner may ever have
  MaxConcurrent,  \* policy.max_concurrent_executions
  Reservation,    \* policy.token_reservation_per_execution (0 when unset)
  BudgetLimit,    \* policy.token_budget_limit, or Unlimited when unset
  Unlimited,
  MaxUsage,       \* the largest token total a Runtime reports for a Turn
  None            \* no execution / no reported usage

ASSUME ConstantsAssumption ==
  /\ IsFiniteSet(Execution)
  /\ MaxConcurrent \in Nat \ {0}
  /\ Reservation \in Nat
  /\ BudgetLimit \in Nat \cup {Unlimited}
  /\ Unlimited \notin Nat
  /\ MaxUsage \in Nat
  /\ None \notin Execution \cup Nat

VARIABLES
  status,          \* RuntimeExecution.status, "absent" before the row exists
  capacityWait,    \* wait_reason = "concurrency_limit"
  reserved,        \* RuntimeExecution.reserved_tokens
  settled,         \* budget_settled_at IS NOT NULL
  tokensReserved,  \* policy.tokens_reserved
  tokensConsumed,  \* policy.tokens_consumed
  submitting       \* the execution being submitted under the lock, or None

\* RuntimeTokenUsage.total_tokens.
Usage == 0..MaxUsage

ledger == <<reserved, settled, tokensReserved, tokensConsumed>>
controlVars == <<status, capacityWait, ledger, submitting>>

Status == {"absent", "submitted", "running", "waiting",
           "completed", "failed", "cancelled"}

\* Types; what was settled holds no reservation any more.
TypeOK ==
  /\ status \in [Execution -> Status]
  /\ capacityWait \in [Execution -> BOOLEAN]
  /\ reserved \in [Execution -> {0, Reservation}]
  /\ settled \in [Execution -> BOOLEAN]
  /\ \A e \in Execution : settled[e] => reserved[e] = 0
  /\ tokensReserved \in Nat
  /\ tokensConsumed \in Nat
  /\ submitting \in Execution \cup {None}

ControlInit ==
  /\ status = [e \in Execution |-> "absent"]
  /\ capacityWait = [e \in Execution |-> FALSE]
  /\ reserved = [e \in Execution |-> 0]
  /\ settled = [e \in Execution |-> FALSE]
  /\ tokensReserved = 0
  /\ tokensConsumed = 0
  /\ submitting = None

-----------------------------------------------------------------------------
(* Slots.                                                                  *)

LockFree == submitting = None

\* active_execution_count: running, or waiting on the Runtime itself.
Active(e) == status[e] = "running" \/ (status[e] = "waiting" /\ ~capacityWait[e])

ActiveSet == {e \in Execution : Active(e)}

\* Mutant of SlotFreeFor: one slot too many.
SlotFreeForLoose(e) == Cardinality(ActiveSet \ {e}) <= MaxConcurrent

SlotFreeFor(e) == Cardinality(ActiveSet \ {e}) < MaxConcurrent

SlotFree == Cardinality(ActiveSet) < MaxConcurrent

DeferredSet == {e \in Execution : status[e] = "waiting" /\ capacityWait[e]}

\* The states from which _execute_assignment goes on to admission.
Runnable(e) ==
  \/ status[e] \in {"submitted", "running", "cancelled"}
  \/ e \in DeferredSet

-----------------------------------------------------------------------------
(* The ledger.                                                             *)

Minus(a, b) == IF a > b THEN a - b ELSE 0

\* Mutant of WithinBudget: outstanding reservations are forgotten.
WithinBudgetConsumedOnly ==
  BudgetLimit # Unlimited => tokensConsumed + Reservation <= BudgetLimit

WithinBudget ==
  BudgetLimit # Unlimited =>
    tokensConsumed + tokensReserved + Reservation <= BudgetLimit

\* Mutant of Settle: reserved_tokens is not cleared.
SettleKeepsReservation(e, usage) ==
  IF settled[e]
  THEN UNCHANGED ledger
  ELSE /\ tokensReserved' = Minus(tokensReserved, reserved[e])
       /\ tokensConsumed' = tokensConsumed
                              + (IF usage = None THEN reserved[e] ELSE usage)
       /\ settled' = [settled EXCEPT ![e] = TRUE]
       /\ UNCHANGED reserved

\* RuntimeControlService.settle for one execution; usage is None when the
\* Runtime reported nothing, and then the whole reservation is charged.
Settle(e, usage) ==
  IF settled[e]
  THEN UNCHANGED ledger
  ELSE /\ tokensReserved' = Minus(tokensReserved, reserved[e])
       /\ tokensConsumed' = tokensConsumed
                              + (IF usage = None THEN reserved[e] ELSE usage)
       /\ reserved' = [reserved EXCEPT ![e] = 0]
       /\ settled' = [settled EXCEPT ![e] = TRUE]

\* Mutant of Owing: the policy's reservation is charged for every execution.
OwingAll(S) == S

\* The executions of S that settle still has something to charge for.
Owing(S) == {e \in S : ~settled[e] /\ reserved[e] # 0}

\* settle, without usage, for every execution of S: reserved_tokens is either
\* 0 or the policy's reservation, so the sum is a product.
SettleAll(S) ==
  LET total == Reservation * Cardinality(Owing(S)) IN
  /\ tokensReserved' = Minus(tokensReserved, total)
  /\ tokensConsumed' = tokensConsumed + total
  /\ reserved' = [e \in Execution |->
                    IF e \in S /\ ~settled[e] THEN 0 ELSE reserved[e]]
  /\ settled' = [e \in Execution |-> settled[e] \/ e \in S]

-----------------------------------------------------------------------------
(* Transactions.                                                           *)

SetStatus(e, s) == status' = [status EXCEPT ![e] = s]

\* prepare_assignments, prepare_lead_plan, prepare_lead_review and
\* _create_assignment insert the row; only the review holds the lock.
Create(S) ==
  /\ S \subseteq {e \in Execution : status[e] = "absent"}
  /\ status' = [e \in Execution |-> IF e \in S THEN "submitted" ELSE status[e]]
  /\ UNCHANGED <<capacityWait, ledger, submitting>>

\* admit grants a slot and a reservation; "running" is committed and the lock
\* stays held for the submission.
Admit(e) ==
  /\ LockFree /\ Runnable(e)
  /\ SlotFreeFor(e) /\ WithinBudget
  /\ SetStatus(e, "running")
  /\ capacityWait' = [capacityWait EXCEPT ![e] = FALSE]
  /\ reserved' = [reserved EXCEPT ![e] = Reservation]
  /\ settled' = [settled EXCEPT ![e] = FALSE]
  /\ tokensReserved' = tokensReserved + Reservation
  /\ submitting' = e
  /\ UNCHANGED tokensConsumed

\* admit finds every slot taken: the execution queues without blocking.
Defer(e) ==
  /\ LockFree /\ Runnable(e)
  /\ ~SlotFreeFor(e)
  /\ SetStatus(e, "waiting")
  /\ capacityWait' = [capacityWait EXCEPT ![e] = TRUE]
  /\ UNCHANGED <<ledger, submitting>>

\* _record_admission_failure: the binding, the feasibility gate, the Provider
\* or the budget refuses the execution before it is submitted.
Reject(e) ==
  /\ LockFree /\ Runnable(e)
  /\ SetStatus(e, "failed")
  /\ capacityWait' = [capacityWait EXCEPT ![e] = @ /\ status[e] # "waiting"]
  /\ UNCHANGED <<ledger, submitting>>

\* The adapter started a Turn and returned without waiting for it.
SubmitWaiting(e) ==
  /\ submitting = e
  /\ SetStatus(e, "waiting")
  /\ submitting' = None
  /\ UNCHANGED <<capacityWait, ledger>>

\* The adapter finished the work inside execute.
SubmitCompleted(e, usage) ==
  /\ submitting = e
  /\ Settle(e, usage)
  /\ SetStatus(e, "completed")
  /\ submitting' = None
  /\ UNCHANGED capacityWait

\* The adapter raised.
SubmitFailed(e) ==
  /\ submitting = e
  /\ Settle(e, None)
  /\ SetStatus(e, "failed")
  /\ submitting' = None
  /\ UNCHANGED capacityWait

\* The outcome is never committed: the process stops inside the window, or an
\* exception escapes after execute returned (a changed Thread, no summary).
SubmissionLost ==
  /\ submitting # None
  /\ submitting' = None
  /\ UNCHANGED <<status, capacityWait, ledger>>

\* complete_runtime_execution.  The code asks for "waiting" only; the report
\* comes from a Turn, and an execution that waits for a slot has none.
Complete(e, usage) ==
  /\ LockFree
  /\ status[e] = "waiting" /\ ~capacityWait[e]
  /\ Settle(e, usage)
  /\ SetStatus(e, "completed")
  /\ UNCHANGED <<capacityWait, submitting>>

\* Mutant of Fail: the failure path forgets to settle.
FailUnsettled(e) ==
  /\ LockFree
  /\ status[e] = "waiting" /\ ~capacityWait[e]
  /\ SetStatus(e, "failed")
  /\ UNCHANGED <<capacityWait, ledger, submitting>>

\* fail_runtime_execution; the supervisor and the recovery report no usage.
Fail(e) ==
  /\ LockFree
  /\ status[e] = "waiting" /\ ~capacityWait[e]
  /\ Settle(e, None)
  /\ SetStatus(e, "failed")
  /\ UNCHANGED <<capacityWait, submitting>>

\* Mutant of Cancel: only the queued executions are settled.
CancelSettlesQueued(S) ==
  LET open == {e \in S : status[e] \notin {"absent", "completed"}} IN
  /\ LockFree
  /\ SettleAll({e \in open : capacityWait[e]})
  /\ status' = [e \in Execution |-> IF e \in open THEN "cancelled" ELSE status[e]]
  /\ UNCHANGED <<capacityWait, submitting>>

\* _persist_task_cancellation: S holds the executions of one task.
Cancel(S) ==
  LET open == {e \in S : status[e] \notin {"absent", "completed"}} IN
  /\ LockFree
  /\ SettleAll(open)
  /\ status' = [e \in Execution |-> IF e \in open THEN "cancelled" ELSE status[e]]
  /\ UNCHANGED <<capacityWait, submitting>>

\* retry: the executions of the task's failed assignments start over.  One is
\* still "completed" when only its delivery or its review was rejected.
Retry(S) ==
  /\ LockFree
  /\ S \subseteq {e \in Execution : status[e] \in {"failed", "completed"}}
  /\ status' = [e \in Execution |-> IF e \in S THEN "submitted" ELSE status[e]]
  /\ UNCHANGED <<capacityWait, ledger, submitting>>

\* _drain_capacity_waiters takes one execution out of the queue.
Pick(e) ==
  /\ LockFree /\ SlotFree
  /\ e \in DeferredSet
  /\ SetStatus(e, "submitted")
  /\ capacityWait' = [capacityWait EXCEPT ![e] = FALSE]
  /\ UNCHANGED <<ledger, submitting>>

-----------------------------------------------------------------------------
ControlNext ==
  \/ \E S \in SUBSET Execution : Create(S) \/ Cancel(S) \/ Retry(S)
  \/ \E e \in Execution :
        \/ Admit(e) \/ Defer(e) \/ Reject(e) \/ Pick(e)
        \/ SubmitWaiting(e) \/ SubmitFailed(e) \/ Fail(e)
        \/ \E usage \in Usage \cup {None} :
              SubmitCompleted(e, usage) \/ Complete(e, usage)

\* Every submission commits its outcome.
ControlSpec == ControlInit /\ [][ControlNext]_controlVars

\* The process may stop, or an exception escape, inside a submission.
CrashNext == ControlNext \/ SubmissionLost

CrashSpec == ControlInit /\ [][CrashNext]_controlVars
-----------------------------------------------------------------------------
(* Properties.                                                             *)

\* Never more active executions than the policy has slots, whatever the
\* interleaving of admissions, deferrals, cancellations and crashes:
\* admit checks the count and takes the slot in one locked transaction.
ConcurrencyBound == Cardinality(ActiveSet) <= MaxConcurrent

\* The shared counter is the sum of what the slot holders reserved: every
\* path out of "running" and "waiting" gives back what admit took, no more
\* and no less, over any number of retries of the same execution.
LedgerBalanced == tokensReserved = Reservation * Cardinality(ActiveSet)

\* How far one Turn may exceed what was reserved for it.
Excess == Minus(MaxUsage, Reservation)

\* The budget is a soft limit with a hard edge: admit stops before the limit
\* and only Turns that already hold a slot can pass it, each by its excess.
\* When no Turn uses more than its reservation the limit is never passed.
BudgetEdge ==
  BudgetLimit # Unlimited =>
    tokensConsumed + tokensReserved <= BudgetLimit + MaxConcurrent * Excess

\* An execution that gives up its slot is settled in the same transaction;
\* an execution that keeps it is not charged (settle runs once per admission).
ReleaseSettles ==
  [][\A e \in Execution :
       /\ Active(e) /\ ~Active(e)' => settled'[e] /\ reserved'[e] = 0
       /\ Active(e) /\ Active(e)' /\ submitting' # e => ~settled'[e]]_controlVars

\* Consumption only grows, and only when an execution gives up its slot: a
\* second cancellation, a retry or a repeated failure charges nothing.
ChargeOnRelease ==
  [][tokensConsumed' # tokensConsumed =>
       /\ tokensConsumed' > tokensConsumed
       /\ \E e \in Execution : Active(e) /\ ~Active(e)']_controlVars

\* After a lost submission the counter may only be too high, so the budget
\* still refuses what it must refuse.
LedgerCovers == tokensReserved >= Reservation * Cardinality(ActiveSet)
=============================================================================
