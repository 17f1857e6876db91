----------------------- MODULE RuntimeControlsProofs -----------------------
(***************************************************************************)
(* What RuntimeControls guarantees for every number of executions, every   *)
(* slot count and every budget.                                            *)
(*                                                                         *)
(* Two inductive invariants.  HoldInv is kept by every action, a lost      *)
(* submission included: who holds a slot holds an unsettled reservation.   *)
(* LedgerInv adds what only complete submissions keep: nobody else holds   *)
(* a reservation, and the shared counter is the sum.                       *)
(***************************************************************************)
EXTENDS RuntimeControls, TLAPS, FiniteSetTheorems

SubmittingRuns ==
  submitting # None =>
    status[submitting] = "running" /\ ~capacityWait[submitting]

\* A slot holder has reserved and is not settled; the execution in submission
\* is running and has left the queue.
HoldInv ==
  /\ TypeOK
  /\ \A e \in Execution : Active(e) => reserved[e] = Reservation /\ ~settled[e]
  /\ SubmittingRuns

\* Without lost submissions "running" is exactly the submission in progress,
\* and only slot holders have a reservation.
LedgerInv ==
  /\ HoldInv
  /\ \A e \in Execution : status[e] = "running" => submitting = e
  /\ \A e \in Execution : ~Active(e) => reserved[e] = 0
  /\ LedgerBalanced

-----------------------------------------------------------------------------
(* Who holds a slot.                                                       *)

\* The slot holders are finitely many, before and after a step.
LEMMA ActiveFinite ==
  /\ IsFiniteSet(ActiveSet) /\ Cardinality(ActiveSet) \in Nat
  /\ IsFiniteSet(ActiveSet') /\ Cardinality(ActiveSet') \in Nat
<1>1. ActiveSet \subseteq Execution /\ ActiveSet' \subseteq Execution
  BY DEF ActiveSet, Active
<1>2. IsFiniteSet(ActiveSet) /\ IsFiniteSet(ActiveSet')
  BY <1>1, FS_Subset, ConstantsAssumption DEF ConstantsAssumption
<1>. QED  BY <1>2, FS_CardinalityType

\* admit is the only way to a slot.
LEMMA AdmitJoins ==
  ASSUME TypeOK, NEW e \in Execution, Admit(e)
  PROVE  ActiveSet' = ActiveSet \cup {e}
BY DEF TypeOK, Admit, SetStatus, ActiveSet, Active

\* Completion, failure, deferral and rejection give up the slot of e.
LEMMA OutcomeLeaves ==
  ASSUME TypeOK, NEW e \in Execution,
         \/ SubmitFailed(e) \/ Fail(e) \/ Defer(e) \/ Reject(e)
         \/ \E usage \in Usage \cup {None} :
               SubmitCompleted(e, usage) \/ Complete(e, usage)
  PROVE  ActiveSet' = ActiveSet \ {e}
<1>1. CASE Defer(e)
  BY <1>1 DEF TypeOK, Defer, SetStatus, ActiveSet, Active
<1>2. CASE SubmitFailed(e) \/ Fail(e) \/ Reject(e)
  <2>1. /\ status' = [status EXCEPT ![e] = "failed"]
        /\ \A f \in Execution : f # e => capacityWait'[f] = capacityWait[f]
    BY <1>2 DEF TypeOK, SubmitFailed, Fail, Reject, SetStatus
  <2>. QED  BY <2>1 DEF TypeOK, ActiveSet, Active
<1>3. CASE \E usage \in Usage \cup {None} :
               SubmitCompleted(e, usage) \/ Complete(e, usage)
  <2>1. status' = [status EXCEPT ![e] = "completed"] /\ UNCHANGED capacityWait
    BY <1>3 DEF SubmitCompleted, Complete, SetStatus
  <2>. QED  BY <2>1 DEF TypeOK, ActiveSet, Active
<1>. QED  BY <1>1, <1>2, <1>3

\* A cancelled task gives up the slots of all its executions.
LEMMA CancelLeaves ==
  ASSUME TypeOK, NEW S \in SUBSET Execution, Cancel(S)
  PROVE  ActiveSet' = ActiveSet \ S
BY DEF TypeOK, Cancel, ActiveSet, Active

\* Everything else leaves the slots as they are.
LEMMA OthersKeep ==
  ASSUME TypeOK, SubmittingRuns,
         \/ \E S \in SUBSET Execution : Create(S) \/ Retry(S)
         \/ \E e \in Execution : Pick(e) \/ SubmitWaiting(e)
         \/ SubmissionLost
         \/ UNCHANGED controlVars
  PROVE  ActiveSet' = ActiveSet
<1>1. CASE \E S \in SUBSET Execution : Create(S) \/ Retry(S)
  BY <1>1 DEF TypeOK, Create, Retry, ActiveSet, Active
<1>2. CASE \E e \in Execution : Pick(e)
  BY <1>2 DEF TypeOK, Pick, SetStatus, DeferredSet, ActiveSet, Active
<1>3. CASE \E e \in Execution : SubmitWaiting(e)
  BY <1>3, ConstantsAssumption
     DEF TypeOK, SubmittingRuns, SubmitWaiting, SetStatus, ActiveSet, Active,
         ConstantsAssumption
<1>4. CASE SubmissionLost \/ UNCHANGED controlVars
  BY <1>4 DEF SubmissionLost, controlVars, ActiveSet, Active
<1>. QED  BY <1>1, <1>2, <1>3, <1>4

-----------------------------------------------------------------------------
(* The bound on slots.                                                     *)

\* In every step the slot holders only get fewer, or one joins through admit.
LEMMA SlotStep ==
  ASSUME HoldInv, [CrashNext]_controlVars
  PROVE  \/ ActiveSet' \subseteq ActiveSet
         \/ \E e \in Execution : Admit(e) /\ ActiveSet' = ActiveSet \cup {e}
<1>1. ASSUME NEW e \in Execution, Admit(e)
      PROVE  ActiveSet' = ActiveSet \cup {e}
  BY <1>1, AdmitJoins DEF HoldInv
<1>2. ASSUME NEW e \in Execution,
             \/ SubmitFailed(e) \/ Fail(e) \/ Defer(e) \/ Reject(e)
             \/ \E usage \in Usage \cup {None} :
                   SubmitCompleted(e, usage) \/ Complete(e, usage)
      PROVE  ActiveSet' \subseteq ActiveSet
  BY <1>2, OutcomeLeaves DEF HoldInv
<1>3. ASSUME NEW S \in SUBSET Execution, Cancel(S)
      PROVE  ActiveSet' \subseteq ActiveSet
  BY <1>3, CancelLeaves DEF HoldInv
<1>4. ASSUME \/ \E S \in SUBSET Execution : Create(S) \/ Retry(S)
             \/ \E e \in Execution : Pick(e) \/ SubmitWaiting(e)
             \/ SubmissionLost
             \/ UNCHANGED controlVars
      PROVE  ActiveSet' \subseteq ActiveSet
  BY <1>4, OthersKeep DEF HoldInv
<1>. QED  BY <1>1, <1>2, <1>3, <1>4 DEF CrashNext, ControlNext

\* The check of admit is enough for one more.
LEMMA AdmitFits ==
  ASSUME NEW e \in Execution, Admit(e), ActiveSet' = ActiveSet \cup {e}
  PROVE  ConcurrencyBound'
<1>1. IsFiniteSet(ActiveSet \ {e})
  BY ActiveFinite, FS_RemoveElement
<1>2. ActiveSet' = (ActiveSet \ {e}) \cup {e}
  OBVIOUS
<1>3. Cardinality(ActiveSet') = Cardinality(ActiveSet \ {e}) + 1
  BY <1>1, <1>2, FS_AddElement
<1>4. Cardinality(ActiveSet \ {e}) \in Nat
  BY <1>1, FS_CardinalityType
<1>. QED  BY <1>3, <1>4, ConstantsAssumption
          DEF Admit, SlotFreeFor, ConcurrencyBound, ConstantsAssumption

-----------------------------------------------------------------------------
(* Settling.                                                               *)

\* settle clears one reservation and nothing else, once.
LEMMA SettleClears ==
  ASSUME TypeOK, NEW e \in Execution, NEW usage \in Usage \cup {None},
         Settle(e, usage)
  PROVE  /\ reserved' = [reserved EXCEPT ![e] = 0]
         /\ settled' = [settled EXCEPT ![e] = TRUE]
         /\ tokensReserved' = Minus(tokensReserved, reserved[e])
         /\ tokensReserved' \in Nat /\ tokensConsumed' \in Nat
<1>1. reserved[e] \in Nat /\ tokensReserved \in Nat
  BY ConstantsAssumption DEF TypeOK, ConstantsAssumption
<1>2. CASE settled[e]
  <2>1. UNCHANGED ledger  BY <1>2 DEF Settle
  <2>2. reserved[e] = 0  BY <1>2 DEF TypeOK
  <2>. QED  BY <1>1, <1>2, <2>1, <2>2 DEF TypeOK, ledger, Minus
<1>3. CASE ~settled[e]
  <2>1. (IF usage = None THEN reserved[e] ELSE usage) \in Nat
    BY <1>1, ConstantsAssumption DEF Usage, ConstantsAssumption
  <2>. QED  BY <1>1, <1>3, <2>1 DEF TypeOK, Settle, Minus
<1>. QED  BY <1>2, <1>3

\* Cancelling a set of executions clears their reservations and nothing else.
LEMMA SettleAllClears ==
  ASSUME TypeOK, NEW S \in SUBSET Execution, SettleAll(S)
  PROVE  /\ reserved' = [e \in Execution |-> IF e \in S THEN 0 ELSE reserved[e]]
         /\ settled' = [e \in Execution |-> settled[e] \/ e \in S]
         /\ tokensReserved' \in Nat /\ tokensConsumed' \in Nat
<1>1. IsFiniteSet(Owing(S))
  BY FS_Subset, ConstantsAssumption DEF Owing, ConstantsAssumption
<1>2. Reservation * Cardinality(Owing(S)) \in Nat
  BY <1>1, FS_CardinalityType, ConstantsAssumption DEF ConstantsAssumption
<1>3. tokensReserved' \in Nat /\ tokensConsumed' \in Nat
  BY <1>2 DEF TypeOK, SettleAll, Minus
<1>. QED  BY <1>3 DEF TypeOK, SettleAll

-----------------------------------------------------------------------------
(* HoldInv.                                                                *)

\* Nobody holds a slot at the start.
LEMMA HoldInit == ControlInit => HoldInv /\ ConcurrencyBound
<1>. SUFFICES ASSUME ControlInit PROVE HoldInv /\ ConcurrencyBound
  OBVIOUS
<1>1. HoldInv
  BY ConstantsAssumption
     DEF ControlInit, HoldInv, TypeOK, SubmittingRuns, Status, Active,
         ConstantsAssumption
<1>2. ActiveSet = {}
  BY DEF ControlInit, ActiveSet, Active
<1>3. ConcurrencyBound
  BY <1>2, FS_EmptySet, ConstantsAssumption
     DEF ConcurrencyBound, ConstantsAssumption
<1>. QED  BY <1>1, <1>3

\* A settled execution that ends: the shape of four of the actions.
LEMMA HoldSettled ==
  ASSUME HoldInv, NEW e \in Execution, NEW usage \in Usage \cup {None},
         Settle(e, usage),
         NEW s \in {"completed", "failed"}, SetStatus(e, s),
         UNCHANGED capacityWait,
         \/ submitting = e /\ submitting' = None
         \/ submitting = None /\ submitting' = None
  PROVE  HoldInv'
<1>1. /\ reserved' = [reserved EXCEPT ![e] = 0]
      /\ settled' = [settled EXCEPT ![e] = TRUE]
      /\ tokensReserved' \in Nat /\ tokensConsumed' \in Nat
  BY SettleClears DEF HoldInv
<1>2. TypeOK'
  BY <1>1 DEF HoldInv, TypeOK, SetStatus, Status
<1>3. \A f \in Execution : Active(f)' => reserved'[f] = Reservation /\ ~settled'[f]
  BY <1>1 DEF HoldInv, TypeOK, SetStatus, Active
<1>. QED  BY <1>2, <1>3 DEF HoldInv, SubmittingRuns

\* HoldInv is inductive, lost submissions included.
LEMMA HoldStep == HoldInv /\ [CrashNext]_controlVars => HoldInv'
<1>. SUFFICES ASSUME HoldInv, [CrashNext]_controlVars PROVE HoldInv'
  OBVIOUS
<1>. USE ConstantsAssumption DEF ConstantsAssumption
<1>1. ASSUME NEW S \in SUBSET Execution, Create(S) \/ Retry(S)
      PROVE  HoldInv'
  <2>1. /\ status' = [e \in Execution |->
                        IF e \in S THEN "submitted" ELSE status[e]]
        /\ \A e \in S : status[e] \in {"absent", "failed", "completed"}
        /\ UNCHANGED <<capacityWait, ledger, submitting>>
    BY <1>1 DEF Create, Retry
  <2>2. TypeOK'
    BY <2>1 DEF HoldInv, TypeOK, Status, ledger
  <2>. QED  BY <2>1, <2>2 DEF HoldInv, TypeOK, SubmittingRuns, Active, ledger
<1>2. ASSUME NEW S \in SUBSET Execution, Cancel(S)
      PROVE  HoldInv'
  <2>. DEFINE open == {e \in S : status[e] \notin {"absent", "completed"}}
  <2>1. /\ reserved' = [e \in Execution |-> IF e \in open THEN 0 ELSE reserved[e]]
        /\ settled' = [e \in Execution |-> settled[e] \/ e \in open]
        /\ tokensReserved' \in Nat /\ tokensConsumed' \in Nat
    BY <1>2, SettleAllClears DEF HoldInv, Cancel
  <2>2. /\ status' = [e \in Execution |->
                        IF e \in open THEN "cancelled" ELSE status[e]]
        /\ UNCHANGED <<capacityWait, submitting>>
        /\ submitting = None
    BY <1>2 DEF Cancel, LockFree
  <2>3. TypeOK'
    BY <2>1, <2>2 DEF HoldInv, TypeOK, Status
  <2>4. \A f \in Execution : Active(f)' => reserved'[f] = Reservation /\ ~settled'[f]
    BY <2>1, <2>2 DEF HoldInv, TypeOK, Active
  <2>. QED  BY <2>2, <2>3, <2>4 DEF HoldInv, SubmittingRuns
<1>3. ASSUME NEW e \in Execution, Admit(e)
      PROVE  HoldInv'
  <2>1. TypeOK'
    BY <1>3 DEF HoldInv, TypeOK, Admit, SetStatus, Status
  <2>. QED  BY <1>3, <2>1
            DEF HoldInv, TypeOK, SubmittingRuns, Admit, SetStatus, Active
<1>4. ASSUME NEW e \in Execution, Defer(e) \/ Reject(e) \/ Pick(e)
      PROVE  HoldInv'
  <2>1. /\ UNCHANGED <<ledger, submitting>> /\ submitting = None
        /\ \E s \in {"waiting", "failed", "submitted"}, b \in BOOLEAN :
              /\ status' = [status EXCEPT ![e] = s]
              /\ capacityWait' = [capacityWait EXCEPT ![e] = b]
              /\ s = "waiting" => b
    BY <1>4 DEF HoldInv, TypeOK, Defer, Reject, Pick, SetStatus, LockFree
  <2>2. TypeOK'
    BY <2>1 DEF HoldInv, TypeOK, Status, ledger
  <2>. QED  BY <2>1, <2>2 DEF HoldInv, TypeOK, SubmittingRuns, Active, ledger
<1>5. ASSUME NEW e \in Execution, SubmitWaiting(e)
      PROVE  HoldInv'
  <2>1. TypeOK'
    BY <1>5 DEF HoldInv, TypeOK, SubmitWaiting, SetStatus, Status, ledger
  <2>. QED  BY <1>5, <2>1
            DEF HoldInv, TypeOK, SubmittingRuns, SubmitWaiting, SetStatus,
                Active, ledger
<1>6. ASSUME NEW e \in Execution,
             \/ SubmitFailed(e) \/ Fail(e)
             \/ \E usage \in Usage \cup {None} :
                   SubmitCompleted(e, usage) \/ Complete(e, usage)
      PROVE  HoldInv'
  <2>1. PICK usage \in Usage \cup {None}, s \in {"completed", "failed"} :
          /\ Settle(e, usage) /\ SetStatus(e, s) /\ UNCHANGED capacityWait
          /\ \/ submitting = e /\ submitting' = None
             \/ submitting = None /\ submitting' = None
    BY <1>6 DEF SubmitFailed, Fail, SubmitCompleted, Complete, LockFree
  <2>. QED  BY <2>1, HoldSettled
<1>7. ASSUME SubmissionLost \/ UNCHANGED controlVars
      PROVE  HoldInv'
  <2>1. /\ UNCHANGED <<status, capacityWait, ledger>>
        /\ submitting' = None \/ submitting' = submitting
    BY <1>7 DEF SubmissionLost, controlVars
  <2>2. TypeOK'
    BY <2>1 DEF HoldInv, TypeOK, ledger
  <2>. QED  BY <2>1, <2>2 DEF HoldInv, SubmittingRuns, Active, ledger
<1>. QED  BY <1>1, <1>2, <1>3, <1>4, <1>5, <1>6, <1>7 DEF CrashNext, ControlNext

\* What one slot may cost at most, reservation and excess.
Weight == Reservation + Excess

\* The budget bound, strengthened by what the slot holders may still consume.
CommitmentBound ==
  BudgetLimit # Unlimited =>
    tokensConsumed + Weight * Cardinality(ActiveSet)
      <= BudgetLimit + MaxConcurrent * Excess

-----------------------------------------------------------------------------
(* Products.                                                               *)

\* Arithmetic the ledger needs: products over sums and differences.
LEMMA TimesPlus ==
  ASSUME NEW a \in Nat, NEW b \in Nat, NEW c \in Nat
  PROVE  a * (b + c) = a * b + a * c /\ a * b \in Nat /\ a * c \in Nat
OBVIOUS

\* The same for a difference.
LEMMA TimesMinus ==
  ASSUME NEW a \in Nat, NEW b \in Nat, NEW c \in Nat, c <= b
  PROVE  a * (b - c) = a * b - a * c /\ b - c \in Nat /\ a * c <= a * b
<1>. DEFINE d == b - c
<1>1. d \in Nat /\ b = c + d  OBVIOUS
<1>2. a * b = a * c + a * d /\ a * c \in Nat /\ a * d \in Nat  BY <1>1, TimesPlus
<1>. QED  BY <1>1, <1>2

\* What a set of executions reserves is a number.
LEMMA WeightType ==
  /\ Reservation \in Nat /\ Excess \in Nat /\ Weight \in Nat
  /\ MaxUsage <= Weight /\ Reservation <= Weight
BY ConstantsAssumption DEF Weight, Excess, Minus, ConstantsAssumption

-----------------------------------------------------------------------------
(* The three ways the ledger moves.                                        *)

\* admit takes a slot the execution did not hold.
LEMMA AdmitLedger ==
  ASSUME LedgerInv, ConcurrencyBound, CommitmentBound,
         NEW e \in Execution, Admit(e)
  PROVE  LedgerBalanced' /\ CommitmentBound'
<1>. DEFINE n == Cardinality(ActiveSet)
<1>1. e \notin ActiveSet
  BY ConstantsAssumption DEF LedgerInv, Admit, LockFree, Runnable, DeferredSet,
     ActiveSet, Active, ConstantsAssumption
<1>2. ActiveSet' = ActiveSet \cup {e}
  BY AdmitJoins DEF LedgerInv, HoldInv
<1>3. n \in Nat /\ Cardinality(ActiveSet') = n + 1
  BY <1>1, <1>2, ActiveFinite, FS_AddElement
<1>4. n + 1 <= MaxConcurrent
  BY <1>2, <1>3, AdmitFits DEF ConcurrencyBound
<1>5. tokensReserved' = tokensReserved + Reservation /\ tokensConsumed' = tokensConsumed
  BY DEF Admit
<1>6. tokensReserved = Reservation * n
  BY DEF LedgerInv, LedgerBalanced
<1>7. Reservation * (n + 1) = Reservation * n + Reservation /\ Reservation * n \in Nat
  BY <1>3, TimesPlus, WeightType
<1>8. LedgerBalanced'
  BY <1>3, <1>5, <1>6, <1>7 DEF LedgerBalanced
<1>9. ASSUME BudgetLimit # Unlimited
      PROVE  tokensConsumed' + Weight * Cardinality(ActiveSet')
               <= BudgetLimit + MaxConcurrent * Excess
  <2>1. tokensConsumed + Reservation * n + Reservation <= BudgetLimit
    BY <1>6, <1>9 DEF Admit, WithinBudget
  <2>2. Weight * (n + 1) = Reservation * (n + 1) + Excess * (n + 1)
    BY <1>3, WeightType DEF Weight
  <2>3. Excess * (n + 1) <= Excess * MaxConcurrent
    BY <1>3, <1>4, WeightType, TimesMinus, ConstantsAssumption
       DEF ConstantsAssumption
  <2>4. MaxConcurrent * Excess = Excess * MaxConcurrent
    BY WeightType, ConstantsAssumption DEF ConstantsAssumption
  <2>5. /\ Excess * (n + 1) \in Nat /\ Excess * MaxConcurrent \in Nat
        /\ BudgetLimit \in Nat /\ tokensConsumed \in Nat
    BY <1>3, <1>9, WeightType, TimesPlus, ConstantsAssumption
       DEF ConstantsAssumption, LedgerInv, HoldInv, TypeOK
  <2>. QED  BY <1>3, <1>5, <1>7, <2>1, <2>2, <2>3, <2>4, <2>5, WeightType
<1>. QED  BY <1>8, <1>9 DEF CommitmentBound

\* One execution ends: its reservation goes back, its usage is charged.
LEMMA OutcomeLedger ==
  ASSUME LedgerInv, CommitmentBound,
         NEW e \in Execution, Active(e), ActiveSet' = ActiveSet \ {e},
         NEW usage \in Usage \cup {None}, Settle(e, usage)
  PROVE  LedgerBalanced' /\ CommitmentBound'
<1>. DEFINE n == Cardinality(ActiveSet)
            charge == IF usage = None THEN Reservation ELSE usage
<1>1. e \in ActiveSet
  BY DEF ActiveSet
<1>2. n \in Nat /\ Cardinality(ActiveSet') = n - 1 /\ Cardinality(ActiveSet') \in Nat
  BY <1>1, ActiveFinite, FS_RemoveElement
<1>3. reserved[e] = Reservation /\ ~settled[e]
  BY DEF LedgerInv, HoldInv
<1>4. charge \in Nat /\ charge <= Weight
  BY WeightType, ConstantsAssumption DEF Usage, ConstantsAssumption
<1>5. /\ tokensReserved' = Minus(tokensReserved, Reservation)
      /\ tokensConsumed' = tokensConsumed + charge
  BY <1>3 DEF Settle
<1>6. \A w \in Nat : /\ w * (n - 1) = w * n - w
                     /\ w * n \in Nat /\ w * (n - 1) \in Nat
  BY <1>2, TimesMinus
<1>7. LedgerBalanced'
  <2>1. /\ Reservation * (n - 1) = Reservation * n - Reservation
        /\ Reservation * n \in Nat /\ Reservation * (n - 1) \in Nat
    BY <1>6, WeightType
  <2>2. tokensReserved = Reservation * n
    BY DEF LedgerInv, LedgerBalanced
  <2>3. Minus(Reservation * n, Reservation) = Reservation * (n - 1)
    BY <2>1, WeightType DEF Minus
  <2>. QED  BY <1>2, <1>5, <2>2, <2>3 DEF LedgerBalanced
<1>8. ASSUME BudgetLimit # Unlimited
      PROVE  tokensConsumed' + Weight * Cardinality(ActiveSet')
               <= BudgetLimit + MaxConcurrent * Excess
  <2>1. tokensConsumed + Weight * n <= BudgetLimit + MaxConcurrent * Excess
    BY <1>8 DEF CommitmentBound
  <2>2. Weight * (n - 1) = Weight * n - Weight /\ Weight * n \in Nat
    BY <1>6, WeightType
  <2>3. tokensConsumed \in Nat
    BY DEF LedgerInv, HoldInv, TypeOK
  <2>4. BudgetLimit + MaxConcurrent * Excess \in Nat
    BY <1>8, WeightType, TimesPlus, ConstantsAssumption DEF ConstantsAssumption
  <2>. QED  BY <1>2, <1>4, <1>5, <2>1, <2>2, <2>3, <2>4, WeightType
<1>. QED  BY <1>7, <1>8 DEF CommitmentBound

\* A task ends: every reservation of its executions is charged in full.
LEMMA CancelLedger ==
  ASSUME LedgerInv, CommitmentBound, NEW S \in SUBSET Execution, Cancel(S)
  PROVE  LedgerBalanced' /\ CommitmentBound'
<1>. DEFINE n == Cardinality(ActiveSet)
            open == {e \in S : status[e] \notin {"absent", "completed"}}
            k == Cardinality(ActiveSet \cap S)
            owed == Reservation * Cardinality(Owing(open))
<1>1. ActiveSet' = ActiveSet \ S
  BY CancelLeaves DEF LedgerInv, HoldInv
<1>2. ActiveSet' = ActiveSet \ (ActiveSet \cap S)
  BY <1>1
<1>3. IsFiniteSet(ActiveSet \cap S) /\ k \in Nat /\ k <= n /\ n \in Nat
  BY ActiveFinite, FS_Subset, FS_CardinalityType, Zenon
<1>4. Cardinality(ActiveSet') = n - k
  BY <1>1, <1>2, <1>3, ActiveFinite, FS_Difference
<1>5. owed = Reservation * k
  <2>1. CASE Reservation = 0
    <3>1. Owing(open) \subseteq Execution
      BY DEF Owing
    <3>2. Cardinality(Owing(open)) \in Nat
      BY <3>1, FS_Subset, FS_CardinalityType, ConstantsAssumption
         DEF ConstantsAssumption
    <3>. QED  BY <1>3, <2>1, <3>2
  <2>2. CASE Reservation # 0
    <3>1. Owing(open) = ActiveSet \cap S
      BY <2>2, ConstantsAssumption
         DEF LedgerInv, HoldInv, TypeOK, Owing, ActiveSet, Active,
             ConstantsAssumption
    <3>. QED  BY <3>1
  <2>. QED  BY <2>1, <2>2
<1>6. /\ tokensReserved' = Minus(tokensReserved, owed)
      /\ tokensConsumed' = tokensConsumed + owed
  BY DEF Cancel, SettleAll
<1>7. \A w \in Nat : /\ w * (n - k) = w * n - w * k /\ w * k <= w * n
                     /\ w * n \in Nat /\ w * k \in Nat
  BY <1>3, TimesMinus, TimesPlus
<1>8. LedgerBalanced'
  <2>1. /\ Reservation * (n - k) = Reservation * n - Reservation * k
        /\ Reservation * k <= Reservation * n
        /\ Reservation * n \in Nat /\ Reservation * k \in Nat
    BY <1>7, WeightType
  <2>2. tokensReserved = Reservation * n
    BY DEF LedgerInv, LedgerBalanced
  <2>3. Minus(Reservation * n, Reservation * k) = Reservation * (n - k)
    BY <2>1 DEF Minus
  <2>. QED  BY <1>4, <1>5, <1>6, <2>2, <2>3 DEF LedgerBalanced
<1>9. ASSUME BudgetLimit # Unlimited
      PROVE  tokensConsumed' + Weight * Cardinality(ActiveSet')
               <= BudgetLimit + MaxConcurrent * Excess
  <2>1. tokensConsumed + Weight * n <= BudgetLimit + MaxConcurrent * Excess
    BY <1>9 DEF CommitmentBound
  <2>2. /\ Weight * (n - k) = Weight * n - Weight * k
        /\ Weight * n \in Nat /\ Weight * k \in Nat
    BY <1>7, WeightType
  <2>3. Weight * k = Reservation * k + Excess * k
    BY <1>3, WeightType DEF Weight
  <2>4. Reservation * k \in Nat /\ Excess * k \in Nat
    BY <1>7, WeightType
  <2>5. tokensConsumed \in Nat
    BY DEF LedgerInv, HoldInv, TypeOK
  <2>6. BudgetLimit + MaxConcurrent * Excess \in Nat
    BY <1>9, WeightType, TimesPlus, ConstantsAssumption DEF ConstantsAssumption
  <2>. QED  BY <1>4, <1>5, <1>6, <2>1, <2>2, <2>3, <2>4, <2>5, <2>6
<1>. QED  BY <1>8, <1>9 DEF CommitmentBound

-----------------------------------------------------------------------------
(* LedgerInv, the bound on the budget and the crash-free specification.    *)

\* The empty ledger balances.
LEMMA LedgerInit == ControlInit => LedgerInv /\ CommitmentBound
<1>. SUFFICES ASSUME ControlInit PROVE LedgerInv /\ CommitmentBound
  OBVIOUS
<1>1. ActiveSet = {}
  BY DEF ControlInit, ActiveSet, Active
<1>2. Cardinality(ActiveSet) = 0
  BY <1>1, FS_EmptySet
<1>3. HoldInv
  BY HoldInit
<1>4. LedgerBalanced
  BY <1>2, ConstantsAssumption
     DEF ControlInit, LedgerBalanced, ConstantsAssumption
<1>5. CommitmentBound
  <2>1. Weight * Cardinality(ActiveSet) = 0
    BY <1>2, WeightType
  <2>2. ASSUME BudgetLimit # Unlimited
        PROVE  BudgetLimit \in Nat /\ MaxConcurrent * Excess \in Nat
    BY <2>2, WeightType, TimesPlus, ConstantsAssumption DEF ConstantsAssumption
  <2>. QED  BY <2>1, <2>2 DEF ControlInit, CommitmentBound
<1>. QED  BY <1>3, <1>4, <1>5 DEF ControlInit, LedgerInv

\* Actions that move no token and change no slot holder.
LEMMA StillLedger ==
  ASSUME LedgerInv, CommitmentBound, ActiveSet' = ActiveSet,
         UNCHANGED <<tokensReserved, tokensConsumed>>
  PROVE  LedgerBalanced' /\ CommitmentBound'
BY DEF LedgerInv, LedgerBalanced, CommitmentBound

\* Both counters, over every step of ControlNext.
LEMMA CountersStep ==
  ASSUME LedgerInv, ConcurrencyBound, CommitmentBound,
         [ControlNext]_controlVars
  PROVE  LedgerBalanced' /\ CommitmentBound'
<1>. USE DEF LedgerInv, HoldInv
<1>1. ASSUME NEW S \in SUBSET Execution, Cancel(S)
      PROVE  LedgerBalanced' /\ CommitmentBound'
  BY <1>1, CancelLedger
<1>2. ASSUME NEW e \in Execution, Admit(e)
      PROVE  LedgerBalanced' /\ CommitmentBound'
  BY <1>2, AdmitLedger
<1>3. ASSUME NEW e \in Execution, Defer(e) \/ Reject(e)
      PROVE  LedgerBalanced' /\ CommitmentBound'
  <2>1. ~Active(e)
    BY <1>3, ConstantsAssumption
       DEF Defer, Reject, LockFree, Runnable, DeferredSet, Active,
           ConstantsAssumption
  <2>2. ActiveSet' = ActiveSet
    BY <1>3, <2>1, OutcomeLeaves DEF ActiveSet
  <2>3. UNCHANGED <<tokensReserved, tokensConsumed>>
    BY <1>3 DEF Defer, Reject, ledger
  <2>. QED  BY <2>2, <2>3, StillLedger
<1>4. ASSUME NEW e \in Execution,
             \/ SubmitFailed(e) \/ Fail(e)
             \/ \E usage \in Usage \cup {None} :
                   SubmitCompleted(e, usage) \/ Complete(e, usage)
      PROVE  LedgerBalanced' /\ CommitmentBound'
  <2>1. Active(e)
    BY <1>4, ConstantsAssumption
       DEF SubmitFailed, Fail, SubmitCompleted, Complete, Active,
           SubmittingRuns, ConstantsAssumption
  <2>2. ActiveSet' = ActiveSet \ {e}
    BY <1>4, OutcomeLeaves
  <2>3. PICK usage \in Usage \cup {None} : Settle(e, usage)
    BY <1>4 DEF SubmitFailed, Fail, SubmitCompleted, Complete
  <2>. QED  BY <2>1, <2>2, <2>3, OutcomeLedger
<1>5. ASSUME \/ \E S \in SUBSET Execution : Create(S) \/ Retry(S)
             \/ \E e \in Execution : Pick(e) \/ SubmitWaiting(e)
             \/ UNCHANGED controlVars
      PROVE  LedgerBalanced' /\ CommitmentBound'
  <2>1. ActiveSet' = ActiveSet
    BY <1>5, OthersKeep
  <2>2. UNCHANGED <<tokensReserved, tokensConsumed>>
    BY <1>5 DEF Create, Retry, Pick, SubmitWaiting, controlVars, ledger
  <2>. QED  BY <2>1, <2>2, StillLedger
<1>. QED  BY <1>1, <1>2, <1>3, <1>4, <1>5 DEF ControlNext

\* The per-execution part of LedgerInv: nobody runs outside a submission, and
\* nobody without a slot has a reservation.
LEMMA OwnersStep ==
  ASSUME LedgerInv, [ControlNext]_controlVars
  PROVE  \A f \in Execution :
           /\ status'[f] = "running" => submitting' = f
           /\ ~Active(f)' => reserved'[f] = 0
<1>. USE ConstantsAssumption DEF ConstantsAssumption, LedgerInv, HoldInv
<1>1. ASSUME NEW S \in SUBSET Execution, Create(S) \/ Retry(S)
      PROVE  \A f \in Execution : /\ status'[f] = "running" => submitting' = f
                                  /\ ~Active(f)' => reserved'[f] = 0
  BY <1>1 DEF Create, Retry, TypeOK, Active, ledger
<1>2. ASSUME NEW S \in SUBSET Execution, Cancel(S)
      PROVE  \A f \in Execution : /\ status'[f] = "running" => submitting' = f
                                  /\ ~Active(f)' => reserved'[f] = 0
  <2>. DEFINE open == {e \in S : status[e] \notin {"absent", "completed"}}
  <2>1. reserved' = [e \in Execution |-> IF e \in open THEN 0 ELSE reserved[e]]
    BY <1>2, SettleAllClears DEF Cancel
  <2>2. /\ status' = [e \in Execution |->
                        IF e \in open THEN "cancelled" ELSE status[e]]
        /\ UNCHANGED <<capacityWait, submitting>>
    BY <1>2 DEF Cancel
  <2>. QED  BY <2>1, <2>2 DEF TypeOK, Active
<1>3. ASSUME NEW e \in Execution, Admit(e)
      PROVE  \A f \in Execution : /\ status'[f] = "running" => submitting' = f
                                  /\ ~Active(f)' => reserved'[f] = 0
  BY <1>3 DEF Admit, LockFree, SetStatus, TypeOK, Active
<1>4. ASSUME NEW e \in Execution, Defer(e) \/ Reject(e) \/ Pick(e)
      PROVE  \A f \in Execution : /\ status'[f] = "running" => submitting' = f
                                  /\ ~Active(f)' => reserved'[f] = 0
  <2>1. reserved[e] = 0
    BY <1>4 DEF Defer, Reject, Pick, LockFree, Runnable, DeferredSet, Active
  <2>2. /\ UNCHANGED <<ledger, submitting>>
        /\ status'[e] # "running"
        /\ \A f \in Execution \ {e} :
             status'[f] = status[f] /\ capacityWait'[f] = capacityWait[f]
    BY <1>4 DEF Defer, Reject, Pick, SetStatus, TypeOK
  <2>. QED  BY <2>1, <2>2 DEF Active, ledger
<1>5. ASSUME NEW e \in Execution, SubmitWaiting(e)
      PROVE  \A f \in Execution : /\ status'[f] = "running" => submitting' = f
                                  /\ ~Active(f)' => reserved'[f] = 0
  BY <1>5 DEF SubmitWaiting, SubmittingRuns, SetStatus, TypeOK, Active, ledger
<1>6. ASSUME NEW e \in Execution,
             \/ SubmitFailed(e) \/ Fail(e)
             \/ \E usage \in Usage \cup {None} :
                   SubmitCompleted(e, usage) \/ Complete(e, usage)
      PROVE  \A f \in Execution : /\ status'[f] = "running" => submitting' = f
                                  /\ ~Active(f)' => reserved'[f] = 0
  <2>1. PICK usage \in Usage \cup {None}, s \in {"completed", "failed"} :
          /\ Settle(e, usage) /\ SetStatus(e, s) /\ UNCHANGED capacityWait
          /\ \/ submitting = e /\ submitting' = None
             \/ submitting = None /\ submitting' = None
    BY <1>6 DEF SubmitFailed, Fail, SubmitCompleted, Complete, LockFree
  <2>2. reserved' = [reserved EXCEPT ![e] = 0]
    BY <2>1, SettleClears
  <2>. QED  BY <2>1, <2>2 DEF SetStatus, TypeOK, Active
<1>7. ASSUME UNCHANGED controlVars
      PROVE  \A f \in Execution : /\ status'[f] = "running" => submitting' = f
                                  /\ ~Active(f)' => reserved'[f] = 0
  BY <1>7 DEF controlVars, ledger, Active
<1>. QED  BY <1>1, <1>2, <1>3, <1>4, <1>5, <1>6, <1>7 DEF ControlNext

\* The invariant of the crash-free specification.
ControlInv == LedgerInv /\ ConcurrencyBound /\ CommitmentBound

\* No step of the orchestrator passes the slot count.
LEMMA BoundStep ==
  HoldInv /\ ConcurrencyBound /\ [CrashNext]_controlVars => ConcurrencyBound'
<1>. SUFFICES ASSUME HoldInv, ConcurrencyBound, [CrashNext]_controlVars
              PROVE  ConcurrencyBound'
  OBVIOUS
<1>1. CASE ActiveSet' \subseteq ActiveSet
  <2>1. Cardinality(ActiveSet') <= Cardinality(ActiveSet)
    BY <1>1, ActiveFinite, FS_Subset
  <2>. QED  BY <2>1, ActiveFinite, ConstantsAssumption
            DEF ConcurrencyBound, ConstantsAssumption
<1>2. CASE \E e \in Execution : Admit(e) /\ ActiveSet' = ActiveSet \cup {e}
  BY <1>2, AdmitFits
<1>. QED  BY <1>1, <1>2, SlotStep

\* ControlInv is inductive.
LEMMA ControlStep == ControlInv /\ [ControlNext]_controlVars => ControlInv'
<1>. SUFFICES ASSUME ControlInv, [ControlNext]_controlVars PROVE ControlInv'
  OBVIOUS
<1>1. [CrashNext]_controlVars
  BY DEF CrashNext
<1>2. HoldInv'
  BY <1>1, HoldStep DEF ControlInv, LedgerInv
<1>3. ConcurrencyBound'
  BY <1>1, BoundStep DEF ControlInv, LedgerInv
<1>4. LedgerBalanced' /\ CommitmentBound'
  BY CountersStep DEF ControlInv
<1>5. \A f \in Execution : /\ status'[f] = "running" => submitting' = f
                           /\ ~Active(f)' => reserved'[f] = 0
  BY OwnersStep DEF ControlInv
<1>. QED  BY <1>2, <1>3, <1>4, <1>5 DEF ControlInv, LedgerInv

\* ControlInv holds in every state of the crash-free specification.
LEMMA ControlInvariant == ControlSpec => []ControlInv
<1>1. ControlInit => ControlInv
  BY LedgerInit, HoldInit DEF ControlInv
<1>. QED  BY <1>1, ControlStep, PTL DEF ControlSpec

-----------------------------------------------------------------------------
(* Theorems.                                                               *)

\* Every state has its type, lost submissions or not; in particular a settled
\* execution holds no reservation.
THEOREM TypeCorrect == CrashSpec => []TypeOK
<1>1. HoldInv => TypeOK
  BY DEF HoldInv
<1>. QED  BY <1>1, HoldInit, HoldStep, PTL DEF CrashSpec

\* The policy's slot count is never exceeded, lost submissions or not.
THEOREM ConcurrencyBounded == CrashSpec => []ConcurrencyBound
<1>1. ControlInit => HoldInv /\ ConcurrencyBound
  BY HoldInit
<1>2. HoldInv /\ ConcurrencyBound /\ [CrashNext]_controlVars
        => HoldInv' /\ ConcurrencyBound'
  BY HoldStep, BoundStep
<1>. QED  BY <1>1, <1>2, PTL DEF CrashSpec

\* While submissions commit their outcome, the reserved counter is exactly
\* what the slot holders reserved.
THEOREM LedgerAlwaysBalanced == ControlSpec => []LedgerBalanced
<1>1. ControlInv => LedgerBalanced
  BY DEF ControlInv, LedgerInv
<1>. QED  BY <1>1, ControlInvariant, PTL

\* The token budget is passed by no more than the excess of the Turns that
\* hold a slot.
THEOREM BudgetHolds == ControlSpec => []BudgetEdge
<1>1. ControlInv => BudgetEdge
  <2>. SUFFICES ASSUME ControlInv, BudgetLimit # Unlimited
                PROVE  tokensConsumed + tokensReserved
                         <= BudgetLimit + MaxConcurrent * Excess
    BY DEF BudgetEdge
  <2>. DEFINE n == Cardinality(ActiveSet)
  <2>1. n \in Nat  BY ActiveFinite
  <2>2. Weight * n = Reservation * n + Excess * n
    BY <2>1, WeightType DEF Weight
  <2>3. Reservation * n \in Nat /\ Excess * n \in Nat
    BY <2>1, WeightType, TimesPlus
  <2>4. tokensReserved = Reservation * n
    BY DEF ControlInv, LedgerInv, LedgerBalanced
  <2>5. tokensConsumed + Weight * n <= BudgetLimit + MaxConcurrent * Excess
    BY DEF ControlInv, CommitmentBound
  <2>6. tokensConsumed \in Nat /\ BudgetLimit + MaxConcurrent * Excess \in Nat
    BY WeightType, TimesPlus, ConstantsAssumption
       DEF ControlInv, LedgerInv, HoldInv, TypeOK, ConstantsAssumption
  <2>. QED  BY <2>2, <2>3, <2>4, <2>5, <2>6
<1>. QED  BY <1>1, ControlInvariant, PTL

\* The action of ReleaseSettles, and that of ChargeOnRelease.
ReleaseStep ==
  \A e \in Execution :
    /\ Active(e) /\ ~Active(e)' => settled'[e] /\ reserved'[e] = 0
    /\ Active(e) /\ Active(e)' /\ submitting' # e => ~settled'[e]

ChargeStep ==
  tokensConsumed' # tokensConsumed =>
    /\ tokensConsumed' > tokensConsumed
    /\ \E e \in Execution : Active(e) /\ ~Active(e)'

\* Actions that neither settle nor release.
LEMMA QuietSteps ==
  ASSUME LedgerInv,
         \/ \E S \in SUBSET Execution : Create(S) \/ Retry(S)
         \/ \E e \in Execution :
               Admit(e) \/ Defer(e) \/ Reject(e) \/ Pick(e) \/ SubmitWaiting(e)
         \/ UNCHANGED controlVars
  PROVE  /\ \A e \in Execution : Active(e) => Active(e)' /\ ~settled'[e]
         /\ tokensConsumed' = tokensConsumed
<1>. USE ConstantsAssumption DEF ConstantsAssumption, LedgerInv, HoldInv, TypeOK
<1>1. CASE \E S \in SUBSET Execution : Create(S) \/ Retry(S)
  BY <1>1 DEF Create, Retry, Active, ledger
<1>2. CASE \E e \in Execution : Admit(e)
  BY <1>2 DEF Admit, LockFree, Runnable, DeferredSet, SetStatus, Active
<1>3. CASE \E e \in Execution : Defer(e) \/ Reject(e) \/ Pick(e)
  BY <1>3 DEF Defer, Reject, Pick, LockFree, Runnable, DeferredSet, SetStatus,
              Active, ledger
<1>4. CASE \E e \in Execution : SubmitWaiting(e)
  BY <1>4 DEF SubmitWaiting, SubmittingRuns, SetStatus, Active, ledger
<1>5. CASE UNCHANGED controlVars
  BY <1>5 DEF controlVars, ledger, Active
<1>. QED  BY <1>1, <1>2, <1>3, <1>4, <1>5

\* The end of one execution settles it and touches no other.
LEMMA OutcomeSteps ==
  ASSUME LedgerInv, NEW e \in Execution,
         \/ SubmitFailed(e) \/ Fail(e)
         \/ \E usage \in Usage \cup {None} :
               SubmitCompleted(e, usage) \/ Complete(e, usage)
  PROVE  /\ Active(e) /\ ~Active(e)' /\ settled'[e] /\ reserved'[e] = 0
         /\ \A f \in Execution \ {e} :
              settled'[f] = settled[f] /\ (Active(f) => Active(f)')
         /\ tokensConsumed' >= tokensConsumed
<1>. USE ConstantsAssumption DEF ConstantsAssumption, LedgerInv, HoldInv
<1>1. PICK usage \in Usage \cup {None}, s \in {"completed", "failed"} :
        /\ Settle(e, usage) /\ SetStatus(e, s) /\ UNCHANGED capacityWait
        /\ status[e] = "running" \/ (status[e] = "waiting" /\ ~capacityWait[e])
  BY DEF SubmitFailed, Fail, SubmitCompleted, Complete, LockFree, SubmittingRuns
<1>2. reserved' = [reserved EXCEPT ![e] = 0] /\ settled' = [settled EXCEPT ![e] = TRUE]
  BY <1>1, SettleClears
<1>3. Active(e) /\ ~settled[e] /\ reserved[e] = Reservation
  BY <1>1 DEF Active
<1>4. tokensConsumed' = tokensConsumed + (IF usage = None THEN Reservation ELSE usage)
  BY <1>1, <1>3 DEF Settle
<1>5. (IF usage = None THEN Reservation ELSE usage) \in Nat /\ tokensConsumed \in Nat
  BY DEF Usage, TypeOK
<1>6. tokensConsumed' >= tokensConsumed
  BY <1>4, <1>5
<1>. QED  BY <1>1, <1>2, <1>3, <1>6 DEF TypeOK, SetStatus, Active

\* Cancelling settles every open execution of the task, and charges only if
\* one of them held a slot.
LEMMA CancelSteps ==
  ASSUME LedgerInv, NEW S \in SUBSET Execution, Cancel(S)
  PROVE  /\ \A e \in Execution : Active(e) =>
              IF e \in S
              THEN ~Active(e)' /\ settled'[e] /\ reserved'[e] = 0
              ELSE Active(e)' /\ settled'[e] = settled[e]
         /\ ChargeStep
<1>. USE DEF LedgerInv, HoldInv
<1>. DEFINE open == {e \in S : status[e] \notin {"absent", "completed"}}
            owed == Reservation * Cardinality(Owing(open))
<1>1. /\ reserved' = [e \in Execution |-> IF e \in open THEN 0 ELSE reserved[e]]
      /\ settled' = [e \in Execution |-> settled[e] \/ e \in open]
  BY SettleAllClears DEF Cancel
<1>2. /\ status' = [e \in Execution |->
                      IF e \in open THEN "cancelled" ELSE status[e]]
      /\ UNCHANGED <<capacityWait, submitting>>
  BY DEF Cancel
<1>3. \A e \in Execution : Active(e) =>
        IF e \in S
        THEN ~Active(e)' /\ settled'[e] /\ reserved'[e] = 0
        ELSE Active(e)' /\ settled'[e] = settled[e]
  BY <1>1, <1>2 DEF TypeOK, Active
<1>4. Owing(open) \subseteq ActiveSet \cap S
  BY DEF Owing, ActiveSet
<1>5. tokensConsumed' = tokensConsumed + owed
  BY DEF Cancel, SettleAll
<1>6. IsFiniteSet(Owing(open)) /\ owed \in Nat
  <2>1. IsFiniteSet(Owing(open))
    BY <1>4, ActiveFinite, FS_Subset
  <2>. QED  BY <2>1, FS_CardinalityType, WeightType, TimesPlus
<1>7. ChargeStep
  <2>. SUFFICES ASSUME tokensConsumed' # tokensConsumed
                PROVE  /\ tokensConsumed' > tokensConsumed
                       /\ \E e \in Execution : Active(e) /\ ~Active(e)'
    BY DEF ChargeStep
  <2>1. tokensConsumed \in Nat
    BY DEF TypeOK
  <2>2. owed # 0 /\ tokensConsumed' > tokensConsumed
    BY <1>5, <1>6, <2>1
  <2>3. Owing(open) # {}
    BY <2>2, FS_EmptySet, WeightType
  <2>. QED  BY <1>3, <1>4, <2>2, <2>3 DEF ActiveSet
<1>. QED  BY <1>3, <1>7

\* Every step settles what it releases and charges nothing else.
LEMMA SlotStepsSettle ==
  ControlInv /\ [ControlNext]_controlVars => ReleaseStep
<1>. SUFFICES ASSUME ControlInv, [ControlNext]_controlVars PROVE ReleaseStep
  OBVIOUS
<1>. USE DEF ControlInv
<1>1. ASSUME NEW S \in SUBSET Execution, Cancel(S)  PROVE ReleaseStep
  BY <1>1, CancelSteps DEF ReleaseStep, LedgerInv, HoldInv
<1>2. ASSUME NEW e \in Execution,
             \/ SubmitFailed(e) \/ Fail(e)
             \/ \E usage \in Usage \cup {None} :
                   SubmitCompleted(e, usage) \/ Complete(e, usage)
      PROVE  ReleaseStep
  BY <1>2, OutcomeSteps DEF ReleaseStep, LedgerInv, HoldInv
<1>3. ASSUME \/ \E S \in SUBSET Execution : Create(S) \/ Retry(S)
             \/ \E e \in Execution :
                   Admit(e) \/ Defer(e) \/ Reject(e) \/ Pick(e) \/ SubmitWaiting(e)
             \/ UNCHANGED controlVars
      PROVE  ReleaseStep
  BY <1>3, QuietSteps DEF ReleaseStep
<1>. QED  BY <1>1, <1>2, <1>3 DEF ControlNext

\* Every step that charges gives up a slot.
LEMMA ChargesReleaseSlots ==
  ControlInv /\ [ControlNext]_controlVars => ChargeStep
<1>. SUFFICES ASSUME ControlInv, [ControlNext]_controlVars PROVE ChargeStep
  OBVIOUS
<1>. USE DEF ControlInv
<1>1. ASSUME NEW S \in SUBSET Execution, Cancel(S)  PROVE ChargeStep
  BY <1>1, CancelSteps
<1>2. ASSUME NEW e \in Execution,
             \/ SubmitFailed(e) \/ Fail(e)
             \/ \E usage \in Usage \cup {None} :
                   SubmitCompleted(e, usage) \/ Complete(e, usage)
      PROVE  ChargeStep
  <2>1. tokensConsumed \in Nat /\ tokensConsumed' \in Nat
    BY ControlStep DEF ControlInv, LedgerInv, HoldInv, TypeOK
  <2>2. Active(e) /\ ~Active(e)' /\ tokensConsumed' >= tokensConsumed
    BY <1>2, OutcomeSteps
  <2>. QED  BY <2>1, <2>2 DEF ChargeStep
<1>3. ASSUME \/ \E S \in SUBSET Execution : Create(S) \/ Retry(S)
             \/ \E e \in Execution :
                   Admit(e) \/ Defer(e) \/ Reject(e) \/ Pick(e) \/ SubmitWaiting(e)
             \/ UNCHANGED controlVars
      PROVE  ChargeStep
  BY <1>3, QuietSteps DEF ChargeStep
<1>. QED  BY <1>1, <1>2, <1>3 DEF ControlNext

\* A slot is given up and settled in one step, never one without the other.
THEOREM ReleasesAreSettled == ControlSpec => ReleaseSettles
<1>1. ControlInv /\ [ControlNext]_controlVars => [ReleaseStep]_controlVars
  BY SlotStepsSettle
<1>. QED  BY <1>1, ControlInvariant, PTL DEF ControlSpec, ReleaseSettles, ReleaseStep

\* Tokens are charged only by a step that gives up a slot.
THEOREM ChargesAreReleases == ControlSpec => ChargeOnRelease
<1>1. ControlInv /\ [ControlNext]_controlVars => [ChargeStep]_controlVars
  BY ChargesReleaseSlots
<1>. QED  BY <1>1, ControlInvariant, PTL DEF ControlSpec, ChargeOnRelease, ChargeStep

-----------------------------------------------------------------------------
(* Lost submissions.  A lost submission leaves an execution "running" that *)
(* may queue, fail or be admitted again with its old reservation on it.    *)
(* What stays true is counted over the reservations that settle can still  *)
(* find, not over the slots.                                               *)

\* The reservations on the rows are covered by the counter.
Covered == tokensReserved >= Reservation * Cardinality(Owing(Execution))

\* The budget bound, strengthened by what the slot holders may use beyond their
\* reservation.
Committed ==
  BudgetLimit # Unlimited =>
    tokensConsumed + tokensReserved + Excess * Cardinality(ActiveSet)
      <= BudgetLimit + MaxConcurrent * Excess

CrashInv == HoldInv /\ ConcurrencyBound /\ Covered /\ Committed

\* What is owed, before and after a step, is finitely many reservations.
LEMMA OwingFinite ==
  /\ IsFiniteSet(Owing(Execution)) /\ Cardinality(Owing(Execution)) \in Nat
  /\ IsFiniteSet(Owing(Execution)') /\ Cardinality(Owing(Execution)') \in Nat
<1>1. Owing(Execution) \subseteq Execution /\ Owing(Execution)' \subseteq Execution
  BY DEF Owing
<1>2. IsFiniteSet(Owing(Execution)) /\ IsFiniteSet(Owing(Execution)')
  BY <1>1, FS_Subset, ConstantsAssumption DEF ConstantsAssumption
<1>. QED  BY <1>2, FS_CardinalityType

\* An admission adds its reservation to the counter, at most once to the rows.
LEMMA AdmitCrash ==
  ASSUME CrashInv, ConcurrencyBound', NEW e \in Execution, Admit(e)
  PROVE  Covered' /\ Committed'
<1>. DEFINE n == Cardinality(Owing(Execution))
            m == Cardinality(Owing(Execution)')
            a == Cardinality(ActiveSet')
<1>1. Owing(Execution)' \subseteq Owing(Execution) \cup {e}
  BY DEF CrashInv, HoldInv, TypeOK, Owing, Admit
<1>2. n \in Nat /\ m \in Nat /\ m <= n + 1
  <2>1. IsFiniteSet(Owing(Execution) \cup {e})
        /\ Cardinality(Owing(Execution) \cup {e}) <= n + 1
    <3>1. IsFiniteSet(Owing(Execution)) /\ n \in Nat  BY OwingFinite
    <3>. HIDE DEF n
    <3>2. /\ IsFiniteSet(Owing(Execution) \cup {e})
          /\ Cardinality(Owing(Execution) \cup {e})
               = IF e \in Owing(Execution) THEN n ELSE n + 1
      BY <3>1, FS_AddElement DEF n
    <3>. QED  BY <3>1, <3>2
  <2>2. m <= Cardinality(Owing(Execution) \cup {e})
    BY <1>1, <2>1, FS_Subset
  <2>. QED  BY <2>1, <2>2, OwingFinite, FS_CardinalityType
<1>3. tokensReserved' = tokensReserved + Reservation /\ tokensConsumed' = tokensConsumed
  BY DEF Admit
<1>4. tokensReserved \in Nat /\ tokensConsumed \in Nat
  BY DEF CrashInv, HoldInv, TypeOK
<1>5. Covered'
  <2>1. /\ Reservation * (n + 1) = Reservation * n + Reservation
        /\ Reservation * m <= Reservation * (n + 1)
        /\ Reservation * n \in Nat /\ Reservation * m \in Nat
    BY <1>2, TimesPlus, TimesMinus, WeightType
  <2>. QED  BY <1>3, <1>4, <2>1, WeightType DEF CrashInv, Covered
<1>6. ASSUME BudgetLimit # Unlimited
      PROVE  tokensConsumed' + tokensReserved' + Excess * a
               <= BudgetLimit + MaxConcurrent * Excess
  <2>1. tokensConsumed + tokensReserved + Reservation <= BudgetLimit
    BY <1>6 DEF Admit, WithinBudget
  <2>2. a \in Nat /\ a <= MaxConcurrent
    BY ActiveFinite DEF ConcurrencyBound
  <2>3. Excess * a <= Excess * MaxConcurrent
        /\ Excess * a \in Nat /\ Excess * MaxConcurrent \in Nat
    BY <2>2, WeightType, TimesMinus, TimesPlus, ConstantsAssumption
       DEF ConstantsAssumption
  <2>4. MaxConcurrent * Excess = Excess * MaxConcurrent
    BY WeightType, ConstantsAssumption DEF ConstantsAssumption
  <2>5. BudgetLimit \in Nat  BY <1>6, ConstantsAssumption DEF ConstantsAssumption
  <2>. QED  BY <1>3, <1>4, <2>1, <2>3, <2>4, <2>5, WeightType
<1>. QED  BY <1>5, <1>6 DEF Committed

\* One execution that holds a slot ends.
LEMMA OutcomeCrash ==
  ASSUME CrashInv, NEW e \in Execution, Active(e), ActiveSet' = ActiveSet \ {e},
         NEW usage \in Usage \cup {None}, Settle(e, usage)
  PROVE  Covered' /\ Committed'
<1>. DEFINE n == Cardinality(Owing(Execution))
            m == Cardinality(Owing(Execution)')
            k == Cardinality(ActiveSet)
            charge == IF usage = None THEN Reservation ELSE usage
<1>. USE DEF CrashInv
<1>1. reserved[e] = Reservation /\ ~settled[e]
  BY DEF HoldInv
<1>2. Owing(Execution)' = Owing(Execution) \ {e}
  BY SettleClears DEF HoldInv, TypeOK, Owing
<1>3. n \in Nat /\ m \in Nat /\ Reservation * m = Reservation * n - Reservation
      /\ Reservation * n \in Nat /\ Reservation * m \in Nat
  <2>1. CASE Reservation = 0
    BY <2>1, OwingFinite
  <2>2. CASE Reservation # 0
    <3>1. e \in Owing(Execution)  BY <1>1, <2>2 DEF Owing
    <3>2. m = n - 1 /\ n \in Nat /\ m \in Nat
      BY <1>2, <3>1, OwingFinite, FS_RemoveElement
    <3>. QED  BY <3>2, WeightType, TimesMinus
  <2>. QED  BY <2>1, <2>2
<1>4. tokensReserved \in Nat /\ tokensConsumed \in Nat
  BY DEF HoldInv, TypeOK
<1>5. /\ tokensReserved' = tokensReserved - Reservation
      /\ tokensConsumed' = tokensConsumed + charge
  <2>1. tokensReserved >= Reservation
    BY <1>3, <1>4, WeightType DEF Covered
  <2>2. Minus(tokensReserved, Reservation) = tokensReserved - Reservation
    BY <1>4, <2>1, WeightType DEF Minus
  <2>. QED  BY <1>1, <2>2 DEF Settle
<1>6. Covered'
  BY <1>3, <1>4, <1>5, WeightType DEF Covered
<1>7. ASSUME BudgetLimit # Unlimited
      PROVE  tokensConsumed' + tokensReserved' + Excess * Cardinality(ActiveSet')
               <= BudgetLimit + MaxConcurrent * Excess
  <2>1. k \in Nat /\ Cardinality(ActiveSet') = k - 1 /\ k - 1 \in Nat
    BY ActiveFinite, FS_RemoveElement DEF ActiveSet
  <2>2. Excess * (k - 1) = Excess * k - Excess /\ Excess * k \in Nat
    BY <2>1, TimesMinus, TimesPlus, WeightType
  <2>3. charge \in Nat /\ charge <= Reservation + Excess
    BY WeightType, ConstantsAssumption DEF Usage, ConstantsAssumption, Weight
  <2>4. tokensConsumed + tokensReserved + Excess * k
          <= BudgetLimit + MaxConcurrent * Excess
    BY <1>7 DEF Committed
  <2>5. BudgetLimit + MaxConcurrent * Excess \in Nat
    BY <1>7, WeightType, TimesPlus, ConstantsAssumption DEF ConstantsAssumption
  <2>6. Excess * Cardinality(ActiveSet') = Excess * k - Excess  BY <2>1, <2>2
  <2>7. tokensConsumed' + tokensReserved'
          = tokensConsumed + tokensReserved + charge - Reservation
    BY <1>4, <1>5, <2>3, WeightType
  <2>. HIDE DEF k, charge
  <2>. QED  BY <1>4, <2>2, <2>3, <2>4, <2>5, <2>6, <2>7, WeightType
<1>. QED  BY <1>6, <1>7 DEF Committed

\* A cancellation moves what its executions owe from reserved to consumed, also
\* what a lost submission left on a row without a slot.
LEMMA CancelCrash ==
  ASSUME CrashInv, NEW S \in SUBSET Execution, Cancel(S)
  PROVE  Covered' /\ Committed'
<1>. DEFINE open == {e \in S : status[e] \notin {"absent", "completed"}}
            n == Cardinality(Owing(Execution))
            k == Cardinality(Owing(open))
            m == Cardinality(Owing(Execution)')
<1>. USE DEF CrashInv
<1>1. Owing(open) \subseteq Owing(Execution) /\ open \subseteq Execution
  BY DEF Owing
<1>2. Owing(Execution)' = Owing(Execution) \ Owing(open)
  <2>1. SettleAll(open)  BY DEF Cancel
  <2>2. /\ reserved' = [e \in Execution |-> IF e \in open THEN 0 ELSE reserved[e]]
        /\ settled' = [e \in Execution |-> settled[e] \/ e \in open]
    BY <1>1, <2>1, SettleAllClears DEF HoldInv
  <2>. QED  BY <1>1, <2>2 DEF HoldInv, TypeOK, Owing
<1>3. IsFiniteSet(Owing(open)) /\ k \in Nat /\ k <= n /\ n \in Nat /\ m = n - k
  <2>1. IsFiniteSet(Owing(open)) /\ k <= n
    BY <1>1, OwingFinite, FS_Subset
  <2>2. Owing(Execution) \cap Owing(open) = Owing(open)  BY <1>1
  <2>3. m = n - Cardinality(Owing(Execution) \cap Owing(open))
    BY <1>2, <2>1, OwingFinite, FS_Difference
  <2>. QED  BY <2>1, <2>2, <2>3, OwingFinite, FS_CardinalityType
<1>4. /\ Reservation * m = Reservation * n - Reservation * k
      /\ Reservation * k <= Reservation * n
      /\ Reservation * n \in Nat /\ Reservation * k \in Nat
  BY <1>3, TimesMinus, TimesPlus, WeightType
<1>5. tokensReserved \in Nat /\ tokensConsumed \in Nat
  BY DEF HoldInv, TypeOK
<1>6. /\ tokensReserved' = tokensReserved - Reservation * k
      /\ tokensConsumed' = tokensConsumed + Reservation * k
  <2>1. tokensReserved >= Reservation * k
    BY <1>4, <1>5 DEF Covered
  <2>2. Minus(tokensReserved, Reservation * k) = tokensReserved - Reservation * k
    BY <1>4, <1>5, <2>1 DEF Minus
  <2>. QED  BY <2>2 DEF Cancel, SettleAll
<1>7. Covered'
  BY <1>4, <1>5, <1>6 DEF Covered
<1>8. ASSUME BudgetLimit # Unlimited
      PROVE  tokensConsumed' + tokensReserved' + Excess * Cardinality(ActiveSet')
               <= BudgetLimit + MaxConcurrent * Excess
  <2>1. Cardinality(ActiveSet') <= Cardinality(ActiveSet)
    <3>1. ActiveSet' = ActiveSet \ S  BY CancelLeaves DEF HoldInv
    <3>. QED  BY <3>1, ActiveFinite, FS_Subset
  <2>2. Excess * Cardinality(ActiveSet') <= Excess * Cardinality(ActiveSet)
        /\ Excess * Cardinality(ActiveSet') \in Nat
        /\ Excess * Cardinality(ActiveSet) \in Nat
    BY <2>1, ActiveFinite, TimesMinus, TimesPlus, WeightType
  <2>3. tokensConsumed + tokensReserved + Excess * Cardinality(ActiveSet)
          <= BudgetLimit + MaxConcurrent * Excess
    BY <1>8 DEF Committed
  <2>4. BudgetLimit + MaxConcurrent * Excess \in Nat
    BY <1>8, WeightType, TimesPlus, ConstantsAssumption DEF ConstantsAssumption
  <2>. QED  BY <1>4, <1>5, <1>6, <2>2, <2>3, <2>4
<1>. QED  BY <1>7, <1>8 DEF Committed

\* A step that touches no reservation and adds no slot holder.
LEMMA StillCrash ==
  ASSUME CrashInv, UNCHANGED ledger, ActiveSet' \subseteq ActiveSet
  PROVE  Covered' /\ Committed'
<1>. USE DEF CrashInv
<1>1. Owing(Execution)' = Owing(Execution)  BY DEF Owing, ledger
<1>2. Covered'  BY <1>1 DEF Covered, ledger
<1>3. ASSUME BudgetLimit # Unlimited
      PROVE  tokensConsumed' + tokensReserved' + Excess * Cardinality(ActiveSet')
               <= BudgetLimit + MaxConcurrent * Excess
  <2>1. Cardinality(ActiveSet') <= Cardinality(ActiveSet)
    BY ActiveFinite, FS_Subset
  <2>2. Excess * Cardinality(ActiveSet') <= Excess * Cardinality(ActiveSet)
        /\ Excess * Cardinality(ActiveSet') \in Nat
        /\ Excess * Cardinality(ActiveSet) \in Nat
    BY <2>1, ActiveFinite, TimesMinus, TimesPlus, WeightType
  <2>3. tokensConsumed + tokensReserved + Excess * Cardinality(ActiveSet)
          <= BudgetLimit + MaxConcurrent * Excess
    BY <1>3 DEF Committed
  <2>4. BudgetLimit + MaxConcurrent * Excess \in Nat
    BY <1>3, WeightType, TimesPlus, ConstantsAssumption DEF ConstantsAssumption
  <2>5. tokensReserved \in Nat /\ tokensConsumed \in Nat
    BY DEF HoldInv, TypeOK
  <2>. QED  BY <2>2, <2>3, <2>4, <2>5 DEF ledger
<1>. QED  BY <1>2, <1>3 DEF Committed

\* CrashInv is inductive, lost submissions included.
LEMMA CrashStep == CrashInv /\ [CrashNext]_controlVars => CrashInv'
<1>. SUFFICES ASSUME CrashInv, [CrashNext]_controlVars PROVE CrashInv'
  OBVIOUS
<1>1. HoldInv' /\ ConcurrencyBound'
  BY HoldStep, BoundStep DEF CrashInv
<1>2. Covered' /\ Committed'
  <2>1. ASSUME NEW S \in SUBSET Execution, Cancel(S)
        PROVE  Covered' /\ Committed'
    BY <2>1, CancelCrash
  <2>2. ASSUME NEW e \in Execution, Admit(e)
        PROVE  Covered' /\ Committed'
    BY <1>1, <2>2, AdmitCrash
  <2>3. ASSUME NEW e \in Execution,
               \/ SubmitFailed(e) \/ Fail(e)
               \/ \E usage \in Usage \cup {None} :
                     SubmitCompleted(e, usage) \/ Complete(e, usage)
        PROVE  Covered' /\ Committed'
    <3>1. ActiveSet' = ActiveSet \ {e}
      BY <2>3, OutcomeLeaves DEF CrashInv, HoldInv
    <3>2. Active(e)
      BY <2>3, ConstantsAssumption
         DEF CrashInv, HoldInv, SubmittingRuns, SubmitFailed, Fail, SubmitCompleted,
             Complete, Active, ConstantsAssumption
    <3>3. \E usage \in Usage \cup {None} : Settle(e, usage)
      BY <2>3 DEF SubmitFailed, Fail, SubmitCompleted, Complete
    <3>. QED  BY <3>1, <3>2, <3>3, OutcomeCrash
  <2>4. ASSUME NEW e \in Execution, Defer(e) \/ Reject(e)
        PROVE  Covered' /\ Committed'
    <3>1. ActiveSet' \subseteq ActiveSet
      BY <2>4, OutcomeLeaves DEF CrashInv, HoldInv
    <3>2. UNCHANGED ledger  BY <2>4 DEF Defer, Reject
    <3>. QED  BY <3>1, <3>2, StillCrash
  <2>5. ASSUME \/ \E S \in SUBSET Execution : Create(S) \/ Retry(S)
               \/ \E e \in Execution : Pick(e) \/ SubmitWaiting(e)
               \/ SubmissionLost
               \/ UNCHANGED controlVars
        PROVE  Covered' /\ Committed'
    <3>1. ActiveSet' = ActiveSet
      BY <2>5, OthersKeep DEF CrashInv, HoldInv
    <3>2. UNCHANGED ledger
      BY <2>5 DEF Create, Retry, Pick, SubmitWaiting, SubmissionLost, controlVars
    <3>. QED  BY <3>1, <3>2, StillCrash
  <2>. QED  BY <2>1, <2>2, <2>3, <2>4, <2>5 DEF CrashNext, ControlNext
<1>. QED  BY <1>1, <1>2 DEF CrashInv

\* CrashInv holds in every state, however many submissions were lost.
LEMMA CrashInvariant == CrashSpec => []CrashInv
<1>1. ASSUME ControlInit PROVE CrashInv
  <2>1. HoldInv /\ ConcurrencyBound  BY <1>1, HoldInit
  <2>2. ActiveSet = {} /\ Owing(Execution) = {}
    BY <1>1 DEF ControlInit, ActiveSet, Active, Owing
  <2>3. /\ Reservation * Cardinality(Owing(Execution)) = 0
        /\ Excess * Cardinality(ActiveSet) = 0
    BY <2>2, FS_EmptySet, WeightType
  <2>4. Covered  BY <1>1, <2>3 DEF ControlInit, Covered
  <2>5. Committed
    <3>1. ASSUME BudgetLimit # Unlimited
          PROVE  BudgetLimit \in Nat /\ MaxConcurrent * Excess \in Nat
      BY <3>1, WeightType, TimesPlus, ConstantsAssumption DEF ConstantsAssumption
    <3>. QED  BY <1>1, <2>3, <3>1 DEF ControlInit, Committed
  <2>. QED  BY <2>1, <2>4, <2>5 DEF CrashInv
<1>. QED  BY <1>1, CrashStep, PTL DEF CrashSpec

\* After lost submissions the counter may be too high, never too low: the budget
\* still refuses what it must refuse.
THEOREM LedgerAlwaysCovers == CrashSpec => []LedgerCovers
<1>1. ASSUME CrashInv PROVE LedgerCovers
  <2>. DEFINE n == Cardinality(Owing(Execution))
              k == Cardinality(ActiveSet)
  <2>1. tokensReserved \in Nat  BY <1>1 DEF CrashInv, HoldInv, TypeOK
  <2>2. CASE Reservation = 0  BY <2>1, <2>2, ActiveFinite DEF LedgerCovers
  <2>3. CASE Reservation # 0
    <3>1. ActiveSet \subseteq Owing(Execution)
      BY <1>1, <2>3 DEF CrashInv, HoldInv, ActiveSet, Owing
    <3>2. k <= n /\ k \in Nat /\ n \in Nat
      BY <3>1, OwingFinite, ActiveFinite, FS_Subset
    <3>3. Reservation * k <= Reservation * n
          /\ Reservation * k \in Nat /\ Reservation * n \in Nat
      BY <3>2, TimesMinus, TimesPlus, WeightType
    <3>. QED  BY <1>1, <2>1, <3>3 DEF CrashInv, Covered, LedgerCovers
  <2>. QED  BY <2>2, <2>3
<1>. QED  BY <1>1, CrashInvariant, PTL

\* A lost submission does not let the owner pass the budget either: a
\* reservation that was left behind counts until it is charged.
THEOREM BudgetHoldsOverLosses == CrashSpec => []BudgetEdge
<1>1. ASSUME CrashInv PROVE BudgetEdge
  <2>. SUFFICES ASSUME BudgetLimit # Unlimited
                PROVE  tokensConsumed + tokensReserved
                         <= BudgetLimit + MaxConcurrent * Excess
    BY DEF BudgetEdge
  <2>1. Excess * Cardinality(ActiveSet) \in Nat
    BY ActiveFinite, WeightType, TimesPlus
  <2>2. tokensReserved \in Nat /\ tokensConsumed \in Nat
    BY <1>1 DEF CrashInv, HoldInv, TypeOK
  <2>3. BudgetLimit + MaxConcurrent * Excess \in Nat
    BY WeightType, TimesPlus, ConstantsAssumption DEF ConstantsAssumption
  <2>. QED  BY <1>1, <2>1, <2>2, <2>3 DEF CrashInv, Committed
<1>. QED  BY <1>1, CrashInvariant, PTL

=============================================================================
