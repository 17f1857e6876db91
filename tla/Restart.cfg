\* Two tasks share one slot, either may be cancelled, and the process stops once.
SPECIFICATION RestartSpec
CONSTANTS
  t1 = t1
  t2 = t2
  a1 = a1
  l1 = l1
  a2 = a2
  l2 = l2
  Task <- TwoTasks
  Execution <- TwoExecutions
  Specialists <- TwoSpecialists
  Lead <- TwoLead
  Cancellable <- TwoTasks
  MaxConcurrent = 1
  Reservation = 1
  BudgetLimit = Unlimited
  Unlimited = Unlimited
  MaxUsage = 1
  None = None
  Submissions = {"waiting"}
  Reports = {"completed"}
  Verdicts = {"accepted"}
  MaxCalls = 1
  Endpoint = TRUE
  MaxCrashes = 1
INVARIANTS LedgerCovers NoIdleSlotServing
CHECK_DEADLOCK FALSE
