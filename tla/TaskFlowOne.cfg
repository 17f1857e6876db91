SPECIFICATION FlowSpec
CONSTANTS
  t1 = t1
  a1 = a1
  b1 = b1
  l1 = l1
  Task <- OneTask
  Execution <- OneExecutions
  Specialists <- OneSpecialists
  Lead <- OneLead
  Cancellable <- OneTask
  MaxConcurrent = 2
  Reservation = 1
  BudgetLimit = 3
  Unlimited = Unlimited
  MaxUsage = 1
  None = None
  Submissions = {"waiting", "completed", "failed", "rejected"}
  Reports = {"completed", "failed", "interrupted"}
  Verdicts = {"accepted", "needs_revision", "invalid"}
  MaxCalls = 2
INVARIANTS FlowTypeOK ReviewAfterDelivery CompletedOnAcceptance CancelledIsQuiet
PROPERTIES DeliveredStays ControlSpec
CHECK_DEADLOCK FALSE
