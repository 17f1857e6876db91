SPECIFICATION FairSpec
CONSTANTS
  t1 = t1
  a1 = a1
  b1 = b1
  l1 = l1
  Task <- OneTask
  Execution <- OneExecutions
  Specialists <- OneSpecialists
  Lead <- OneLead
  Cancellable = {}
  MaxConcurrent = 1
  Reservation = 0
  BudgetLimit = Unlimited
  Unlimited = Unlimited
  MaxUsage = 0
  None = None
  Submissions = {"waiting", "completed"}
  Reports = {"completed", "interrupted"}
  Verdicts = {"accepted", "needs_revision", "invalid"}
  MaxCalls = 3
INVARIANTS TurnsAreWatched WaitingForSomething
PROPERTIES StartedTaskEnds
CHECK_DEADLOCK FALSE
