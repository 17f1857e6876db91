SPECIFICATION ControlSpec
CONSTANTS
  Execution = {e1, e2, e3}
  MaxConcurrent = 2
  Reservation = 2
  BudgetLimit = 6
  MaxUsage = 3
  Unlimited = Unlimited
  None = None
INVARIANTS TypeOK ConcurrencyBound  BudgetEdge
PROPERTIES ReleaseSettles 
SYMMETRY ExecutionSymmetry
