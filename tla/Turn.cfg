\* One execution and a retry of it: connections lost, shutdown, crash, startup.
SPECIFICATION FairSpec
CONSTANTS
  e1 = e1
  e2 = e2
  Execution = {e1}
  None = None
  Client = Client
  Endpoints <- BothKinds
  Endings = {"completed", "failed"}
  Refusals = FALSE
  MaxTurns = 2
  MaxLosses = 1
  MaxCrashes = 1
INVARIANTS TurnTypeOK WaitingIsOwned FreshAnswers
PROPERTY TurnsAreReported
CHECK_DEADLOCK FALSE
