\* A Turn may complete without a message of the agent.
SPECIFICATION FairSpec
CONSTANTS
  e1 = e1
  e2 = e2
  Execution = {e1}
  None = None
  Client = Client
  Endpoints <- BothKinds
  Endings = {"completed", "silent"}
  Refusals = FALSE
  MaxTurns = 1
  MaxLosses = 0
  MaxCrashes = 0
PROPERTY EveryEndReported
CHECK_DEADLOCK FALSE
