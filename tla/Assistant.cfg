\* One conversation, two Turns and two Actions, a pool of two threads, an endpoint at which
\* a stop may leave its Turn to be found again or not.
SPECIFICATION Spec
CONSTANTS
  None = None
  MaxTurns = 2
  MaxActions = 2
  Payload = {"a task", "a retry"}
  Repeats = {"a retry"}
  Workers = 2
  Endpoints = {TRUE}
  MaxLosses = 1
  MaxStops = 1
INVARIANTS AssistantTypeOK OneTurnInFlight ActiveActionsDistinct OneEffect ConfirmedIsQueued
PROPERTY CancelledStays
CHECK_DEADLOCK FALSE
