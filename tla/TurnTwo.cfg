\* Two executions of a task: the end of one fails or cancels the task of the other, whose
\* prompts a cancellation, a stop or a startup then resolves.
SPECIFICATION PromptSpec
CONSTANTS
  e1 = e1
  e2 = e2
  Execution = {e1, e2}
  None = None
  Client = Client
  Endpoints = {TRUE}
  Endings = {"completed"}
  Refusals = TRUE
  MaxTurns = 1
  MaxLosses = 1
  MaxCrashes = 1
INVARIANTS CancelledHasNoPrompts CancelCovers
PROPERTY SleepersWake
CHECK_DEADLOCK FALSE
