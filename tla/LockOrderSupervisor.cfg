SPECIFICATION LockSpec
CONSTANTS
  Thread = {x1, x2, x3}
  Mixes <- SupervisorMix
  FanOut = TRUE
  None = None
INVARIANTS NoCircularWait
