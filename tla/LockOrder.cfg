SPECIFICATION LockSpec
CONSTANTS
  Thread = {x1, x2, x3, x4}
  Mixes <- SafeMixes
  FanOut = TRUE
  None = None
INVARIANTS LockTypeOK NoCircularWait
SYMMETRY ThreadSymmetry
