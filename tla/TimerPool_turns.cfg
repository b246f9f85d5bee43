SPECIFICATION Spec
CONSTANTS
  Gran = 2
  N = 3
  MaxNow = 11
  MaxLag = 3
  MaxTimers = 3
INVARIANTS
  Accounted
  AheadOfSweep
PROPERTY CallbackOrder
CHECK_DEADLOCK FALSE
