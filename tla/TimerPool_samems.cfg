SPECIFICATION Spec
CONSTANTS
  Gran = 2
  N = 3
  MaxNow = 5
  MaxLag = 5
  MaxTimers = 2
INVARIANT AcceptedAreCalled
CHECK_DEADLOCK FALSE
