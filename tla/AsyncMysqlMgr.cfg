SPECIFICATION FairSpec
CONSTANTS
  W = 2
  QueueMax = 1
  MaxReqs = 3
  MaxSpurious = 1
INVARIANTS
  QueueBound
PROPERTIES
  ImplementsService
  AllAnswered
CHECK_DEADLOCK FALSE
