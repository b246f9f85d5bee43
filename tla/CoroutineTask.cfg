SPECIFICATION FairSpec
CONSTANTS
  MaxReserve = 2
  MaxTasks = 4
  MaxYields = 3
  MaxTwice = 1
  MaxClears = 1
INVARIANTS
  IdsExact
  KeptUsable
  ResumeReachesTask
PROPERTIES
  ImplementsTasks
  ResumedGoesOn
CHECK_DEADLOCK FALSE
