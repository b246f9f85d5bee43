SPECIFICATION FairSpec
CONSTANTS
  Trans = {t1, t2, t3}
  NoTrans = NoTrans
  Cmds = {c1, c2}
  NoCmd = NoCmd
  Randoms = {1, 2}
  MaxConcurrent = 1
  MaxTransId = 3
  MaxCalls = 3
CONSTRAINT Explored
INVARIANTS
  TypeOK
  ActiveMapExact
  PoolExact
  EventsBelong
  ConcurrencyBound
  WaitGuarded
PROPERTIES
  OwnAnswer
  WaitEnds
CHECK_DEADLOCK FALSE
