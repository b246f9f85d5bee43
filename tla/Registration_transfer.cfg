SPECIFICATION FairSpec
CONSTANTS
  Fds = {f1}
  Randoms = {r1, r2}
  Configs = {TRUE}
  KeepsBuffer = TRUE
  MaxConns = 1
  MaxBreaks = 0
  MaxRestarts = 0
  MaxCrashes = 0
  MaxReloads = 0
  MaxEarly = 1
PROPERTY Registers
CHECK_DEADLOCK FALSE
