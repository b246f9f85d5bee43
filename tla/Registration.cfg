SPECIFICATION Spec
CONSTANTS
  Fds = {f1, f2}
  Randoms = {r1}
  Configs = {TRUE, FALSE}
  KeepsBuffer = FALSE
  MaxConns = 3
  MaxBreaks = 1
  MaxRestarts = 1
  MaxCrashes = 1
  MaxReloads = 2
  MaxEarly = 1
SYMMETRY Descriptors
INVARIANTS
  NoDeadRoute
  RegisteredIsRouted
  OneLink
CHECK_DEADLOCK FALSE
