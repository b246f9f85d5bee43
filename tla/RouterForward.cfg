SPECIFICATION Spec
CONSTANTS
  Servers <- MCServers
  IdWidth = 3
  Fds = {f1, f2}
  Transfers = 2
  TFds = {1, 2}
  Uids = {0, 1}
  Configs <- MCConfigs
  MaxReloads = 1
  MaxStrays = 1
SYMMETRY Descriptors
CONSTRAINT Explored
ACTION_CONSTRAINT Fresh
INVARIANTS
  RightServer
  Reaches
  ByPolicy
  TransferReached
PROPERTY PlacementStable
CHECK_DEADLOCK FALSE
