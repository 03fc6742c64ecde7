SPECIFICATION Spec
CONSTANTS
  r1 = r1
  r2 = r2
  Remotes = {r1, r2}
  Enabled = {r1, r2}
  MasterNode = master
  None = None
  Directions = {"LEFT", "UP"}
  Neighbors <- MCNeighbors
  Hotkeys = {"node", "loglevel"}
  MouseSwitch = FALSE
  FocusHint = "none"
  FadeSteps = 1
  ShowNullSwitch = "no"
  MaxTries = 1
  MaxBacklog = 2
  ScrollMult = 1
  MaxMods = 0
  Addr = {1, 2}
  Allocators <- MCAllocators
  MaxFades = 0
  MaxNest = 1
CHECK_DEADLOCK FALSE
INVARIANT NoSendOnClosedChannel
