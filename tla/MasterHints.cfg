SPECIFICATION FairSpec
CONSTANTS
  r1 = r1
  r2 = r2
  Remotes = {r2}
  Enabled = {r2}
  MasterNode = master
  None = None
  Directions = {"UP"}
  Neighbors <- MCNeighbors
  Hotkeys = {"direction", "node", "previous", "reconnect", "clear"}
  MouseSwitch = FALSE
  FocusHint = "dim_inactive"
  FadeSteps = 2
  ShowNullSwitch = "hotkeyonly"
  MaxTries = 1
  MaxBacklog = 3
  ScrollMult = 1
  MaxMods = 0
  Addr = {1, 2}
  Allocators <- MCAllocators
  MaxFades = 2
  MaxNest = 1
CHECK_DEADLOCK FALSE
PROPERTIES FailedRetried
