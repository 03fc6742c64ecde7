SPECIFICATION Spec
CONSTANTS
  Modifiers = {"shift", "lock", "control", "mod2"}
  NumLock = {"mod2"}
  ScrollLock = {}
  PlainKeys = {"a", "F1", "F2"}
  ModKeys = {"Control_L", "Control_R"}
  KeyZero = "a"
  ModMask <- MCModMask
  NoKey = NoKey
  Configs <- MCConfigs
  ParamNames = {"DISPLAY", "TERM"}
  ParamValues = {":0", ":1"}
  NULL = NULL
  Locks = {"mod2"}
  MaxLevel = 1
  MaxBacklog = 2
  MaxEvents = 2
  MaxHeld = 2
  MaxConns = 2
  MaxNest = 1
INVARIANTS NoProtocolError DisplayAsConfigured LevelInSync ModifiersMirror GrabsMatch TapReenabled
CHECK_DEADLOCK FALSE
