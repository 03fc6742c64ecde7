SPECIFICATION MouseSpec
CONSTANTS
  Directions = {"LEFT", "UP"}
  HISTLEN = 3
  Num = 2
  Window = 2
  StartTime = 3
  MaxTime = 6
  MaxNest = 2
  MaxEvents = 5
  Width = 8
  MaxStep = 3
  MaxMotion = 3
INVARIANTS MultiTap InSync PointerFollows
CHECK_DEADLOCK FALSE
