SPECIFICATION FairSpec
CONSTANTS
  NULL = NULL
  r1 = r1
  Remotes = {r1}
  MasterNode = master
  Hints <- MCHints
  Dim = 0
  Full = 2
  FadeSteps = 2
  MaxTries = 3
  MaxNest = 1
  Unit = 1
  MaxInterval = 2
  WordBits = 2
  MaxClock = 4
  MaxCalls = 9
INVARIANTS RunsInOrder NoUnderflow 
CHECK_DEADLOCK FALSE
PROPERTY CatchesUp
