SPECIFICATION Spec
CONSTANTS
  r1 = r1
  r2 = r2
  Remotes <- MCRemotes
  Alias <- MCAlias
  Host <- MCHost
  MasterNode = MasterNode
  NULL = NULL
  Names = {"desk", "den", "laptop", "nowhere"}
  Directions = {"LEFT"}
  MaxSettings = 2
  MaxLinks = 2
INVARIANTS AppliedAsWritten ReachableExact
CHECK_DEADLOCK FALSE
