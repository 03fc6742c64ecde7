SPECIFICATION Spec
CONSTANTS
  Texts = {a, b}
  NULL = NULL
  MaxTime = 5
  MaxPastes = 1
  MaxAge = 1
SYMMETRY TextSymmetry
CHECK_DEADLOCK FALSE
INVARIANTS CacheMatchesOwnership GetIsCurrent  ClipboardFollows WaitAnswered
