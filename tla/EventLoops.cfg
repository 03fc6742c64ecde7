SPECIFICATION LoopSpec
CONSTANTS
  Ctx = {c1, c2, c3}
  Fds = {f1}
  NULL = NULL
  Contexts = {c1, c2, c3}
  NoCtx = NoCtx
INVARIANTS ListIntact WalkOnLive AllReadyCalled CallbacksArmed
PROPERTIES OnlySelected WalkEnds
