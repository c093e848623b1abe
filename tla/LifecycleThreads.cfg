SPECIFICATION Spec
CONSTANTS
  Thread = {t1, t2}
  Board = {b1, b2}
  Handle = {h1, h2, h3}
  Context = {x1, x2}
  NULL = NULL
  MAX_OPENS = 4
  MAX_NULL_CLOSES = 0
  Env = {"init_error", "open_error", "config_error", "claim_error", "no_mem", "alloc_error"}
SYMMETRY Symmetry
INVARIANTS
  HandlesAreDevices
  BoardsAreExclusive
  SerialCallsAreSafe
