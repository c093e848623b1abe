SPECIFICATION Spec
CONSTANTS
  Thread = {t1}
  Board = {b1, b2}
  Handle = {h1, h2, h3}
  Context = {x1, x2}
  NULL = NULL
  MAX_OPENS = 4
  MAX_NULL_CLOSES = 1
  Env = {}
SYMMETRY Symmetry
INVARIANT ExitRespectsUse
