SPECIFICATION Spec
CONSTANTS
  Keys = {k1, k2}
  Limit = 2
  Window = 3
  NULL = NULL
  MaxTime = 7
SYMMETRY Symmetry
INVARIANTS TypeOK WindowBound NoUndueRefusal
