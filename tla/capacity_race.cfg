CONSTANTS
  Adders      = {a1, a2}
  Selectors   = {s1}
  BackendIds  = {b1, b2, b3}
  MaxBackends = 2
  CursorBits  = 2
  MaxConns    = 0
  Algorithm   = "LEASTCONN"
  NULL        = NULL
  NONE        = NONE
SPECIFICATION Spec
SYMMETRY BackendSymmetry
INVARIANT CountWithinCapacity
