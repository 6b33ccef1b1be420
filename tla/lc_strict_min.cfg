CONSTANTS
  Adders      = {a1}
  Selectors   = {s1}
  BackendIds  = {b1, b2}
  MaxBackends = 2
  CursorBits  = 2
  MaxConns    = 2
  Algorithm   = "LEASTCONN"
  NULL        = NULL
  NONE        = NONE
SPECIFICATION Spec
SYMMETRY BackendSymmetry
INVARIANT LcStrictMinimumReturned
