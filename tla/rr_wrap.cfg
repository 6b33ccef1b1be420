CONSTANTS
  Adders      = {a1}
  Selectors   = {s1}
  BackendIds  = {b1, b2, b3}
  MaxBackends = 3
  CursorBits  = 2
  MaxConns    = 0
  Algorithm   = "ROUNDROBIN"
  NULL        = NULL
  NONE        = NONE
SPECIFICATION Spec
SYMMETRY BackendSymmetry
PROPERTY RrStrictRotation
