CONSTANTS
  Adders      = {a1}
  Selectors   = {s1, s2}
  BackendIds  = {b1, b2}
  MaxBackends = 2
  CursorBits  = 2
  MaxConns    = 0
  Algorithm   = "ROUNDROBIN"
  NULL        = NULL
  NONE        = NONE
SPECIFICATION Spec
SYMMETRY BackendSymmetry
INVARIANT NoCandidateOnlyWhenNoneUp
