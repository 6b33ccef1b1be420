\* Two adders race to publish while a least-connections selector scans and
\* the collaborators mark backends and move counters (up to 2, so ties and
\* strict minima both occur).  Least-connections selectors share no state,
\* so one selector shows every interleaving a second one would.  Only two
\* backend records exist, so the capacity of 2 is reached but never raced
\* past.  No symmetry, as CallsReturn is a liveness property; the view
\* leaves out the adders' last return values, which nothing here reads.
CONSTANTS
  Adders      = {a1, a2}
  Selectors   = {s1}
  BackendIds  = {b1, b2}
  MaxBackends = 2
  CursorBits  = 2
  MaxConns    = 2
  Algorithm   = "LEASTCONN"
  NULL        = NULL
  NONE        = NONE
SPECIFICATION Spec
VIEW NoStatusView
INVARIANT RegistryMatchesAddHistory
INVARIANT LcExactWhenQuiescent
PROPERTY RegistryRefinement
PROPERTY CallsReturn
