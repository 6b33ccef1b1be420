\* One adder fills the registry to capacity while one round-robin selector
\* runs and the collaborators mark backends (round-robin never reads the
\* connection counters, so they stay at 0 here; registry_lc moves them).
\* N only takes the values 1 and 2, which divide the cursor's 2^2 values;
\* rr_wrap takes N to 3.  The refinement of LbRegistryAbstract is not
\* checked for round-robin: at N = 3 a lone caller starting at cursor 3
\* reads slots 0, 0, 1 and returns NULL while slot 2 is UP throughout.
CONSTANTS
  Adders      = {a1}
  Selectors   = {s1}
  BackendIds  = {b1, b2, b3}
  MaxBackends = 2
  CursorBits  = 2
  MaxConns    = 0
  Algorithm   = "ROUNDROBIN"
  NULL        = NULL
  NONE        = NONE
SPECIFICATION Spec
INVARIANT TypeOK
PROPERTY RrStrictRotation
PROPERTY CallsReturn
