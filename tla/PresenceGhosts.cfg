SPECIFICATION Spec
CONSTANTS
  Keys = {k1, k2}
  Refs = {r1, r2, r3}
  MaxQueue = 2
SYMMETRY Symmetry
INVARIANT NoGhosts
