SPECIFICATION Spec
CONSTANTS
  MaxEntries = 2
  TtlSeconds = 2
  Keys = {k1, k2, k3, k4}
  Values = {v1, v2}
  Nothing = Nothing
  Instants <- MCInstants
SYMMETRY MCSymmetry
INVARIANTS
  CacheInv
PROPERTIES
  ImplementsStore
