CONSTANTS
  a1 = a1
  a2 = a2
  k1 = k1
  k2 = k2
  o1 = o1
  o2 = o2
  o3 = o3
  g1 = g1
  g2 = g2
  Operations = {o1, o2, o3}
  Owners = {g1, g2}
  Awards = {a1, a2}
  Queries <- MCQueries
SPECIFICATION Spec
SYMMETRY Symmetry
INVARIANT StoreValid
INVARIANT ResponsesTrue
PROPERTY OpenIntentFences
CHECK_DEADLOCK FALSE
