CONSTANTS
  d1 = d1
  d2 = d2
  d3 = d3
  A = A
  B = B
  r1 = r1
  r2 = r2
  Deliveries = {d1, d2, d3}
  Claims <- MCClaims
  Authorities <- MCAuthorities
SPECIFICATION Spec
SYMMETRY Symmetry
INVARIANT OutcomesTrue
PROPERTY ImplementsLedger
CHECK_DEADLOCK FALSE
