CONSTANTS
  c1 = c1
  c2 = c2
  o1 = o1
  o2 = o2
  o3 = o3
  planner = planner
  Controllers = {c1, c2}
  Observations = {o1, o2, o3}
  Roles = {planner}
  Cap <- MCCap
  MaxObservations = 2
  NoObservation = NoObservation
SPECIFICATION Spec
SYMMETRY Symmetry
INVARIANT AccountedFor
PROPERTY OrphanedFenceBlocks
CHECK_DEADLOCK FALSE
