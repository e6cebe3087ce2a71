CONSTANTS
  k1 = k1
  k2 = k2
  r1 = r1
  r2 = r2
  Keys = {k1, k2}
  MaxJobs = 2
  Requests = {r1, r2}
  MaxAnalyses = 2
  MaxCalls = 1
SPECIFICATION Spec
INVARIANT JobsAccountedFor
INVARIANT AdviceAccountedFor
PROPERTY HoldIsFinal
PROPERTY EverythingEnds
CHECK_DEADLOCK FALSE
