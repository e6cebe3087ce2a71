SPECIFICATION Spec
CONSTANTS
    Processes = {p1, p2}
    Requests = {r1, r2, r3}
    MaxEvents = 14
    NoProcess = NoProcess
    NoRequest = NoRequest
    MaxTime = 1
    MaxAge = 1
    Thresholds <- MCThresholds
SYMMETRY Symmetry
INVARIANTS ReplayIsLoop MemoryMatchesTable
PROPERTIES HoldIsPermanent DurableContainment ImplementsLedger
CHECK_DEADLOCK FALSE
