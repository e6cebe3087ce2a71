SPECIFICATION FairSpec
CONSTANTS
    Processes = {p1}
    Requests = {r1, r2}
    MaxEvents = 9
    NoProcess = NoProcess
    NoRequest = NoRequest
    MaxTime = 1
    MaxAge = 1
    Thresholds <- MCThresholds
PROPERTIES EveryCallEnds
CHECK_DEADLOCK FALSE
