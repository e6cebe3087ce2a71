SPECIFICATION LoopSpec
CONSTANTS
    MaxAttempts = 3
    AttemptTimeout = 3
    Backoff <- MCBackoff
    Budget <- MCBudget
    Advices = {0, 5, 20}
    NoAdvice = NoAdvice
    Lag = 1
INVARIANTS RecordedAreRequested RecordsAreTheirOwn AnnouncedRetriesHappen OverInBudget
CHECK_DEADLOCK FALSE
