SPECIFICATION Spec
CONSTANTS
    Configurations <- MCConfigurations
    RequestFacts <- MCRequestFacts
    MaxCalls = 3
INVARIANTS PreflightSound ContainedSession AgentKOnlyContains ReviewedNotPermitted
CHECK_DEADLOCK FALSE
