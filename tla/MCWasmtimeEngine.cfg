\* Two calls and one permit; a tick is two units of time.
CONSTANTS
    c1 = c1
    c2 = c2
    Calls <- MCCalls
    MaxConcurrent = 1
    Timeouts <- MCTimeouts
    TickLen = 2
    Horizon = 3
SPECIFICATION FairSpec
INVARIANTS
    StoresUnderPermits
PROPERTIES
    EarlyByATick
    EveryEvaluationReturns
CHECK_DEADLOCK FALSE
