\* Four calls and two permits, which their holders may keep for ever.
CONSTANTS
    c1 = c1
    c2 = c2
    c3 = c3
    c4 = c4
    Calls <- MCCalls
    MaxConcurrent = 2
SPECIFICATION GateFairSpec
INVARIANTS
    NoLostWakeup
PROPERTIES
    SemaphoreSpec
    WaiterServed
    ExpiredWaiterLeaves
CHECK_DEADLOCK FALSE
