\* Two calls, one of them tracing, through a gate of one, two Close calls, and handlers that
\* may never return.
CONSTANTS
    c1 = c1
    c2 = c2
    k1 = k1
    k2 = k2
    Calls <- MCCalls
    Closers <- MCClosers
    MaxConcurrent = 1
    MaxFuel = 2
    TracingCalls <- MCTracing
SPECIFICATION FairSpec
INVARIANTS
    SlotsAccounted
    TrapIsGuestFault
    HookOutsideGate
PROPERTIES
    NoSuccessAfterClose
    ServiceSpec
    EveryCallReturns
    CancelledWaiterReturns
CHECK_DEADLOCK FALSE
