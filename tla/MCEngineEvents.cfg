\* Two calls, one of them tracing, through a gate of one, and two Close calls.
CONSTANTS
    c1 = c1
    c2 = c2
    k1 = k1
    k2 = k2
    Calls <- MCCalls
    Closers <- MCClosers
    MaxConcurrent = 1
    MaxFuel = 2
    TracingCalls <- MCTracing
SYMMETRY MCSymmetry
SPECIFICATION Spec
INVARIANTS
    EveryEvaluationObserved
CHECK_DEADLOCK FALSE
