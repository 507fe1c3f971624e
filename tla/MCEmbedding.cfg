\* Two engines on one compilation cache, two goroutines on one adapted importer.
CONSTANTS
    Engines = {e1, e2}
    Cached = {e1, e2}
    Callers = {c1, c2}
    Configs <- MCConfigs
    Requests <- MCRequests
    EvalErrors <- MCErrors
SPECIFICATION Spec
INVARIANTS
    RuntimesAccounted
    OneStackPerCache
    PreparedIsAccepted
    HostsLimitAlike
    AnswerReadable
PROPERTIES
    EndsUnlessPanicked
CHECK_DEADLOCK FALSE
