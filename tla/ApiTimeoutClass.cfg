CONSTANTS
    NCalls = 1
    MaxRetriesArg = 1
SPECIFICATION Spec
INVARIANTS
    TimeoutErrorMeansTimeout
CHECK_DEADLOCK FALSE
