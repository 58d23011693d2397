CONSTANTS
    NCalls = 2
    MaxRetriesArg = 2
    Options <- MCOptions
SPECIFICATION UpdSpec
INVARIANTS
    ExecutionsBounded
    LastWordStands
    OthersKept
PROPERTIES
    AnswersAreDefinite
    CallsEnd
    ImplementsContract
CHECK_DEADLOCK FALSE
