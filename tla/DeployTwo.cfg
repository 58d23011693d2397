SPECIFICATION Spec
CONSTANTS
    p1 = p1
    p2 = p2
    Procs = {p1, p2}
INVARIANTS
    TypeOK
    PublishedFirst
    SuccessIsTrue
    LeftoversExplained
PROPERTIES
    CommandsEnd
CHECK_DEADLOCK FALSE
