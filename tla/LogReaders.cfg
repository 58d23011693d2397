SPECIFICATION Spec
CONSTANTS
    MaxFrames = 2
INVARIANTS
    InOrder
    TerminalIsTrue
    EndIsTold
PROPERTIES
    EndsUnlessTalking
CHECK_DEADLOCK FALSE
