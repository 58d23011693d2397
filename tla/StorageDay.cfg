SPECIFICATION Spec
CONSTANTS
    Rates = {100}
    MaxGap = 1
    MaxMinutes = 2880
INVARIANTS
    ExactOverDays
CHECK_DEADLOCK FALSE
