SPECIFICATION Spec
CONSTANTS
    Values <- MCValues
    MAX_KEYS = 2
    MaxValues = 3
    MaxReports = 2
    MaxMeanwhile = 1
    Commands = {a, b}
    PrivateKeys = {"key 1", "key 2"}
SYMMETRY Alike
INVARIANTS
    RecordIsLastReport
    SavedKeyIsGiven
    PrivateWhenDone
