SPECIFICATION PackSpec
CONSTANTS
    Files <- MCFiles
    ByName <- MCByName
    Dirs <- MCDirs
    Target <- MCTarget
    Outside = {"out"}
    Ignored = {"log"}
    Missing = {"nothing"}
    Removable = {"b", "data"}
    Module = "app.py"
    Steps <- MCSteps
    MaxSteps = 3
    TooLarge <- MCTooLarge
INVARIANTS
    ContextComplete
    Deterministic
    ScriptIsBuilt
CHECK_DEADLOCK FALSE
