\* Two CLI processes that may be killed, and clients with every combination of
\* flags and variables.
SPECIFICATION Spec
SYMMETRY ProcSymmetry
CONSTANTS
    p1 = p1
    p2 = p2
    Procs = {p1, p2}
    BaseArgs = {"None", "%%/", "%(x)s"}
    KeyArgs = {"None", "%%%%", "%(x)s"}
    Width <- MCWidth
    EnvUrls = {"None", "", "http://env"}
    EnvKeys = {"None", "env"}
    FlagUrls = {"None", "http://flag"}
    FlagKeys = {"None", "flag"}
    NUpdates = 3
INVARIANTS
    UnreadableHasCause
    RemovedKeyStaysAway
PROPERTIES
    ImplementsRegister
