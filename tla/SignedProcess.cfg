\* One asyncio server process that crashes and restarts; miners of every
\* configuration, clocks off by more than the window, damaged requests, both
\* verifiers.
CONSTANTS
    a1 = a1  a2 = a2  b1 = b1  b2 = b2  k1 = k1  k2 = k2  w1 = w1  w2 = w2
    s1 = s1  n1 = n1  n2 = n2
    Actors = {a1, a2}
    Nonces = {n1}
    Bodies = {b1, b2}
    Secrets = {k1, k2}
    Workers = {w1}
    Stores = {s1}
    StoreOf <- OneStore
    Clients <- MixedClients
    NoWallet = NoWallet
    NoCall = NoCall
    Garbled = Garbled
    Entries = {"hmac", "hotkey"}
    Faults = {"body", "signature"}
    GivenNows = {0}
    Window = 1
    MaxSkew = 2
    MaxTime = 4
    MaxCalls = 2
    MaxEpoch = 1
SYMMETRY BodySymmetry
SPECIFICATION Spec
INVARIANTS
    AtMostOnce
    ReplayHorizon
    AcceptedIsAuthentic
    MismatchHasCause
PROPERTIES
    ImplementsContract
CHECK_DEADLOCK FALSE
