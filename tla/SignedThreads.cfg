\* One server process whose worker threads share a replay store.
CONSTANTS
    a1 = a1  a2 = a2  b1 = b1  b2 = b2  k1 = k1  k2 = k2  w1 = w1  w2 = w2
    s1 = s1  n1 = n1  n2 = n2
    Actors = {a1}
    Nonces = {n1, n2}
    Bodies = {b1}
    Secrets = {k1}
    Workers = {w1, w2}
    Stores = {s1}
    StoreOf <- OneStore
    Clients <- HmacClients
    NoWallet = NoWallet
    NoCall = NoCall
    Garbled = Garbled
    Entries = {"hmac"}
    Faults = {}
    GivenNows = {0}
    Window = 1
    MaxSkew = 0
    MaxTime = 2
    MaxCalls = 4
    MaxEpoch = 1
SYMMETRY WorkerSymmetry
SPECIFICATION Spec
INVARIANTS
    TypeOK
    AtMostOnceUnlessConcurrent
    ReplayHasOriginal
CHECK_DEADLOCK FALSE
