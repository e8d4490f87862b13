SPECIFICATION SharingSpec
CONSTANTS
    a = a
    b = b
    w1 = w1
    w2 = w2
    w3 = w3
    k1 = k1
    k2 = k2
    Machines = {a, b}
    Requests = {w1, w2, w3}
    KeyOf <- SameKey
    Parts = 1
    PageLimit = 2
    Retries = 1
    MaxEnables = 1
    FaultKinds <- WriteFaults
    MaxFaults = 2
SYMMETRY WriteSymmetry
INVARIANTS
    StoresOK
    ReplicasAgree
    OncePerKey
PROPERTIES
    ImplementsHistory
