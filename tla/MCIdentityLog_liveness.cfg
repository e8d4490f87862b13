SPECIFICATION FairSpec
CONSTANTS
    a = a
    b = b
    w1 = w1
    w2 = w2
    w3 = w3
    k1 = k1
    k2 = k2
    Machines = {a, b}
    Requests = {w1}
    KeyOf <- OwnKeys
    Parts = 2
    PageLimit = 2
    Retries = 1
    MaxEnables = 2
    FaultKinds <- RecoverableFaults
    MaxFaults = 2
CHECK_DEADLOCK FALSE
PROPERTIES
    WritesAndEnablesEnd
