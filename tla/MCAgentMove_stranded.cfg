SPECIFICATION Spec
CONSTANTS
    N = 1
    FaultKinds <- OnlyLost
    MaxFaults = 2
CHECK_DEADLOCK FALSE
INVARIANTS
    ClaimNeverStranded
