SPECIFICATION Spec
CONSTANTS
    N = 2
    FaultKinds <- AllFaults
    MaxFaults = 3
CHECK_DEADLOCK FALSE
INVARIANTS
    TypeOK
    LivesOnce
    ClaimFollowsMove
    AbortLeavesNothing
    BoundaryInv
PROPERTIES
    RecordFollowsContract
    BoundaryIsFinal
    ImplementsDecision
