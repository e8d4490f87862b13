SPECIFICATION HistorySpec
CONSTANTS
    N = 1
    FaultKinds <- RecoverableFaults
    MaxFaults = 2
CHECK_DEADLOCK FALSE
INVARIANTS
    ThawedUnlessRestarted
PROPERTIES
    MovesAndAbortsEnd
