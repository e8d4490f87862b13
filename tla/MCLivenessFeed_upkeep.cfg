SPECIFICATION FairSpec
CONSTANTS
    r1 = r1
    r2 = r2
    a = a
    b = b
    Routes = {r1}
    Modules = {a, b}
    Keys = {1}
    GoneCap = 1
    PendingCap = 1
    MaxChanges = 4
    MaxRuns = 2
    Faults <- UpkeepFaults
    MaxFaults = 1
    MaxFlight = 1
CHECK_DEADLOCK FALSE
INVARIANTS
    UpkeepOK
PROPERTIES
    UpkeepEnds
