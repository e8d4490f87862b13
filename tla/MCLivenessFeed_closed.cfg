SPECIFICATION Spec
CONSTANTS
    r1 = r1
    r2 = r2
    a = a
    b = b
    Routes = {r1}
    Modules = {a}
    Keys = {1}
    GoneCap = 1
    PendingCap = 0
    MaxChanges = 1
    MaxRuns = 0
    Faults <- FeedFaults
    MaxFaults = 1
    MaxFlight = 1
CHECK_DEADLOCK FALSE
INVARIANTS
    ClosedRouteIsStale
