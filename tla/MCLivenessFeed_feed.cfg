SPECIFICATION Spec
CONSTANTS
    r1 = r1
    r2 = r2
    a = a
    b = b
    Routes = {r1, r2}
    Modules = {a, b}
    Keys = {1, 2}
    GoneCap = 1
    PendingCap = 0
    MaxChanges = 2
    MaxRuns = 0
    Faults <- FeedFaults
    MaxFaults = 2
    MaxFlight = 2
CHECK_DEADLOCK FALSE
SYMMETRY FeedSymmetry
INVARIANTS
    AnswersMatchReports
    LostHostIsStale
