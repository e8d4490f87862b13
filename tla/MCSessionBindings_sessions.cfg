SPECIFICATION Spec
CONSTANTS
    Machines = {a, b}
    Agents = {"g1", "g2"}
    Movers = {"g1"}
    Requests <- MCRequests
    Runners = {"r"}
    Times = {1, 2}
    HistoryCap = 2
    PruneBatch = 1
    MoveCap = 4
    MaxWrites = 3
    MaxMoves = 1
    MaxReads = 2
INVARIANTS
    BindingsOK
    MovesCarryBindings
PROPERTIES
    HistoryFollowsSession
    FencesHold
SYMMETRY Symmetry
CHECK_DEADLOCK FALSE
