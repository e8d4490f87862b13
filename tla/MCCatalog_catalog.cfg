SPECIFICATION FairSpec
CONSTANTS
    Versions = {1, 2}
    Plans = {1, 2}
    SpecOf <- MCSpecs
    CapsOf <- MCCaps
    Scripted = {}
    States = {"withdrawn", "revoked"}
    FaultKinds = {"call", "lag", "history", "consumer", "restart"}
    MaxEvents = 3
    None = None
CHECK_DEADLOCK FALSE
INVARIANTS
    HoldsCoverFeed
    RunningIsUsable
PROPERTIES
    StatusOnlyAdvances
    InstallsUnchanged
    RevocationArrives
