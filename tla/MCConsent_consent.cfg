SPECIFICATION Spec
CONSTANTS
    c = c
    d = d
    h = h
    i = i
    t = t
    x = x
    y = y
    v = v
    w = w
    None = None
    Calls = {c, d}
    Requests = {h, i, t}
    ToolOf <- MCTools
    Names = {x, y}
    ArgsOf <- MCArgs
    Workspaces = {v, w}
    DefaultCap = 2
    Caps = {1}
    PageSize = 1
    MaxEpoch = 2
    FaultKinds <- AllFaults
    MaxEvents = 3
SYMMETRY Symmetry
INVARIANTS
    OncePerRequest
    ActsOnAnswers
PROPERTIES
    OutcomesFinal
