SPECIFICATION Spec
CONSTANTS
    n = n
    m = m
    p1 = p1
    p2 = p2
    v = v
    w = w
    x = x
    y = y
    t = t
    None = None
    Paths <- MCPaths
    Prefix <- MCPrefix
    Repo <- MCRepo
    Names = {n}
    Explicit = {p1}
    Workspaces = {v, w}
    Identities = {"i", "j"}
    Agents = {1, 2}
    AgentNames = {x, y, t}
    SummaryNames = 1
    MaxRows = 5
    Requests <- CarryRequests
    Prompted <- CarryPrompted
SYMMETRY NameSymmetry
CHECK_DEADLOCK FALSE
INVARIANT
    ConfirmationCoversCarry
