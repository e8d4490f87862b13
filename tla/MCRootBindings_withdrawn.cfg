SPECIFICATION Spec
CONSTANTS
    Roots = {1, 2}
    Projects = {p, q}
    Containers = {c}
    None = None
    Unverifiable = Unverifiable
    MaxTokens = 2
    MaxEpochs = 3
    MaxChanges = 2
SYMMETRY Symmetry
INVARIANT
    WithdrawnForEveryRoot
