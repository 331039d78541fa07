SPECIFICATION MCSpec
CONSTANTS
    Contexts = {1, 2, 3, 4}
    NoContext = 0
    Addresses = {1, 2, 3, 4, 5}
    Cells = {1, 2, 3, 4, 5}
    Values = {0, 1}
    Unset = 0
    Scalars = {"vocabulary"}
    Modes = {"1.1"}
    DefaultMode = "1.1"
    f = f
    g = g
    Forks = {f, g}
    Terms = {"t"}
    Variables = {"v"}
    Answer <- MCAnswer
    MaxSteps = 8
    HandleCost = 1
SYMMETRY Symmetry
INVARIANTS
    Coherent
CHECK_DEADLOCK FALSE
