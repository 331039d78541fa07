SPECIFICATION Spec
CONSTANTS
    a = a
    p = p
    q = q
    t = t
    i = i
    j = j
    b0 = b0
    b1 = b1
    b2 = b2
    Blanks = {b0, b1, b2}
    Iris = {a, p, q, t}
    Generated <- MCGenerated
    Documents <- MCDocuments
    Objects <- MCObjects
    Depth <- MCDepth
    None = None
    Default = Default
INVARIANTS
    LookupsDefined
    DistinctNodes
    StatementsKept
    ConflictsReported
    FlattenKeeps
    MergeKeeps
CHECK_DEADLOCK FALSE
