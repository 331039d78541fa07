SPECIFICATION Spec
CONSTANTS
    Alphabet <- MCAlphabet
    None = None
    Null = Null
    MaxSyncDepth = 16
    MaxContextDepth = 4
    Requests <- MCRequests
    ScopedType <- MCScopedType
    ScopedVocab <- MCScopedVocab
INVARIANTS
    NeverFailsLate
    MeaningKept
    TypeScopeConfined
    EntryOrderIrrelevant
PROPERTY ReadBackExact
CHECK_DEADLOCK FALSE
