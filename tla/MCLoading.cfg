SPECIFICATION Spec
CONSTANTS
    Alphabet <- MCAlphabet
    None = None
    Null = Null
    Endless = Endless
    MaxSyncDepth = 16
    MaxContextDepth = 4
    MaxReceived = 4
    Calls <- MCCalls
    Answers <- MCAnswers
    Files <- MCFiles
    ContextLink <- MCContextLink
    Extract <- MCExtract
    ProcessIn <- MCProcessIn
    ExpandIn <- MCExpandIn
    AlternateLink <- MCAlternateLink
INVARIANTS
    LinkedContext
    RedirectionsExact
    FailureExplained
PROPERTY LoadReturns
CHECK_DEADLOCK FALSE
