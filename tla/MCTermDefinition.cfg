SPECIFICATION FairSpec
CONSTANTS
    Strings <- MCStrings
    Form <- MCForm
    PrefixOf <- MCPrefixOf
    EndsInDelimiter = {"http://e/", "http://v/"}
    TypeTerm = "@type"
    None = None
    Null = Null
    LocalContexts <- MCLocalContexts
    ActiveContexts <- MCActiveContexts
    Options <- MCOptions
    Validates <- MCValidates
    MaxDepth = 5
INVARIANTS
    NoReentry
    CycleDetection
    SettledMappings
    ProtectedKept
PROPERTIES
    DefinedOnce
    Terminates
CHECK_DEADLOCK FALSE
