SPECIFICATION FairSpec
CONSTANTS
    Urls = {"u", "v", "w"}
    Resolve <- MCResolve
    Serves <- MCServes
    LocalContexts <- MCLocalContexts
    ActiveContexts <- MCActiveContexts
    Options <- MCOptions
    Bases = {None, "document"}
    OriginalBase = "base"
    None = None
    Null = Null
    Failed = Failed
    MaxRemote = 4
    MaxDepth = 5
INVARIANTS
    DereferencedOnce
    ValidationSkipsCycles
    RemoteKeepsProtected
    ProtectedSurvives
    TripwireUnreachable
PROPERTY
    Terminates
CHECK_DEADLOCK FALSE
