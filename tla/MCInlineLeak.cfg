SPECIFICATION Spec
CONSTANTS
    Requests = {"stream1"}
    Users = {"ann", "bob"}
    Kind <- MCKind
    Caller <- MCCaller
    Limit <- MCLimit
    NewThisMonth = {}
    Capacity = 1
    EarlyDisconnects = TRUE
    CrashBound = 0
INVARIANT BusyMeansRunning
CHECK_DEADLOCK FALSE
