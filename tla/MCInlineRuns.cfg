SPECIFICATION FairSpec
CONSTANTS
    Requests = {"stream1", "stream2", "sync1", "chat1"}
    Users = {"ann", "bob"}
    Kind <- MCKind
    Caller <- MCCaller
    Limit <- MCLimit
    NewThisMonth = {"ann", "bob"}
    Capacity = 2
    EarlyDisconnects = TRUE
    CrashBound = 1
INVARIANTS
    GateInv
    StreamOutcomeStored
    PaidIffAdmitted
PROPERTY GateEmpties
CHECK_DEADLOCK FALSE
