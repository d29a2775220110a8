SPECIFICATION FairSpec
CONSTANTS
    ann = ann
    bob = bob
    a = a
    b = b
    open = open
    advice = advice
    free = free
    Turns = {open, advice, free}
    Conversations = {a, b}
    Fresh = {b}
    Users = {ann, bob}
    Owner <- MCOwner
    Targets <- MCTargets
    Caller <- MCCaller
    Texts <- MCTexts
    Payers = {ann}
    RunLimit = 1
    HistoryTurns = 3
    PoolSizes = {3, 5}
    Crashes = 1
    None = None
INVARIANTS
    AdviceIsRefused
    TurnsInv
    TenantsApart
    ChatRunsMetered
PROPERTY
    TurnsEnd
CHECK_DEADLOCK FALSE
