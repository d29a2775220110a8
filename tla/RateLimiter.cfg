SPECIFICATION LimiterSpec
CONSTANTS
    Callers = {ann, bob}
    MaxRequests = 2
    WindowTicks = 3
    Second = 2
    LastTick = 7
INVARIANTS
    BudgetExact
    RetryAfterIsEnough
CHECK_DEADLOCK FALSE
